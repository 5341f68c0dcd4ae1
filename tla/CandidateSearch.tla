---------------------------- MODULE CandidateSearch ----------------------------
(***************************************************************************)
(* One claimed request from the catalog lookup to its stored candidates:   *)
(* RunOnce of the worker, the catalog and source observation tables it     *)
(* writes on the way, and what goes on around it: another worker (or an    *)
(* import) that writes the same rows, the retention purge, and the         *)
(* deletion of the client.                                                 *)
(*                                                                         *)
(* Every statement that commits by itself is an action; so are the two     *)
(* statements of one transaction between which another commit may fall.    *)
(* The artists of a recording are kept in its row: an artist's identifier  *)
(* is a digest of its name, so SaveArtist rewrites a row to what it is.    *)
(***************************************************************************)
EXTENDS Matching

CONSTANTS
    Observations,   \* track observations a request may be about
    Providers,      \* the worker's providers, in their order
    Answers,        \* provider -> the lists of results it may answer with
    EntityId,       \* <<provider, external id>> -> recording identifier
    OldResults,     \* <<provider, result>> that an earlier search may have saved
    Imported,       \* recordings that an import may have put into the catalog
    MaxCandidates,  \* bound: the longest list of candidates the queue is told of
    MaxOthers,      \* bound: writes of other workers and imports
    MaxFaults       \* bound: database errors, lost replies and crashes

ASSUME EntityAssumption ==
    \A e, f \in DOMAIN EntityId :
        EntityId[e] \in Nat /\ (EntityId[e] = EntityId[f] => e = f)

VARIABLES
    observation, \* the request's track observation
    recordings,  \* per recording identifier: its catalog row, or None
    releases,    \* identifiers in catalog_releases
    sources,     \* per source key: its source_observations row, or None
    drawn,       \* number of source observation identifiers drawn
    doomed,      \* identifiers of the source rows a running purge has selected
    request,     \* the request's row and its candidates
    at,          \* where RunOnce is
    turn,        \* the position in the catalog's or the provider list
    answer,      \* the rows or results still to be handled
    answered,    \* some provider has answered
    found,       \* the candidates accepted so far
    ranked,      \* the candidates about to be saved
    code,        \* the error code about to be written
    others,      \* number of writes of other workers
    faults       \* number of faults so far

tables == <<recordings, releases, sources, drawn>>
worker == <<at, turn, answer, answered, found, ranked, code>>
vars   == <<observation, tables, doomed, request, worker, others, faults>>

Results(p) == UNION {ToSet(list) : list \in Answers[p]}

-------------------------------------------------------------------------------
(* What is searched for, and what may be found.                            *)

TrackObservation ==
    [title : Text, artists : Seq(Text), album : Text, duration : Nat \cup {None},
     fingerprint : BOOLEAN]

Recording ==
    [id : Nat, title : Text, artists : Seq(Text), duration : Nat \cup {None},
     isrc : Text \cup {None}]

\* A provider names recordings and releases by identifiers of its own.
ProviderResult ==
    [id : STRING, title : Text, artists : Seq(Text), duration : Nat \cup {None},
     isrc : Text \cup {None}, release : [id : STRING, title : Text] \cup {None},
     payload : STRING]

Release == [id : STRING \X STRING, title : Text]

SourceRow == [id : Nat, aged : BOOLEAN]

ASSUME SearchAssumption ==
    /\ Observations \subseteq TrackObservation
    /\ DOMAIN Answers \subseteq STRING
    /\ Providers \in Seq(DOMAIN Answers)
    /\ \A p \in DOMAIN Answers : Answers[p] \subseteq Seq(ProviderResult)

\* Every result has an identifier; what is in the catalog at first is finite.
ASSUME CatalogAssumption ==
    /\ \A p \in DOMAIN Answers : \A r \in Results(p) : <<p, r.id>> \in DOMAIN EntityId
    /\ \A o \in OldResults : /\ o[2] \in ProviderResult
                             /\ <<o[1], o[2].id>> \in DOMAIN EntityId
    /\ Imported \subseteq Recording
    /\ IsFiniteSet(OldResults) /\ IsFiniteSet(Imported) /\ IsFiniteSet(DOMAIN EntityId)

ASSUME BoundAssumption == MaxCandidates \in Nat

ASSUME NoneAssumption == None \notin Recording /\ None \notin SourceRow

-------------------------------------------------------------------------------
(* The tables.                                                             *)

\* UNIQUE (provider, entity_type, external_id, payload_hash)
SourceKey(p, result) == <<p, result.id, result.payload>>
SourceKeys ==
    {SourceKey(o[1], o[2]) : o \in OldResults}
    \cup UNION {{SourceKey(p, r) : r \in Results(p)} : p \in DOMAIN Answers}

RecordingIds == Range(EntityId) \cup {r.id : r \in Imported}

\* The catalog row of a provider's result.
CatalogRow(p, result) ==
    [id |-> EntityId[<<p, result.id>>], title |-> result.title,
     artists |-> result.artists, duration |-> result.duration, isrc |-> result.isrc]

ReleaseId(p, result) ==
    IF result.release = None THEN None ELSE <<p, result.release.id>>

SourceIds == {sources[k].id : k \in {q \in SourceKeys : sources[q] # None}}

\* The rows of these keys, numbered in this order.
OldSources(order, aged) ==
    [k \in SourceKeys |->
        IF k \in ToSet(order)
          THEN [id |-> CHOOSE n \in DOMAIN order : order[n] = k, aged |-> aged] ELSE None]

\* What earlier searches and an import have left behind, long ago.
Init ==
    /\ observation \in Observations
    /\ \E old \in SUBSET OldResults, imported \in SUBSET Imported :
          LET rows == {CatalogRow(o[1], o[2]) : o \in old} \cup imported
          IN  /\ recordings = [i \in RecordingIds |->
                                 IF \E row \in rows : row.id = i
                                   THEN CHOOSE row \in rows : row.id = i ELSE None]
              /\ releases = {ReleaseId(o[1], o[2]) : o \in old} \ {None}
              /\ LET order == SetToSeq({SourceKey(o[1], o[2]) : o \in old})
                 IN  /\ \E aged \in BOOLEAN : sources = OldSources(order, aged)
                     /\ drawn = Len(order)
    /\ doomed = {}
    /\ request = [status |-> "matching", error |-> "", candidates |-> <<>>]
    /\ at = "lookup" /\ turn = 1 /\ answer = <<>> /\ answered = FALSE
    /\ found = <<>> /\ ranked = <<>> /\ code = ""
    /\ others = 0 /\ faults = 0

-------------------------------------------------------------------------------
(* RunOnce: the catalog.                                                   *)

ToSave(candidates) ==
    /\ at' = "save"
    /\ ranked' = Ranked(candidates)
    /\ UNCHANGED code

ToFail(error) ==
    /\ at' = "fail"
    /\ code' = error
    /\ answer' = <<>> /\ ranked' = <<>>
    /\ UNCHANGED <<turn, answered, found>>

Candidate(scored, source, recording, release, sourceId) ==
    [recording |-> recording, release |-> release, score |-> scored.score,
     evidence |-> scored.evidence, conflicts |-> scored.conflicts,
     source |-> source, sources |-> {source}, observation |-> sourceId,
     patch |-> GenerateTagPatch(observation, recording, release)]

\* Mutant of Accepted: a score of just 0.45 is not enough.
AcceptedAbove(candidate) ==
    IF candidate.score > Threshold THEN Append(found, candidate) ELSE found

Accepted(candidate) ==
    IF candidate.score >= Threshold THEN Append(found, candidate) ELSE found

\* What has been accepted, and this recording if it scores high enough.
Consider(source, recording, release, sourceId) ==
    Accepted(Candidate(ScoreCandidate(observation, recording, release),
                       source, recording, release, sourceId))

\* Without a match in the catalog the providers are asked, if there are any.
LookupDone(candidates) ==
    IF candidates = <<>> /\ Providers # <<>>
      THEN at' = "query" /\ UNCHANGED <<ranked, code>>
      ELSE ToSave(candidates)

GoOnReading == at' = "artists" /\ UNCHANGED <<ranked, code>>

\* The rows with the normalised title, ORDER BY title, id, of which the order of
\* different titles is left open; their artists are read afterwards.
FindRecordings ==
    /\ at = "lookup"
    /\ LET title == NormalizeText(observation.title)
           rows  == {recordings[i] : i \in
                       {j \in RecordingIds : /\ recordings[j] # None
                                            /\ NormalizeText(recordings[j].title) = title}}
       IN  /\ \E list \in SetToSeqs(rows) :
                 /\ \A i, j \in DOMAIN list :
                       i < j /\ list[i].title = list[j].title => list[i].id < list[j].id
                 /\ answer' = list
           /\ IF rows = {} THEN LookupDone(found) ELSE GoOnReading
    /\ UNCHANGED <<observation, tables, doomed, request, turn, answered, found, others,
                   faults>>

\* The artists of one row, as they are now; the row's other columns are as they
\* were.
ReadArtists ==
    /\ at = "artists"
    /\ LET row  == [Head(answer) EXCEPT !.artists = recordings[Head(answer).id].artists]
           list == Consider("catalog", row, None, None)
       IN  /\ found' = list
           /\ answer' = Tail(answer)
           /\ IF Tail(answer) = <<>> THEN LookupDone(list) ELSE GoOnReading
    /\ UNCHANGED <<observation, tables, doomed, request, turn, answered, others, faults>>

-------------------------------------------------------------------------------
(* RunOnce: the providers, one after the other.                            *)

Asking == at = "query" /\ turn <= Len(Providers)

\* AcoustID is asked only about a fingerprint with a duration.
Skipped(p) == p = "acoustid" /\ (~observation.fingerprint \/ observation.duration = None)

\* An error of one provider, like a skipped one, leaves the others their turn.
ProviderFails ==
    /\ Asking
    /\ turn' = turn + 1
    /\ UNCHANGED <<observation, tables, doomed, request, at, answer, answered, found,
                   ranked, code, others, faults>>

ProviderAnswers ==
    /\ Asking
    /\ ~Skipped(Providers[turn])
    /\ \E list \in Answers[Providers[turn]] :
          /\ answer' = list
          /\ at' = IF list = <<>> THEN "query" ELSE "persist"
          /\ turn' = IF list = <<>> THEN turn + 1 ELSE turn
    /\ answered' = TRUE
    /\ UNCHANGED <<observation, tables, doomed, request, found, ranked, code, others, faults>>

Result == Head(answer)
Source == Providers[turn]
Key    == SourceKey(Source, Result)

\* PRIMARY KEY (recording_id, artist_id): an artist may not be named twice.
Storable(result) == Cardinality(ToSet(result.artists)) = Len(result.artists)

\* SaveRecording: the row, with its artists, is replaced in one transaction.
SaveRecording ==
    /\ at = "persist"
    /\ Storable(Result)
    /\ LET row == CatalogRow(Source, Result)
       IN  recordings' = [recordings EXCEPT ![row.id] = row]
    /\ at' = IF Result.release = None THEN "record" ELSE "release"
    /\ UNCHANGED <<observation, releases, sources, drawn, doomed, request, turn, answer,
                   answered, found, ranked, code, others, faults>>

SaveRelease ==
    /\ at = "release"
    /\ releases' = releases \cup {ReleaseId(Source, Result)}
    /\ at' = "record"
    /\ UNCHANGED <<observation, recordings, sources, drawn, doomed, request, turn, answer,
                   answered, found, ranked, code, others, faults>>

\* The result is scored, and the worker goes on to the next one.
Accept(sourceId) ==
    LET release == IF Result.release = None THEN None
                   ELSE [id |-> ReleaseId(Source, Result), title |-> Result.release.title]
        last    == Tail(answer) = <<>>
    IN  /\ found' = Consider(Source, CatalogRow(Source, Result), release, sourceId)
        /\ answer' = Tail(answer)
        /\ at' = IF last THEN "query" ELSE "persist"
        /\ turn' = IF last THEN turn + 1 ELSE turn
        /\ UNCHANGED <<answered, ranked, code>>

NewSource(key) ==
    /\ sources' = [sources EXCEPT ![key] = [id |-> drawn + 1, aged |-> FALSE]]
    /\ drawn' = drawn + 1

\* Mutant of CreateSourceObservation: a row that exists is written again.
CreateSourceObservationAgain ==
    /\ at = "record"
    /\ NewSource(Key)
    /\ Accept(drawn + 1)
    /\ UNCHANGED <<observation, recordings, releases, doomed, request, others, faults>>

\* INSERT ... ON CONFLICT DO NOTHING: a row that exists stays as it is, its
\* expiry included.
CreateSourceObservation ==
    /\ at = "record"
    /\ IF sources[Key] = None
         THEN NewSource(Key) /\ Accept(drawn + 1)
         ELSE /\ at' = "select"
              /\ UNCHANGED <<sources, drawn, turn, answer, answered, found, ranked, code>>
    /\ UNCHANGED <<observation, recordings, releases, doomed, request, others, faults>>

\* The SELECT after a conflict; a purge may have removed the row in between.
SelectSourceObservation ==
    /\ at = "select"
    /\ IF sources[Key] = None
         THEN ToFail("PROVIDER_QUERY_FAILED")
         ELSE Accept(sources[Key].id)
    /\ UNCHANGED <<observation, tables, doomed, request, others, faults>>

\* A statement of the four above fails, or SaveRecording refuses an artist that
\* is named twice: the whole search fails.
PersistFails ==
    /\ at \in {"persist", "release", "record", "select"}
    /\ ToFail("PROVIDER_QUERY_FAILED")
    /\ UNCHANGED <<observation, tables, doomed, request, others, faults>>

\* All providers have had their turn; the metrics are written first.
ProvidersDone ==
    /\ at = "query"
    /\ turn > Len(Providers)
    /\ IF answered
         THEN /\ ToSave(MergeCrossSourceCandidates(found))
              /\ UNCHANGED <<turn, answer, answered, found>>
         ELSE ToFail("PROVIDER_UNAVAILABLE")
    /\ UNCHANGED <<observation, tables, doomed, request, others, faults>>

-------------------------------------------------------------------------------
(* RunOnce: the outcome.                                                   *)

Done ==
    /\ at' = "done"
    /\ answer' = <<>> /\ ranked' = <<>> /\ code' = ""
    /\ UNCHANGED <<turn, answered, found>>

Ids(candidates) == [i \in DOMAIN candidates |-> candidates[i].recording.id]

\* Mutant of Savable: UNIQUE (request_id, recording_id) is missing.
SavableTwice == request.status # "deleted"

\* The request's row, one candidate per recording, and the rows the foreign
\* keys of a candidate name.
Savable ==
    /\ request.status # "deleted"
    /\ Cardinality(ToSet(Ids(ranked))) = Len(ranked)
    /\ \A c \in ToSet(ranked) :
          /\ recordings[c.recording.id] # None
          /\ c.release # None => c.release.id \in releases
          /\ c.observation # None => c.observation \in SourceIds

WriteOutcome ==
    request' = [status |-> IF ranked = <<>> THEN "no_match" ELSE "matched",
                error |-> "", candidates |-> ranked]

Save ==
    /\ at = "save"
    /\ Savable
    /\ WriteOutcome
    /\ Done
    /\ UNCHANGED <<observation, tables, doomed, others, faults>>

SaveRefused ==
    /\ at = "save"
    /\ ~Savable
    /\ ToFail("CANDIDATE_SAVE_FAILED")
    /\ UNCHANGED <<observation, tables, doomed, request, others, faults>>

Fault == faults < MaxFaults /\ faults' = faults + 1

\* Committed, but reported to the worker as an error.
SaveReplyLost ==
    /\ at = "save"
    /\ Savable
    /\ Fault
    /\ WriteOutcome
    /\ ToFail("CANDIDATE_SAVE_FAILED")
    /\ UNCHANGED <<observation, tables, doomed, others>>

Fail ==
    /\ at = "fail"
    /\ request' = IF request.status = "matching"
                    THEN [request EXCEPT !.status = "failed", !.error = code]
                    ELSE request
    /\ Done
    /\ UNCHANGED <<observation, tables, doomed, others, faults>>

\* A statement of the lookup or of the save fails.
StatementFails ==
    /\ at \in {"lookup", "artists", "save"}
    /\ Fault
    /\ ToFail(IF at = "save" THEN "CANDIDATE_SAVE_FAILED" ELSE "CATALOG_QUERY_FAILED")
    /\ UNCHANGED <<observation, tables, doomed, request, others>>

\* The process is killed, or the metrics or the error code cannot be written:
\* RunOnce ends and the request stays as it is.
Crash ==
    /\ at # "done"
    /\ Fault
    /\ Done
    /\ UNCHANGED <<observation, tables, doomed, request, others>>

RunOnce ==
    \/ FindRecordings \/ ReadArtists
    \/ ProviderFails \/ ProviderAnswers
    \/ SaveRecording \/ SaveRelease
    \/ CreateSourceObservation \/ SelectSourceObservation
    \/ PersistFails \/ ProvidersDone
    \/ Save \/ SaveRefused \/ SaveReplyLost \/ Fail
    \/ StatementFails \/ Crash

-------------------------------------------------------------------------------
(* Around it: other workers, imports, the purge and the client's deletion. *)

Other == others < MaxOthers /\ others' = others + 1

\* Another worker, or an import, replaces a recording's row.
OtherSavesRecording ==
    /\ Other
    /\ \E row \in Imported \cup UNION {{CatalogRow(p, r) : r \in Results(p)} : p \in DOMAIN Answers} :
          /\ Cardinality(ToSet(row.artists)) = Len(row.artists)
          /\ recordings' = [recordings EXCEPT ![row.id] = row]
    /\ UNCHANGED <<observation, releases, sources, drawn, doomed, request, worker, faults>>

\* Another worker has saved a result's recording and records where it is from.
OtherRecordsSource ==
    /\ Other
    /\ \E p \in DOMAIN Answers : \E r \in Results(p) :
          /\ recordings[EntityId[<<p, r.id>>]] # None
          /\ sources[SourceKey(p, r)] = None
          /\ NewSource(SourceKey(p, r))
    /\ UNCHANGED <<observation, recordings, releases, doomed, request, worker, faults>>

\* The 7 days a source observation is valid, and 30 days more.
TimePasses ==
    /\ at = "done"
    /\ \E k \in SourceKeys : sources[k] # None /\ ~sources[k].aged
    /\ sources' = [k \in SourceKeys |->
                      IF sources[k] = None THEN None ELSE [sources[k] EXCEPT !.aged = TRUE]]
    /\ UNCHANGED <<observation, recordings, releases, drawn, doomed, request, worker,
                   others, faults>>

Referenced == {c.observation : c \in ToSet(request.candidates)} \ {None}

\* NOT EXISTS over resolution_candidates, as the DELETE's snapshot sees them.
Purgeable ==
    {k \in SourceKeys : /\ sources[k] # None
                        /\ sources[k].aged
                        /\ sources[k].id \notin Referenced}

PurgeSelect ==
    /\ doomed = {}
    /\ Purgeable # {}
    /\ doomed' = {sources[k].id : k \in Purgeable}
    /\ UNCHANGED <<observation, tables, request, worker, others, faults>>

\* Mutant of PurgeCommit: no foreign key holds a row that a candidate names.
PurgeCommitLoose ==
    /\ doomed # {}
    /\ sources' = [k \in SourceKeys |->
                      IF sources[k] # None /\ sources[k].id \in doomed THEN None ELSE sources[k]]
    /\ doomed' = {}
    /\ UNCHANGED <<observation, recordings, releases, drawn, request, worker, others, faults>>

\* The foreign key refuses a row that a candidate has come to name since, and
\* with it the whole purge.
PurgeCommit ==
    /\ doomed # {}
    /\ sources' = IF doomed \cap Referenced # {} THEN sources
                  ELSE [k \in SourceKeys |->
                          IF sources[k] # None /\ sources[k].id \in doomed
                            THEN None ELSE sources[k]]
    /\ doomed' = {}
    /\ UNCHANGED <<observation, recordings, releases, drawn, request, worker, others, faults>>

\* The client's requests go with it, whatever their status.
DeleteClient ==
    /\ request.status # "deleted"
    /\ request' = [status |-> "deleted", error |-> "", candidates |-> <<>>]
    /\ UNCHANGED <<observation, tables, doomed, worker, others, faults>>

Around ==
    \/ OtherSavesRecording \/ OtherRecordsSource \/ TimePasses
    \/ PurgeSelect \/ PurgeCommit \/ DeleteClient

Next == RunOnce \/ Around
Spec == Init /\ [][Next]_vars


-------------------------------------------------------------------------------
(* The queue of Resolution, of which this is one request and one worker.   *)

Phase ==
    CASE at \in {"lookup", "artists"} -> "lookup"
      [] at = "save" -> "saving"
      [] at = "fail" -> "failing"
      [] at = "done" -> "idle"
      [] OTHER -> "providers"

Queue ==
    INSTANCE Resolution
      WITH Client <- {"client"}, Key <- {"key"}, Request <- {1},
           Recording <- RecordingIds, Worker <- {"worker"},
           HasProviders <- Providers # <<>>,
           MaxStamp <- 1,
           status <- <<request.status>>,
           owner <- <<IF request.status = "deleted" THEN None ELSE <<"client", "key">>>>,
           createdAt <- <<0>>,
           lastError <- <<request.error>>,
           candidates <- <<Ids(request.candidates)>>,
           review <- <<None>>,
           aged <- {},
           installation <- [client |-> IF request.status = "deleted" THEN "deleted" ELSE "revoked"],
           pc <- [worker |-> Phase],
           job <- [worker |-> IF at = "done" THEN None ELSE 1],
           found <- [worker |-> Ids(ranked)],
           code <- [worker |-> code]

\* Whatever the search finds and writes, and whatever a purge or another worker
\* does to the rows it uses, to the queue it is one of the steps the queue allows
\* (RunOnce, worker/service.go): what Resolution leaves open covers this code.
FollowsQueue == [][Queue!Next]_(Queue!vars)

-------------------------------------------------------------------------------
(* Properties.                                                             *)

\* What a stored candidate points to is there, for as long as the candidate is:
\* its recording, its release, and a source observation that is about this very
\* recording, also when candidates of other sources were merged into it and when
\* the row was written by an earlier search (candidate_store.go, the purge).
EvidenceIsStored ==
    \A c \in ToSet(request.candidates) :
        /\ recordings[c.recording.id] # None
        /\ c.release # None => c.release.id \in releases
        /\ c.observation # None =>
              \E k \in SourceKeys :
                  /\ sources[k] # None
                  /\ sources[k].id = c.observation
                  /\ k[1] = c.source
                  /\ EntityId[<<k[1], k[2]>>] = c.recording.id

\* A source observation is history: no later search rewrites it, and it goes
\* only when it has expired long since and no candidate names it any more
\* (source_observation_store.go, operations_store.go).
HistoryIsKept ==
    [][\A k \in SourceKeys :
          (sources[k] # None /\ sources'[k] # sources[k]) =>
              \/ sources'[k] = [sources[k] EXCEPT !.aged = TRUE]
              \/ /\ sources'[k] = None
                 /\ sources[k].aged
                 /\ sources[k].id \notin Referenced]_vars

Keyed(list) == {i \in DOMAIN list : MergeKey(list[i].recording) # None}

\* m shows the candidate's own score, or with a second source the bonus on it, and
\* all that was said for and against the candidate.
Shows(m, candidate) ==
    /\ \/ m.score = candidate.score
       \/ Cardinality(m.sources) > 1 /\ m.score = Min({Top, candidate.score + 60})
    /\ candidate.evidence \subseteq m.evidence
    /\ candidate.conflicts \subseteq m.conflicts

\* m is what becomes of the candidates at these positions of the list.
StandsFor(m, list, alike, best) ==
    /\ m.recording = list[Min(alike)].recording
    /\ m.observation = list[Min(alike)].observation
    /\ m.sources = UNION {list[i].sources : i \in alike}
    /\ m.score \in best..Min({Top, best + 60})
    /\ \E i \in alike : Shows(m, list[i])
    /\ m.conflicts \subseteq UNION {list[i].conflicts : i \in alike}
    /\ m.evidence \ {"sources"} \subseteq UNION {list[i].evidence : i \in alike}
    /\ "sources" \in m.evidence <=> Cardinality(m.sources) > 1

MergedFrom(list, merged) ==
    /\ Len(merged) = Cardinality({MergeKey(list[i].recording) : i \in Keyed(list)})
                       + Cardinality(DOMAIN list \ Keyed(list))
    /\ \A i \in DOMAIN list \ Keyed(list) : list[i] \in ToSet(merged)
    /\ \A n \in Keyed(merged) :
          LET alike == {i \in DOMAIN list :
                          MergeKey(list[i].recording) = MergeKey(merged[n].recording)}
          IN  StandsFor(merged[n], list, alike, Max({list[i].score : i \in alike}))

\* Merging in the order of arrival gives what the providers' results call for
\* (cross_source.go): one candidate per key, for the recording that came first;
\* all of its sources; a score between the best one and 0.05 above it, which is
\* that of one of the results with the bonus at most, and comes with all the
\* evidence and all the conflicts of that result (docs/PRODUCT.md: candidates
\* show score, evidence and conflicts); nothing said that no result says; the
\* mark of two sources exactly then.  What has no key stays alone.
MergeAgrees == at # "artists" => MergedFrom(found, MergeCrossSourceCandidates(found))

\* 0.45 is where the weights meet.  The observed title reaches it, by its own 0.40
\* and the 0.05 of the keywords that are the same with it: a recording of that
\* title is accepted however much its artists and its duration conflict, so that a
\* search that finds one in the catalog never turns to the providers
\* (service.go:46-55).  A result that nothing speaks for stays below it: whatever
\* is accepted has evidence to show (docs/PRODUCT.md).
AcceptedForCause ==
    [][/\ at = "artists" /\ NormalizeText(observation.title) # <<>> => at' # "query"
       /\ \A c \in ToSet(found') : c.evidence # {}]_vars

\* The stored answer is in order, names a recording once, and hides nothing that
\* was found: every accepted result is there, itself or merged into another, with
\* at least its own score (CompleteRequest, SaveResolutionCandidates).
AnswerIsRanked ==
    LET stored == request.candidates
    IN  /\ \A i, j \in DOMAIN stored : i < j =>
              /\ stored[i].score >= stored[j].score
              /\ stored[i].score = stored[j].score =>
                    stored[i].recording.id < stored[j].recording.id
        /\ request.status = "matched" =>
              \A c \in ToSet(found) : \E s \in ToSet(stored) :
                  /\ c.sources \subseteq s.sources
                  /\ s.score >= c.score
                  /\ \/ s.recording.id = c.recording.id
                     \/ MergeKey(s.recording) = MergeKey(c.recording)

\* The observation as it is once the client has written a patch back.
Patched(patch) ==
    LET Value(field, old) == IF field \in DOMAIN patch THEN patch[field] ELSE old
    IN  [observation EXCEPT !.title = Value("title", @), !.artists = Value("artists", @),
                            !.album = Value("album", @)]

\* A patch that was written back has nothing left to change when the same
\* recording is found again, but for the ISRC, which no observation carries, and
\* for artists of whom one normalises to nothing (tag_patch.go).
PatchSettles ==
    \A c \in ToSet(found) :
        DOMAIN GenerateTagPatch(Patched(c.patch), c.recording, c.release) \subseteq
            {"isrc"} \cup IF <<>> \in DOMAIN NormalizedNames(c.recording.artists)
                            THEN {"artists"} ELSE {}

\* The ways to align i with j letters: monotone pairings of their positions.
Aligned(i, j) ==
    {p \in SUBSET ((1..i) \X (1..j)) : \A a, b \in p : (a[1] < b[1]) <=> (a[2] < b[2])}

\* As a function, which TLC computes once.
Alignments == [lengths \in (0..3) \X (0..3) |-> Aligned(lengths[1], lengths[2])]

\* Letters of a pair are changed when they differ, all others added or dropped.
Cost(left, right, p) ==
    Len(left) + Len(right) - 2 * Cardinality(p)
      + Cardinality({a \in p : left[a[1]] # right[a[2]]})

Pieces(text) == {SubSeq(text, w[1], w[2]) : w \in (1..Len(text)) \X (1..Len(text))}

\* The runs of whole words of a text.
Words(text) ==
    {SubSeq(text, w[1], w[2]) : w \in {v \in (1..Len(text)) \X (1..Len(text)) :
                                          /\ v[1] = 1 \/ text[v[1] - 1] = " "
                                          /\ v[2] = Len(text) \/ text[v[2] + 1] = " "}}

Titles == {observation.title} \cup UNION {{r.title : r \in Results(p)} : p \in DOMAIN Answers}

\* The table computes the least number of letters to change, add or drop, over
\* all alignments (scoring.go), a text once normalised stays as it is, and a
\* version keyword is one of the words of a text, not a part of one.
TextsAgree ==
    at = "lookup" /\ request.status = "matching" =>
        /\ \A left, right \in {t \in UNION {Pieces(NormalizeText(u)) : u \in Titles} : Len(t) <= 3} :
              EditDistance(left, right) =
                  Min({Cost(left, right, p) : p \in Alignments[<<Len(left), Len(right)>>]})
        /\ \A text \in Titles :
              LET normal == NormalizeText(text)
              IN  /\ NormalizeText(normal) = normal
                  /\ ExtractVersionKeywords(text) =
                        {k \in DOMAIN VersionAliases :
                            {NormalizeText(a) : a \in VersionAliases[k]} \cap Words(normal) # {}}

\* PROVIDER_WIKIDATA.md:7 foresees that a source repeats a record, which earns no
\* score; conflicts, it goes on, stay for the user's review.  A repeated record is
\* then nothing a search may fail on: results that were accepted reach the user
\* when no statement failed and nothing was removed under the search.
RepeatedRecordsAreKept ==
    ( /\ request.status = "failed"
      /\ faults = 0
      /\ \A c \in ToSet(found) : c.observation # None => c.observation \in SourceIds )
    => request.error # "CANDIDATE_SAVE_FAILED"

===============================================================================
