------------------------------ MODULE Resolution ------------------------------
(***************************************************************************)
(* The durable resolution queue: the tables resolution_requests,           *)
(* resolution_candidates and resolution_reviews, the HTTP handlers that    *)
(* insert a request or a review, the worker processes that claim, match    *)
(* and complete requests, and the operator actions (client revocation and  *)
(* deletion, retention purge) that remove rows under their feet.           *)
(*                                                                         *)
(* Every transaction that locks the row it changes and then commits is one *)
(* action, taken at its commit.  The claim is the exception: its row lock  *)
(* is what SKIP LOCKED looks at, so the select and the commit are two      *)
(* actions.  What the catalog and the providers answer is nondeterministic;*)
(* a candidate list keeps only the recordings, in rank order.              *)
(***************************************************************************)
EXTENDS Naturals, Sequences, FiniteSets

CONSTANTS
    Client,          \* client installations
    Key,             \* idempotency keys
    Request,         \* request identifiers that randomID may draw
    Recording,       \* recordings of the central catalog
    Worker,          \* worker processes
    None,            \* "no value", distinct from every other value
    HasProviders,    \* cmd/worker built a non-empty provider list
    MaxCandidates,   \* bound: length of a candidate list
    MaxStamp,        \* bound: distinct created_at values
    MaxFaults        \* bound: crashes, lost replies and database errors

ASSUME RequestAssumption == Request \subseteq Nat
ASSUME NoneAssumption ==
    /\ None \notin Client \X Key
    /\ None \notin Request
    /\ None \notin Recording
    /\ None \notin Worker
ASSUME BoundAssumption ==
    /\ HasProviders \in BOOLEAN
    /\ MaxCandidates \in Nat
    /\ MaxStamp \in Nat
    /\ MaxFaults \in Nat

VARIABLES
    status,       \* per request: the status column, or that there is no row
    owner,        \* per request: <<client_id, idempotency_key>>
    createdAt,    \* per request: created_at
    lastError,    \* per request: last_error_code, "" for NULL
    candidates,   \* per request: its resolution_candidates rows by rank
    review,       \* per request: its resolution_reviews row, or None
    aged,         \* requests whose finished_at is before the purge's cutoff
    installation, \* per client: its client_installations row
    pc,           \* per worker: where RunOnce is
    job,          \* per worker: the request RunOnce holds, or None
    found,        \* per worker: the candidates about to be saved
    code,         \* per worker: the error code about to be written
    faults        \* number of faults so far

rowVars    == <<status, owner, createdAt, lastError, candidates, review, aged>>
workerVars == <<pc, job, found, code>>
vars       == <<rowVars, installation, workerVars, faults>>

Terminal == {"matched", "no_match", "failed"}
Live     == {"queued", "matching"} \cup Terminal
Status   == Live \cup {"unused", "deleted"}

ErrorCode == {"CATALOG_QUERY_FAILED", "PROVIDER_QUERY_FAILED",
              "PROVIDER_UNAVAILABLE", "CANDIDATE_SAVE_FAILED"}

Phase == {"idle", "claiming", "lookup", "providers", "saving", "failing"}

\* Candidate lists by rank; a list may name a recording twice.
CandidateList == UNION {[1..n -> Recording] : n \in 0..MaxCandidates}

Recordings(list)  == {list[i] : i \in DOMAIN list}
NoDuplicate(list) == \A i, j \in DOMAIN list : list[i] = list[j] => i = j

Review == [decision : {"accepted", "rejected"}, recording : Recording \cup {None}]

TypeOK ==
    /\ status \in [Request -> Status]
    /\ owner \in [Request -> (Client \X Key) \cup {None}]
    /\ createdAt \in [Request -> Nat]
    /\ lastError \in [Request -> ErrorCode \cup {""}]
    /\ candidates \in [Request -> CandidateList]
    /\ review \in [Request -> Review \cup {None}]
    /\ aged \subseteq Request
    /\ installation \in [Client -> {"active", "revoked", "deleted"}]
    /\ pc \in [Worker -> Phase]
    /\ job \in [Worker -> Request \cup {None}]
    /\ found \in [Worker -> CandidateList]
    /\ code \in [Worker -> ErrorCode \cup {""}]
    /\ faults \in Nat

Init ==
    /\ status = [r \in Request |-> "unused"]
    /\ owner = [r \in Request |-> None]
    /\ createdAt = [r \in Request |-> 0]
    /\ lastError = [r \in Request |-> ""]
    /\ candidates = [r \in Request |-> <<>>]
    /\ review = [r \in Request |-> None]
    /\ aged = {}
    /\ installation = [c \in Client |-> "active"]
    /\ pc = [w \in Worker |-> "idle"]
    /\ job = [w \in Worker |-> None]
    /\ found = [w \in Worker |-> <<>>]
    /\ code = [w \in Worker |-> ""]
    /\ faults = 0

-------------------------------------------------------------------------------
(* Requests, reviews and removal: the Web process.                         *)

Exists(r) == status[r] \in Live

\* The row lock taken by SELECT ... FOR UPDATE until the claim's commit.
Locked(r) == \E w \in Worker : pc[w] = "claiming" /\ job[w] = r

\* INSERT ... ON CONFLICT (client_id, idempotency_key) DO NOTHING.  The insert
\* needs the client's row (foreign key), not that the client is still active:
\* that was checked when the HTTP request was authenticated.  A conflicting
\* insert changes nothing.
CreateRequest(c, k, r, stamp) ==
    /\ installation[c] # "deleted"
    /\ status[r] = "unused"
    /\ \A q \in Request : Exists(q) => owner[q] # <<c, k>>
    /\ status' = [status EXCEPT ![r] = "queued"]
    /\ owner' = [owner EXCEPT ![r] = <<c, k>>]
    /\ createdAt' = [createdAt EXCEPT ![r] = stamp]
    /\ UNCHANGED <<lastError, candidates, review, aged, installation,
                   workerVars, faults>>

\* An accepting review has to name what it accepts; a rejecting one may.
ReviewInvalid(decision, recording) == decision = "accepted" /\ recording = None

\* The status of the request is not looked at; a recording that is named must
\* be one of its candidates.
SaveReview(r, decision, recording) ==
    /\ Exists(r)
    /\ ~ReviewInvalid(decision, recording)
    /\ recording # None => recording \in Recordings(candidates[r])
    /\ review' = [review EXCEPT ![r] = [decision |-> decision, recording |-> recording]]
    /\ UNCHANGED <<status, owner, createdAt, lastError, candidates, aged,
                   installation, workerVars, faults>>

\* The rows of the requests in R go, with their candidates and reviews.
RemoveRows(R) ==
    /\ status' = [r \in Request |-> IF r \in R THEN "deleted" ELSE status[r]]
    /\ owner' = [r \in Request |-> IF r \in R THEN None ELSE owner[r]]
    /\ createdAt' = [r \in Request |-> IF r \in R THEN 0 ELSE createdAt[r]]
    /\ lastError' = [r \in Request |-> IF r \in R THEN "" ELSE lastError[r]]
    /\ candidates' = [r \in Request |-> IF r \in R THEN <<>> ELSE candidates[r]]
    /\ review' = [r \in Request |-> IF r \in R THEN None ELSE review[r]]
    /\ aged' = aged \ R
    /\ UNCHANGED <<workerVars, faults>>

RevokeClient(c) ==
    /\ installation[c] = "active"
    /\ installation' = [installation EXCEPT ![c] = "revoked"]
    /\ UNCHANGED <<rowVars, workerVars, faults>>

RequestsOf(c) == {r \in Request : Exists(r) /\ owner[r] \in {c} \X Key}

\* Mutant of DeleteClient: the claim holds no lock that a deletion waits for.
DeleteClientUnlocked(c) ==
    /\ installation[c] = "revoked"
    /\ RemoveRows(RequestsOf(c))
    /\ installation' = [installation EXCEPT ![c] = "deleted"]

\* Deleting a locked row waits for the claim that holds the lock.
DeleteClient(c) ==
    /\ installation[c] = "revoked"
    /\ \A r \in RequestsOf(c) : ~Locked(r)
    /\ RemoveRows(RequestsOf(c))
    /\ installation' = [installation EXCEPT ![c] = "deleted"]

\* Mutant of Age: retention looks at created_at instead of finished_at.
AgeSinceCreation(r) ==
    /\ Exists(r)
    /\ r \notin aged
    /\ aged' = aged \cup {r}
    /\ UNCHANGED <<status, owner, createdAt, lastError, candidates, review,
                   installation, workerVars, faults>>

\* 180 days pass since a request finished.
Age(r) ==
    /\ status[r] \in Terminal
    /\ r \notin aged
    /\ aged' = aged \cup {r}
    /\ UNCHANGED <<status, owner, createdAt, lastError, candidates, review,
                   installation, workerVars, faults>>

\* Only a row with a finished_at can be purged.
Purge ==
    /\ aged # {}
    /\ RemoveRows(aged)
    /\ UNCHANGED installation

-------------------------------------------------------------------------------
(* RunOnce of a worker.                                                    *)

\* Mutant of Claimable: without FOR UPDATE SKIP LOCKED.
ClaimableLocked == {r \in Request : status[r] = "queued"}

Claimable == {r \in Request : status[r] = "queued" /\ ~Locked(r)}

\* ORDER BY created_at, id
Before(r, q) ==
    \/ createdAt[r] < createdAt[q]
    \/ createdAt[r] = createdAt[q] /\ r <= q

Fault == faults < MaxFaults /\ faults' = faults + 1

\* RunOnce has returned, or the process has restarted.
Idle(w) ==
    /\ pc' = [pc EXCEPT ![w] = "idle"]
    /\ job' = [job EXCEPT ![w] = None]
    /\ found' = [found EXCEPT ![w] = <<>>]
    /\ code' = [code EXCEPT ![w] = ""]

\* RunOnce goes on to save the list, or to write the error code.
ToSave(w, list) ==
    /\ pc' = [pc EXCEPT ![w] = "saving"]
    /\ found' = [found EXCEPT ![w] = list]
    /\ UNCHANGED <<job, code>>

ToFail(w, error) ==
    /\ pc' = [pc EXCEPT ![w] = "failing"]
    /\ code' = [code EXCEPT ![w] = error]
    /\ found' = [found EXCEPT ![w] = <<>>]
    /\ UNCHANGED job

ClaimSelect(w) ==
    /\ pc[w] = "idle"
    /\ \E r \in Claimable :
          /\ \A q \in Claimable : Before(r, q)
          /\ job' = [job EXCEPT ![w] = r]
    /\ pc' = [pc EXCEPT ![w] = "claiming"]
    /\ UNCHANGED <<rowVars, installation, found, code, faults>>

\* The update names the row by its id alone: the lock keeps it queued.
MarkMatching(r) ==
    /\ status' = [status EXCEPT ![r] = "matching"]
    /\ UNCHANGED <<owner, createdAt, lastError, candidates, review, aged>>

ClaimCommit(w) ==
    /\ pc[w] = "claiming"
    /\ MarkMatching(job[w])
    /\ pc' = [pc EXCEPT ![w] = "lookup"]
    /\ UNCHANGED <<installation, job, found, code, faults>>

\* The transaction rolls back: a database error, or the process died.
ClaimAborts(w) ==
    /\ pc[w] = "claiming"
    /\ Fault
    /\ Idle(w)
    /\ UNCHANGED <<rowVars, installation>>

\* The commit took effect, but its answer never reached the worker.
ClaimReplyLost(w) ==
    /\ pc[w] = "claiming"
    /\ Fault
    /\ MarkMatching(job[w])
    /\ Idle(w)
    /\ UNCHANGED installation

\* Local recordings that score high enough; FindRecordings returns each once.
CatalogMatches(w) ==
    /\ pc[w] = "lookup"
    /\ \E list \in CandidateList :
          /\ list # <<>>
          /\ NoDuplicate(list)
          /\ ToSave(w, list)
    /\ UNCHANGED <<rowVars, installation, faults>>

CatalogMisses(w) ==
    /\ pc[w] = "lookup"
    /\ IF HasProviders
         THEN /\ pc' = [pc EXCEPT ![w] = "providers"]
              /\ UNCHANGED <<job, found, code>>
         ELSE ToSave(w, <<>>)
    /\ UNCHANGED <<rowVars, installation, faults>>

CatalogFails(w) ==
    /\ pc[w] = "lookup"
    /\ Fault
    /\ ToFail(w, "CATALOG_QUERY_FAILED")
    /\ UNCHANGED <<rowVars, installation>>

\* At least one provider answered and its results were persisted.  Two results
\* of one provider for one entity give the same recording twice.
ProvidersAnswer(w) ==
    /\ pc[w] = "providers"
    /\ \E list \in CandidateList : ToSave(w, list)
    /\ UNCHANGED <<rowVars, installation, faults>>

\* Mutant of ProvidersUnavailable: RunOnce returns without failing the request.
ProvidersUnavailableIgnored(w) ==
    /\ pc[w] = "providers"
    /\ Idle(w)
    /\ UNCHANGED <<rowVars, installation, faults>>

\* Every provider failed or was skipped.
ProvidersUnavailable(w) ==
    /\ pc[w] = "providers"
    /\ ToFail(w, "PROVIDER_UNAVAILABLE")
    /\ UNCHANGED <<rowVars, installation, faults>>

\* Mutant of ProviderPersistFails: the worker starts over with the same request.
ProviderPersistRetried(w) ==
    /\ pc[w] = "providers"
    /\ pc' = [pc EXCEPT ![w] = "lookup"]
    /\ UNCHANGED <<rowVars, installation, job, found, code, faults>>

\* A provider result could not be persisted; no database fault is needed for
\* that, a result that names one artist twice is refused by its primary key.
ProviderPersistFails(w) ==
    /\ pc[w] = "providers"
    /\ ToFail(w, "PROVIDER_QUERY_FAILED")
    /\ UNCHANGED <<rowVars, installation, faults>>

\* The metrics row could not be written: RunOnce returns and fails nothing.
MetricsFail(w) ==
    /\ pc[w] = "providers"
    /\ Fault
    /\ Idle(w)
    /\ UNCHANGED <<rowVars, installation>>

\* The update is guarded by the row's existence, not by its status.
WriteOutcome(r, list) ==
    /\ status' = [status EXCEPT ![r] = IF list = <<>> THEN "no_match" ELSE "matched"]
    /\ lastError' = [lastError EXCEPT ![r] = ""]
    /\ candidates' = [candidates EXCEPT ![r] = list]
    /\ UNCHANGED <<owner, createdAt, review, aged>>

\* Mutant of Savable: UNIQUE (request_id, recording_id) is missing.
SavableTwice(w) == Exists(job[w])

Savable(w) == Exists(job[w]) /\ NoDuplicate(found[w])

\* Mutant of Save: the status is committed before the candidates.
SaveStatusFirst(w) ==
    /\ pc[w] = "saving"
    /\ Savable(w)
    /\ IF status[job[w]] = "matching" /\ found[w] # <<>>
         THEN /\ status' = [status EXCEPT ![job[w]] = "matched"]
              /\ UNCHANGED <<owner, createdAt, lastError, candidates, review, aged, workerVars>>
         ELSE WriteOutcome(job[w], found[w]) /\ Idle(w)
    /\ UNCHANGED <<installation, faults>>

Save(w) ==
    /\ pc[w] = "saving"
    /\ Savable(w)
    /\ WriteOutcome(job[w], found[w])
    /\ Idle(w)
    /\ UNCHANGED <<installation, faults>>

\* Mutant of SaveRefused: RunOnce returns the error without failing the request.
SaveRefusedIgnored(w) ==
    /\ pc[w] = "saving"
    /\ ~Savable(w)
    /\ Idle(w)
    /\ UNCHANGED <<rowVars, installation, faults>>

\* No row to update; or UNIQUE (request_id, recording_id) refuses the second
\* candidate for a recording, or the foreign key of source_observation_id a
\* candidate whose source observation was purged, and the whole transaction.
SaveRefused(w) ==
    /\ pc[w] = "saving"
    /\ ~Savable(w) \/ found[w] # <<>>
    /\ ToFail(w, "CANDIDATE_SAVE_FAILED")
    /\ UNCHANGED <<rowVars, installation, faults>>

SaveAborts(w) ==
    /\ pc[w] = "saving"
    /\ Fault
    /\ ToFail(w, "CANDIDATE_SAVE_FAILED")
    /\ UNCHANGED <<rowVars, installation>>

\* Committed, but reported to the worker as an error.
SaveReplyLost(w) ==
    /\ pc[w] = "saving"
    /\ Savable(w)
    /\ Fault
    /\ WriteOutcome(job[w], found[w])
    /\ ToFail(w, "CANDIDATE_SAVE_FAILED")
    /\ UNCHANGED installation

\* Mutant of Fail: the update is not guarded by status = 'matching'.
FailAlways(w) ==
    /\ pc[w] = "failing"
    /\ IF Exists(job[w])
         THEN /\ status' = [status EXCEPT ![job[w]] = "failed"]
              /\ lastError' = [lastError EXCEPT ![job[w]] = code[w]]
         ELSE UNCHANGED <<status, lastError>>
    /\ Idle(w)
    /\ UNCHANGED <<owner, createdAt, candidates, review, aged, installation, faults>>

\* FailResolution: only a row that is still matching is failed.
Fail(w) ==
    /\ pc[w] = "failing"
    /\ IF status[job[w]] = "matching"
         THEN /\ status' = [status EXCEPT ![job[w]] = "failed"]
              /\ lastError' = [lastError EXCEPT ![job[w]] = code[w]]
         ELSE UNCHANGED <<status, lastError>>
    /\ Idle(w)
    /\ UNCHANGED <<owner, createdAt, candidates, review, aged, installation, faults>>

\* RunOnce discards the error of FailResolution.
FailAborts(w) ==
    /\ pc[w] = "failing"
    /\ Fault
    /\ Idle(w)
    /\ UNCHANGED <<rowVars, installation>>

\* The process is killed, or a signal cancels the context that all the
\* remaining statements of RunOnce run under; the container is restarted.
Crash(w) ==
    /\ pc[w] \in {"lookup", "providers", "saving", "failing"}
    /\ Fault
    /\ Idle(w)
    /\ UNCHANGED <<rowVars, installation>>

-------------------------------------------------------------------------------

RunOnce(w) ==
    \/ ClaimSelect(w) \/ ClaimCommit(w)
    \/ CatalogMatches(w) \/ CatalogMisses(w)
    \/ ProvidersAnswer(w) \/ ProvidersUnavailable(w) \/ ProviderPersistFails(w)
    \/ Save(w) \/ SaveRefused(w) \/ Fail(w)

WorkerFault(w) ==
    \/ ClaimAborts(w) \/ ClaimReplyLost(w)
    \/ CatalogFails(w) \/ MetricsFail(w)
    \/ SaveAborts(w) \/ SaveReplyLost(w) \/ FailAborts(w)
    \/ Crash(w)

Web ==
    \/ \E c \in Client, k \in Key, r \in Request, stamp \in 1..MaxStamp :
          CreateRequest(c, k, r, stamp)
    \/ \E r \in Request, d \in {"accepted", "rejected"}, rec \in Recording \cup {None} :
          SaveReview(r, d, rec)
    \/ \E c \in Client : RevokeClient(c) \/ DeleteClient(c)
    \/ \E r \in Request : Age(r)
    \/ Purge

Next == Web \/ \E w \in Worker : RunOnce(w) \/ WorkerFault(w)

Spec == Init /\ [][Next]_vars

\* A worker process calls RunOnce in an endless loop and every call it makes
\* returns, so a step RunOnce can take is eventually taken.
LiveSpec == Spec /\ \A w \in Worker : WF_vars(RunOnce(w))

-------------------------------------------------------------------------------
(* Safety.                                                                 *)

\* Two workers never work on one request, from the row lock of the claim
\* (worker_store.go ClaimResolution, FOR UPDATE SKIP LOCKED) to the end of
\* RunOnce, whatever crashes, lost replies and deletions happen in between.
OneWorkerPerRequest ==
    \A v, w \in Worker : job[v] # None /\ job[v] = job[w] => v = w

\* What a worker has in hand agrees with the row although it is never re-read:
\* until its outcome is written the row is still matching, or its client was
\* deleted; only a save whose commit was reported as an error can leave the
\* worker about to fail a request that is already answered.
HeldStatus(w) ==
    CASE pc[w] = "idle" -> job[w] = None
      [] pc[w] = "claiming" -> job[w] # None /\ status[job[w]] = "queued"
      [] pc[w] \in {"lookup", "providers", "saving"} ->
            job[w] # None /\ status[job[w]] \in {"matching", "deleted"}
      [] OTHER ->
            /\ job[w] # None
            /\ status[job[w]] \in {"matching", "matched", "no_match", "deleted"}

HeldRequestIsOpen == \A w \in Worker : HeldStatus(w)

\* A row's columns and its candidate rows tell one story: there are candidates
\* exactly when it is matched, an error code exactly when it failed, although
\* SaveResolutionCandidates and FailResolution write them under different
\* guards and either may follow the other after a lost reply.
OutcomeAgrees ==
    \A r \in Request :
        /\ status[r] = "matched" <=> candidates[r] # <<>>
        /\ status[r] = "failed" <=> lastError[r] # ""
        /\ NoDuplicate(candidates[r])

\* A stored review that accepts, or names, a recording names one that is among
\* the request's stored candidates now, not only when it was reported
\* (review_store.go SaveResolutionReview checks it once, with no lock).
ReviewNamesCandidate ==
    \A r \in Request : review[r] # None =>
        /\ review[r].decision = "accepted" => review[r].recording # None
        /\ review[r].recording # None => review[r].recording \in Recordings(candidates[r])

\* One request per client and idempotency key, purge and deletion included.
OneRequestPerKey ==
    \A q, r \in Request : Exists(q) /\ Exists(r) /\ owner[q] = owner[r] => q = r

\* Each fault strands at most one request in matching: a request that is
\* matching and in no worker's hands was abandoned by a crash, a lost claim
\* reply, a metrics write that failed or a FailResolution that failed, and by
\* nothing else that RunOnce does.
Stranded == {r \in Request : status[r] = "matching" /\ \A w \in Worker : job[w] # r}

StrandedByFaultsOnly == Cardinality(Stranded) <= faults

\* The answer of a finished request is final: no late worker, retry or repeated
\* completion changes its status, its error or its candidates; the row can only
\* be removed, and a removed request never comes back.
AnswersAreFinal ==
    [][\A r \in Request :
          /\ status[r] \in Terminal =>
                \/ status'[r] = "deleted"
                \/ UNCHANGED <<status[r], lastError[r], candidates[r]>>
          /\ status[r] = "deleted" => status'[r] = "deleted"]_vars

\* Retention never removes a request that has no answer yet, even one that was
\* stranded long before the cutoff; only deleting its client does.
OpenRequestsAreKept ==
    [][\A r \in Request :
          status[r] \in {"queued", "matching"} /\ status'[r] = "deleted" =>
              installation' # installation]_vars

-------------------------------------------------------------------------------
(* The inductive invariant behind the safety properties.                   *)

\* Without a row there is nothing else about a request, and only an answered
\* request has a finished_at that retention can look at.
RowsAreWhole ==
    /\ \A r \in Request : ~Exists(r) => owner[r] = None /\ review[r] = None
    /\ \A r \in aged : status[r] \in Terminal

FailingHasCode == \A w \in Worker : pc[w] = "failing" => code[w] # ""

RowInv ==
    /\ OutcomeAgrees
    /\ ReviewNamesCandidate
    /\ OneRequestPerKey
    /\ RowsAreWhole

WorkerInv ==
    /\ OneWorkerPerRequest
    /\ HeldRequestIsOpen
    /\ FailingHasCode

\* Tables and workers together, as every statement of the Web process and every
\* step of RunOnce (worker/service.go) finds them and leaves them: the parts
\* hold one another up, e.g. a row is answered once because its one holder
\* still finds it matching, which the claim's lock and the deletions respect.
IInv == TypeOK /\ RowInv /\ WorkerInv

-------------------------------------------------------------------------------
(* Liveness, under LiveSpec.                                               *)

\* Every accepted request is eventually answered, or removed.
EveryRequestFinishes ==
    \A r \in Request : status[r] = "queued" ~> status[r] \in Terminal \cup {"deleted"}

\* What the faults cannot break: a request is eventually answered, removed, or
\* left in matching with no worker that will come back to it.
FinishedOrStranded ==
    \A r \in Request :
        status[r] = "queued" ~> status[r] \in Terminal \cup {"deleted"} \/ r \in Stranded
===============================================================================
