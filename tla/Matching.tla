------------------------------- MODULE Matching -------------------------------
(***************************************************************************)
(* The pure part of matching: normalised texts, the score of a recording   *)
(* against a track observation, the merge of candidates from several       *)
(* sources, their ranking and the tag patch.                               *)
(*                                                                         *)
(* A text is a sequence of one-character strings.  Scores count in 1/1200, *)
(* so that every weight of the code is a whole number; a title similarity  *)
(* is exact for titles of at most 6 characters.  The sentences the code    *)
(* collects as evidence and conflicts are represented by what they are     *)
(* about: a set of aspects.                                                *)
(***************************************************************************)
EXTENDS Integers, SequencesExt

CONSTANTS
    Letter,         \* lower-case letters and digits
    LowerCase,      \* upper-case letter -> its lower-case letter
    VersionAliases, \* version keyword -> the texts that stand for it
    None            \* "no value": nil, NULL or an empty external reference

Text == Seq(STRING)

\* A blank is no letter, and the letters that are kept are in lower case already.
ASSUME TextAssumption ==
    /\ Letter \cup {" "} \subseteq STRING /\ " " \notin Letter
    /\ DOMAIN LowerCase \cap (Letter \cup {" "}) = {}

Top       == 1200   \* a score of 1
Threshold == 540    \* 0.45

-------------------------------------------------------------------------------
(* Normalised texts.                                                       *)

Folded(text) ==
    [i \in DOMAIN text |->
        IF text[i] \in DOMAIN LowerCase THEN LowerCase[text[i]] ELSE text[i]]

\* Letters in lower case; whatever separates two of them becomes one blank.
ReadCharacter(read, character) ==
    IF character \in Letter
      THEN [out |-> (IF read.gap THEN Append(read.out, " ") ELSE read.out) \o <<character>>,
            gap |-> FALSE]
      ELSE [read EXCEPT !.gap = read.out # <<>>]

NormalizeText(text) ==
    LET characters == Folded(text)
        read[n \in 0..Len(text)] ==
            IF n = 0 THEN [out |-> <<>>, gap |-> FALSE]
            ELSE ReadCharacter(read[n - 1], characters[n])
    IN  read[Len(text)].out

\* Mutant of ContainsPhrase: no blanks are asked for around the phrase.
ContainsText(value, phrase) ==
    \E i \in 1..Len(value) : IsPrefix(phrase, SubSeq(value, i, Len(value)))

ContainsPhrase(value, phrase) ==
    \/ value = phrase
    \/ IsPrefix(phrase \o <<" ">>, value)
    \/ IsSuffix(<<" ">> \o phrase, value)
    \/ \E i \in 1..Len(value) :
          IsPrefix(<<" ">> \o phrase \o <<" ">>, SubSeq(value, i, Len(value)))

\* The aliases are words.
ASSUME AliasAssumption ==
    \A keyword \in DOMAIN VersionAliases : \A alias \in VersionAliases[keyword] :
        alias \in Text /\ NormalizeText(alias) # <<>>

ExtractVersionKeywords(title) ==
    {keyword \in DOMAIN VersionAliases :
        \E alias \in VersionAliases[keyword] :
            ContainsPhrase(NormalizeText(title), NormalizeText(alias))}

\* The artists' names are compared as a bag: in any order, each as often.
NormalizedNames(artists) == ToBag([i \in DOMAIN artists |-> NormalizeText(artists[i])])

\* The observation's artists, without those that normalise to nothing.
ObservedNames(observation) ==
    LET names == NormalizedNames(observation.artists)
    IN  Restrict(names, DOMAIN names \ {<<>>})

-------------------------------------------------------------------------------
(* The score of one recording.                                             *)

\* One row of the distance table from the row above it.
EditCell(row, above, j, letter, right) ==
    Min({row[j] + 1, above[j + 1] + 1, above[j] + IF letter = right[j] THEN 0 ELSE 1})

EditRow(above, letter, right) ==
    LET row[j \in 0..Len(right)] ==
            IF j = 0 THEN <<above[1] + 1>>
            ELSE LET before == row[j - 1]
                 IN  Append(before, EditCell(before, above, j, letter, right))
    IN  row[Len(right)]

EditDistance(left, right) ==
    LET rows[i \in 0..Len(left)] ==
            IF i = 0 THEN [j \in 1..Len(right) + 1 |-> j - 1]
            ELSE EditRow(rows[i - 1], left[i], right)
    IN  rows[Len(left)][Len(right) + 1]

\* textSimilarity of two normalised texts, out of 480.
Similarity(left, right) ==
    LET longest == Max({Len(left), Len(right)})
    IN  IF longest = 0 THEN 0
        ELSE (480 * (longest - EditDistance(left, right))) \div longest

High == 360         \* a similarity of 0.75

Aspect(points, verdict) == [points |-> points, verdict |-> verdict]

TitleAspect(observation, recording) ==
    LET observed   == NormalizeText(observation.title)
        similarity == Similarity(observed, NormalizeText(recording.title))
    IN  Aspect(similarity,
               IF similarity >= High THEN "for"
               ELSE IF observed # <<>> /\ recording.title # <<>> THEN "against" ELSE "silent")

ArtistAspect(observation, recording) ==
    LET observed == ObservedNames(observation)
        found    == NormalizedNames(recording.artists)
    IN  IF {} \in {DOMAIN observed, DOMAIN found} THEN Aspect(0, "silent")
        ELSE IF observed = found THEN Aspect(360, "for")
        ELSE IF DOMAIN observed \cap DOMAIN found # {} THEN Aspect(180, "for")
        ELSE Aspect(0, "against")

AlbumAspect(observation, release) ==
    IF release = None THEN Aspect(0, "silent")
    ELSE LET observed   == NormalizeText(observation.album)
             similarity == Similarity(observed, NormalizeText(release.title))
         IN  IF observed = <<>> \/ release.title = <<>> THEN Aspect(0, "silent")
             ELSE IF similarity = 480 THEN Aspect(180, "for")
             ELSE IF similarity >= High THEN Aspect(90, "for")
             ELSE Aspect(0, "against")

DurationAspect(observation, recording) ==
    IF None \in {observation.duration, recording.duration} THEN Aspect(0, "silent")
    ELSE LET away == observation.duration - recording.duration
         IN  IF away \in -2000..2000 THEN Aspect(120, "for")
             ELSE IF away \in -10000..10000 THEN Aspect(60, "for")
             ELSE Aspect(0, "against")

VersionAspect(observation, recording) ==
    LET observed == ExtractVersionKeywords(observation.title)
        found    == ExtractVersionKeywords(recording.title)
    IN  IF observed # found THEN Aspect(0, "against")
        ELSE Aspect(60, IF found = {} THEN "silent" ELSE "for")

\* The aspects' points, added up, and what they say.
Weighed(aspects) ==
    LET Where(verdict) == {a \in DOMAIN aspects : aspects[a].verdict = verdict}
        sum == aspects.title.points + aspects.artists.points + aspects.album.points
                 + aspects.duration.points + aspects.versions.points
    IN  [score     |-> Max({0, Min({Top, sum})}),
         evidence  |-> Where("for"), conflicts |-> Where("against")]

ScoreCandidate(observation, recording, release) ==
    Weighed([title    |-> TitleAspect(observation, recording),
             artists  |-> ArtistAspect(observation, recording),
             album    |-> AlbumAspect(observation, release),
             duration |-> DurationAspect(observation, recording),
             versions |-> VersionAspect(observation, recording)])

-------------------------------------------------------------------------------
(* The tag patch of a candidate.  No caller passes a track.                *)

\* Mutant of PatchArtists: the observed names are compared as they were sent.
PatchArtistsRaw(observation, recording) ==
    recording.artists # <<>> /\ ToBag(observation.artists) # NormalizedNames(recording.artists)

PatchArtists(observation, recording) ==
    /\ recording.artists # <<>>
    /\ ObservedNames(observation) # NormalizedNames(recording.artists)

\* The fields the patch would change, each with the value it suggests.
GenerateTagPatch(observation, recording, release) ==
    LET Differs(observed, found) ==
            found # <<>> /\ NormalizeText(observed) # NormalizeText(found)
        fields ==
            (IF Differs(observation.title, recording.title) THEN {"title"} ELSE {})
            \cup (IF PatchArtists(observation, recording) THEN {"artists"} ELSE {})
            \cup (IF release # None /\ Differs(observation.album, release.title)
                  THEN {"album"} ELSE {})
            \cup (IF recording.isrc # None THEN {"isrc"} ELSE {})
    IN  [field \in fields |->
            CASE field = "album" -> release.title
              [] OTHER -> recording[field]]

-------------------------------------------------------------------------------
(* Candidates of several sources.                                          *)

\* None for a recording that is never merged.
MergeKey(recording) ==
    IF recording.isrc # None THEN <<"isrc", Folded(recording.isrc)>>
    ELSE IF recording.title = <<>> \/ recording.artists = <<>> THEN None
    ELSE <<"metadata", NormalizeText(recording.title),
           NormalizedNames(recording.artists)>>

\* Mutant of Joined: a better candidate does not bring its conflicts along.
JoinedUnopposed(first, candidate) ==
    LET better == candidate.score > first.score
        joined == [first EXCEPT !.score = Max({@, candidate.score}),
                                !.evidence = @ \cup IF better THEN candidate.evidence ELSE {},
                                !.sources = @ \cup candidate.sources]
    IN  IF Cardinality(joined.sources) > 1 /\ "sources" \notin joined.evidence
          THEN [joined EXCEPT !.evidence = @ \cup {"sources"},
                              !.score = Min({Top, @ + 60})]
          ELSE joined

\* The first candidate stays; a better one adds its score, evidence and
\* conflicts; the second source adds 0.05, once.
Joined(first, candidate) ==
    LET better == candidate.score > first.score
        scored == IF ~better THEN first
                  ELSE [first EXCEPT !.score = candidate.score,
                                     !.evidence = @ \cup candidate.evidence,
                                     !.conflicts = @ \cup candidate.conflicts]
        joined == [scored EXCEPT !.sources = @ \cup candidate.sources]
    IN  IF Cardinality(joined.sources) > 1 /\ "sources" \notin joined.evidence
          THEN [joined EXCEPT !.evidence = @ \cup {"sources"},
                              !.score = Min({Top, @ + 60})]
          ELSE joined

\* A candidate that shares its key with a merged one joins it.
Merge(merged, candidate) ==
    LET key  == MergeKey(candidate.recording)
        same == {n \in DOMAIN merged : key # None /\ MergeKey(merged[n].recording) = key}
    IN  IF same = {} THEN Append(merged, candidate)
        ELSE [n \in DOMAIN merged |->
                IF n \in same THEN Joined(merged[n], candidate) ELSE merged[n]]

MergeCrossSourceCandidates(candidates) ==
    LET merged[n \in 0..Len(candidates)] ==
            IF n = 0 THEN <<>> ELSE Merge(merged[n - 1], candidates[n])
    IN  merged[Len(candidates)]

\* Mutant of Ranked: the candidates stay in the order they were found.
RankedAsFound(candidates) == candidates

\* A stable sort: the best score first, the lesser identifier among equals.
Precedes(list, i, j) ==
    \/ list[i].score > list[j].score
    \/ /\ list[i].score = list[j].score
       /\ \/ list[i].recording.id < list[j].recording.id
          \/ list[i].recording.id = list[j].recording.id /\ i < j

Rank(list, i) == 1 + Cardinality({j \in DOMAIN list : Precedes(list, j, i)})

Ranked(candidates) ==
    [n \in DOMAIN candidates |->
        candidates[CHOOSE i \in DOMAIN candidates : Rank(candidates, i) = n]]
===============================================================================
