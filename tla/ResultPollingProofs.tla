-------------------------- MODULE ResultPollingProofs --------------------------
(***************************************************************************)
(* Theorems about ResultPolling for every number of pollers on top of every*)
(* resolution queue.                                                       *)
(***************************************************************************)
EXTENDS ResultPolling, ResolutionProofs

Readings == {reading[p] : p \in Poller} \ {None}
Seen     == Readings \cup Responses

\* A row that was read is there, or was removed since.
ReadingsOwned ==
    \A x \in Readings : OwnedBy(x.client, x.request) \/ status[x.request] = "deleted"

\* A final status that was seen is the row's, until it is removed; and any two
\* that were seen agree, also after that.
FinalIsSeen ==
    /\ \A x \in Seen : x.status \in Terminal => status[x.request] \in {x.status, "deleted"}
    /\ \A x, y \in Seen :
          x.request = y.request /\ x.status \in Terminal /\ y.status \in Terminal =>
              x.status = y.status

\* Candidates that were seen are the row's, until it is removed.
CandidatesSeen ==
    \A a \in Responses :
        a.candidates # <<>> =>
            status[a.request] = "deleted" \/ candidates[a.request] = a.candidates

PollInv ==
    /\ PollTypeOK
    /\ ReadingsOwned
    /\ FinalIsSeen
    /\ CandidatesSeen
    /\ FinalResponseComplete
    /\ ResponsesAgree

-------------------------------------------------------------------------------
(* The rows under the pollers.                                             *)

\* A request that exists keeps its owner until it is removed.
LEMMA OwnerStep ==
  ASSUME IInv, [Next]_vars, NEW r \in Request, Exists(r)
  PROVE  \/ status'[r] = "deleted"
         \/ status'[r] \in Live /\ owner'[r] = owner[r]
<1>0. /\ status \in [Request -> Status] /\ status' \in [Request -> Status]
      /\ owner \in [Request -> (Client \X Key) \cup {None}]
      /\ status[r] \in Live
  BY StepType DEF IInv, TypeOK, Exists
<1>1. ASSUME NEW R, RemoveRows(R)
      PROVE  \/ status'[r] = "deleted"
             \/ status'[r] \in Live /\ owner'[r] = owner[r]
  BY <1>0, <1>1 DEF RemoveRows
<1>2. ASSUME NEW c \in Client, NEW k \in Key, NEW q \in Request, NEW stamp \in 1..MaxStamp,
             CreateRequest(c, k, q, stamp)
      PROVE  status'[r] \in Live /\ owner'[r] = owner[r]
  BY <1>0, <1>2 DEF CreateRequest, Live, Terminal
<1>3. ASSUME NEW w \in Worker, RunOnce(w) \/ WorkerFault(w)
      PROVE  status'[r] \in Live /\ owner'[r] = owner[r]
  <2>1. UNCHANGED owner
    BY <1>3 DEF RunOnce, WorkerFault, ClaimSelect, ClaimCommit, ClaimReplyLost, CatalogMatches,
       CatalogMisses, ProvidersAnswer, ProvidersUnavailable, ProviderPersistFails, Save,
       SaveReplyLost, SaveRefused, Fail, ClaimAborts, CatalogFails, MetricsFail, SaveAborts,
       FailAborts, Crash, MarkMatching, WriteOutcome, rowVars
  <2>2. \A q \in Request : status'[q] \in {status[q], "matching", "matched", "no_match", "failed"}
    BY <1>0, <1>3 DEF RunOnce, WorkerFault, ClaimSelect, ClaimCommit, ClaimReplyLost,
       CatalogMatches, CatalogMisses, ProvidersAnswer, ProvidersUnavailable,
       ProviderPersistFails, Save, SaveReplyLost, SaveRefused, Fail, ClaimAborts, CatalogFails,
       MetricsFail, SaveAborts, FailAborts, Crash, MarkMatching, WriteOutcome, rowVars
  <2> QED
    BY <1>0, <2>1, <2>2 DEF Live, Terminal
<1>4. CASE UNCHANGED <<status, owner>>
  BY <1>0, <1>4
<1> QED
  BY <1>1, <1>2, <1>3, <1>4 DEF Next, Web, SaveReview, RevokeClient, DeleteClient, Age, Purge,
     rowVars, vars

\* A poll is a step that leaves the queue alone.
LEMMA QueueStep == [PollNext]_allVars => [Next]_vars
  BY DEF PollNext, Poll, ReadRequest, ReadCandidates, allVars, vars

LEMMA QueueInv == PollSpec => []IInv
<1>1. PollInit => IInv
  BY InitInv DEF PollInit
<1>2. IInv /\ [PollNext]_allVars => IInv'
  BY StepInv, QueueStep
<1> QED
  BY <1>1, <1>2, PTL DEF PollSpec

-------------------------------------------------------------------------------
(* What pollers have seen.                                                 *)

LEMMA PollInitInv == PollInit => PollInv
<1> SUFFICES ASSUME PollInit PROVE PollInv
  OBVIOUS
<1>1. Readings = {} /\ Responses = {}
  BY DEF PollInit, Readings, Responses
<1>2. PollTypeOK
  BY DEF PollInit, PollTypeOK
<1> QED
  BY <1>1, <1>2 DEF PollInv, ReadingsOwned, FinalIsSeen, CandidatesSeen, FinalResponseComplete,
     ResponsesAgree, Seen

\* The queue moves on under what was seen.
LEMMA QueueMoves ==
  ASSUME IInv, PollInv, [Next]_vars, UNCHANGED pollVars
  PROVE  PollInv'
<1>0. /\ Readings' = Readings /\ Responses' = Responses /\ Seen' = Seen
      /\ Readings \subseteq Row /\ Responses \subseteq Response
  BY DEF pollVars, Readings, Responses, Seen, PollInv, PollTypeOK
<1>1. \A x \in Seen : x.request \in Request
  BY <1>0 DEF Seen, Row, Response
<1>2. PollTypeOK'
  BY DEF PollInv, PollTypeOK, pollVars
<1>3. ReadingsOwned'
  <2> SUFFICES ASSUME NEW x \in Readings
               PROVE  OwnedBy(x.client, x.request)' \/ status'[x.request] = "deleted"
    BY <1>0 DEF ReadingsOwned
  <2>1. x.request \in Request
    BY <1>1 DEF Seen
  <2>2. CASE status[x.request] = "deleted"
    BY <2>1, <2>2, FinalStep
  <2>3. CASE Exists(x.request) /\ owner[x.request] \in {x.client} \X Key
    BY <2>1, <2>3, OwnerStep DEF OwnedBy, Exists
  <2> QED
    BY <2>2, <2>3 DEF PollInv, ReadingsOwned, OwnedBy
<1>4. FinalIsSeen'
  BY <1>0, <1>1, FinalStep DEF PollInv, FinalIsSeen
<1>5. CandidatesSeen'
  <2> SUFFICES ASSUME NEW a \in Responses, a.candidates # <<>>
               PROVE  status'[a.request] = "deleted" \/ candidates'[a.request] = a.candidates
    BY <1>0 DEF CandidatesSeen
  <2>1. a.request \in Request
    BY <1>1 DEF Seen
  <2>2. status[a.request] = "deleted" \/ candidates[a.request] = a.candidates
    BY DEF PollInv, CandidatesSeen
  <2>3. candidates[a.request] = a.candidates => status[a.request] \in Terminal
    BY <2>1 DEF IInv, RowInv, OutcomeAgrees, Terminal
  <2> QED
    BY <2>1, <2>2, <2>3, FinalStep
<1>6. FinalResponseComplete' /\ ResponsesAgree'
  BY <1>0, <1>1, FinalStep DEF PollInv, FinalResponseComplete, ResponsesAgree, Seen
<1> QED
  BY <1>2, <1>3, <1>4, <1>5, <1>6 DEF PollInv

\* A poller reads a row as it is.
LEMMA RequestRead ==
  ASSUME IInv, PollInv, NEW p \in Poller, NEW c \in Client, NEW r \in Request, ReadRequest(p, c, r)
  PROVE  PollInv'
<1> DEFINE x == [client |-> c, request |-> r, status |-> status[r]]
<1>0. /\ OwnedBy(c, r) /\ UNCHANGED vars /\ UNCHANGED answer
      /\ reading' = [reading EXCEPT ![p] = x]
  BY DEF ReadRequest
<1>1. x \in Row /\ x.client = c /\ x.request = r /\ x.status = status[r]
  BY <1>0 DEF Row, OwnedBy, Exists
<1>u. UNCHANGED <<status, owner, candidates>>
  BY <1>0 DEF vars, rowVars
<1> HIDE DEF x
<1>2. Readings' \subseteq Readings \cup {x} /\ Responses' = Responses
  BY <1>0 DEF Readings, Responses, PollInv, PollTypeOK
<1>3. Seen' \subseteq Seen \cup {x}
  BY <1>2 DEF Seen
<1>4. PollTypeOK'
  BY <1>0, <1>1 DEF PollInv, PollTypeOK
<1>5. ReadingsOwned'
  BY <1>0, <1>1, <1>2, <1>u DEF PollInv, ReadingsOwned, OwnedBy, Exists
<1>6. ASSUME NEW y \in Seen, y.request = r, y.status \in Terminal
      PROVE  y.status = status[r]
  BY <1>0, <1>6 DEF PollInv, FinalIsSeen, OwnedBy, Exists, Live, Terminal
<1>7. FinalIsSeen'
  BY <1>1, <1>3, <1>6, <1>u DEF PollInv, FinalIsSeen
<1>8. CandidatesSeen' /\ FinalResponseComplete' /\ ResponsesAgree'
  BY <1>2, <1>u DEF PollInv, CandidatesSeen, FinalResponseComplete, ResponsesAgree
<1> QED
  BY <1>4, <1>5, <1>7, <1>8 DEF PollInv

\* A poller adds the candidates it finds to the status it has read.
LEMMA CandidatesRead ==
  ASSUME IInv, PollInv, NEW p \in Poller, ReadCandidates(p)
  PROVE  PollInv'
<1> DEFINE row  == reading[p]
           list == IF OwnedBy(row.client, row.request) THEN candidates[row.request] ELSE <<>>
           a    == [client |-> row.client, request |-> row.request,
                    status |-> row.status, candidates |-> list]
<1>0. /\ row \in Row /\ row \in Readings
      /\ UNCHANGED vars
      /\ answer' = [answer EXCEPT ![p] = a]
      /\ reading' = [reading EXCEPT ![p] = None]
  BY DEF ReadCandidates, PollInv, PollTypeOK, Readings
<1>u. UNCHANGED <<status, owner, candidates>>
  BY <1>0 DEF vars, rowVars
<1>1. row.request \in Request /\ row.client \in Client /\ row.status \in Live
  BY <1>0 DEF Row
<1>c. /\ list \in CandidateList
      /\ list # <<>> => status[row.request] # "deleted" /\ list = candidates[row.request]
  BY <1>1, EmptyList DEF IInv, TypeOK, OwnedBy, Exists, Live, Terminal
<1>d. list = <<>> => \/ status[row.request] = "deleted"
                     \/ candidates[row.request] = <<>> /\ status[row.request] # "deleted"
  BY <1>0, <1>1 DEF PollInv, ReadingsOwned
<1> HIDE DEF list
<1>2. /\ a \in Response /\ a.request = row.request /\ a.status = row.status
      /\ a.candidates = list
  BY <1>1, <1>c DEF Response
<1> HIDE DEF a
<1>3. Readings' \subseteq Readings /\ Responses' \subseteq Responses \cup {a}
  BY <1>0 DEF Readings, Responses, PollInv, PollTypeOK
<1>4. PollTypeOK'
  BY <1>0, <1>2 DEF PollInv, PollTypeOK
<1>5. ReadingsOwned'
  BY <1>3, <1>u DEF PollInv, ReadingsOwned, OwnedBy, Exists
<1>6. row \in Seen /\ Seen' \subseteq Seen \cup {a}
  BY <1>0, <1>3 DEF Seen
<1>7. FinalIsSeen'
  BY <1>2, <1>6, <1>u DEF PollInv, FinalIsSeen
<1>8. CandidatesSeen'
  BY <1>2, <1>3, <1>c, <1>u DEF PollInv, CandidatesSeen
<1>9. FinalResponseComplete'
  <2>1. row.status \in Terminal => status[row.request] \in {row.status, "deleted"}
    BY <1>6 DEF PollInv, FinalIsSeen
  <2>2. status[row.request] = "matched" <=> candidates[row.request] # <<>>
    BY <1>1 DEF IInv, RowInv, OutcomeAgrees
  <2>3. /\ a.status = "matched" /\ a.candidates = <<>> => status[a.request] = "deleted"
        /\ a.status \in {"no_match", "failed"} => a.candidates = <<>>
    BY <1>2, <1>c, <1>d, <2>1, <2>2 DEF Terminal
  <2> QED
    BY <1>3, <1>u, <2>3 DEF PollInv, FinalResponseComplete
<1>10. ResponsesAgree'
  <2>1. ASSUME NEW b \in Responses, b.request = a.request
        PROVE  /\ a.status \in Terminal /\ b.status \in Terminal => a.status = b.status
               /\ a.candidates # <<>> /\ b.candidates # <<>> => a.candidates = b.candidates
    BY <1>2, <1>6, <1>c, <2>1 DEF PollInv, FinalIsSeen, CandidatesSeen, Seen
  <2> QED
    BY <1>3, <2>1 DEF PollInv, ResponsesAgree
<1> QED
  BY <1>4, <1>5, <1>7, <1>8, <1>9, <1>10 DEF PollInv

LEMMA PollInductive == PollSpec => [](IInv /\ PollInv)
<1>1. IInv /\ PollInv /\ [PollNext]_allVars => PollInv'
  <2> SUFFICES ASSUME IInv, PollInv, [PollNext]_allVars PROVE PollInv'
    OBVIOUS
  <2>1. CASE Next /\ UNCHANGED pollVars
    BY <2>1, QueueMoves
  <2>2. ASSUME NEW p \in Poller, Poll(p) PROVE PollInv'
    BY <2>2, RequestRead, CandidatesRead DEF Poll
  <2>3. CASE UNCHANGED allVars
    BY <2>3, QueueMoves DEF allVars
  <2> QED
    BY <2>1, <2>2, <2>3 DEF PollNext
<1> QED
  BY <1>1, PollInitInv, QueueInv, PTL DEF PollSpec

-------------------------------------------------------------------------------

\* A final answer is whole: a poll that says matched names the candidates, and
\* one that says otherwise names none, although it reads twice
\* (resolution/service.go GetResult).
THEOREM FinalResponses == PollSpec => []FinalResponseComplete
<1>1. PollInv => FinalResponseComplete
  BY DEF PollInv
<1> QED
  BY <1>1, PollInductive, PTL

\* Two final answers about one request never contradict each other, whoever got
\* them and whatever was removed in between.
THEOREM ResponsesConsistent == PollSpec => []ResponsesAgree
<1>1. PollInv => ResponsesAgree
  BY DEF PollInv
<1> QED
  BY <1>1, PollInductive, PTL
===============================================================================
