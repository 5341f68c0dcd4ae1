--------------------------- MODULE ResolutionProofs ---------------------------
(***************************************************************************)
(* Theorems about Resolution for every set of clients, keys, requests,     *)
(* recordings and workers and every bound.                                 *)
(***************************************************************************)
EXTENDS ResolutionRefinement, FiniteSetTheorems, TLAPS

-------------------------------------------------------------------------------
(* Candidate lists.                                                        *)

LEMMA EmptyList ==
    /\ <<>> \in CandidateList
    /\ Recordings(<<>>) = {}
    /\ NoDuplicate(<<>>)
<1>1. <<>> \in [1..0 -> Recording]
  OBVIOUS
<1>2. 0 \in 0..MaxCandidates
  BY BoundAssumption
<1>3. DOMAIN <<>> = {}
  OBVIOUS
<1> QED
  BY <1>1, <1>2, <1>3 DEF CandidateList, Recordings, NoDuplicate

-------------------------------------------------------------------------------
(* Type correctness.                                                       *)

LEMMA InitType == Init => TypeOK
<1> SUFFICES ASSUME Init PROVE TypeOK
  OBVIOUS
<1>1. /\ status \in [Request -> Status]
      /\ owner \in [Request -> (Client \X Key) \cup {None}]
      /\ createdAt \in [Request -> Nat]
      /\ lastError \in [Request -> ErrorCode \cup {""}]
  BY DEF Init, Status
<1>2. /\ candidates \in [Request -> CandidateList]
      /\ review \in [Request -> Review \cup {None}]
      /\ aged \subseteq Request
      /\ installation \in [Client -> {"active", "revoked", "deleted"}]
  BY EmptyList DEF Init
<1>3. /\ pc \in [Worker -> Phase]
      /\ job \in [Worker -> Request \cup {None}]
      /\ found \in [Worker -> CandidateList]
      /\ code \in [Worker -> ErrorCode \cup {""}]
      /\ faults \in Nat
  BY EmptyList DEF Init, Phase
<1> QED
  BY <1>1, <1>2, <1>3 DEF TypeOK

LEMMA FaultType == TypeOK /\ Fault => faults' \in Nat
<1>1. TypeOK => faults \in Nat
  BY DEF TypeOK
<1>2. faults \in Nat /\ Fault => faults' \in Nat
  BY DEF Fault
<1> QED
  BY <1>1, <1>2

LEMMA RemoveRowsType ==
  ASSUME TypeOK, NEW R \in SUBSET Request, RemoveRows(R),
         installation' \in [Client -> {"active", "revoked", "deleted"}]
  PROVE  TypeOK'
  BY EmptyList DEF RemoveRows, TypeOK, Status, Live, Terminal, workerVars

LEMMA WebType == TypeOK /\ Web => TypeOK'
<1> SUFFICES ASSUME TypeOK, Web PROVE TypeOK'
  OBVIOUS
<1>1. ASSUME NEW c \in Client, NEW k \in Key, NEW r \in Request,
             NEW stamp \in 1..MaxStamp, CreateRequest(c, k, r, stamp)
      PROVE  TypeOK'
  <2>1. stamp \in Nat
    BY BoundAssumption
  <2> QED
    BY <1>1, <2>1 DEF CreateRequest, TypeOK, Status, Live, workerVars
<1>2. ASSUME NEW r \in Request, NEW d \in {"accepted", "rejected"},
             NEW rec \in Recording \cup {None}, SaveReview(r, d, rec)
      PROVE  TypeOK'
  BY <1>2 DEF SaveReview, TypeOK, Review, workerVars
<1>3. ASSUME NEW c \in Client, RevokeClient(c)
      PROVE  TypeOK'
  BY <1>3 DEF RevokeClient, TypeOK, rowVars, workerVars
<1>4. ASSUME NEW c \in Client, DeleteClient(c)
      PROVE  TypeOK'
  <2>1. RequestsOf(c) \in SUBSET Request
    BY DEF RequestsOf
  <2>2. installation' \in [Client -> {"active", "revoked", "deleted"}]
    BY <1>4 DEF DeleteClient, TypeOK
  <2> QED
    BY <1>4, <2>1, <2>2, RemoveRowsType DEF DeleteClient
<1>5. ASSUME NEW r \in Request, Age(r)
      PROVE  TypeOK'
  BY <1>5 DEF Age, TypeOK, workerVars
<1>6. ASSUME Purge
      PROVE  TypeOK'
  <2>1. aged \in SUBSET Request /\ installation' \in [Client -> {"active", "revoked", "deleted"}]
    BY <1>6 DEF Purge, TypeOK
  <2> QED
    BY <1>6, <2>1, RemoveRowsType DEF Purge
<1> QED
  BY <1>1, <1>2, <1>3, <1>4, <1>5, <1>6 DEF Web

LEMMA WorkerType ==
  ASSUME TypeOK, NEW w \in Worker, RunOnce(w) \/ WorkerFault(w)
  PROVE  TypeOK'
<1> USE EmptyList DEF TypeOK, Phase, ErrorCode
<1>1. CASE ClaimSelect(w)
  BY <1>1 DEF ClaimSelect, Claimable, rowVars
<1>2. CASE ClaimCommit(w)
  BY <1>2 DEF ClaimCommit, MarkMatching, Status, Live
<1>3. CASE CatalogMatches(w)
  BY <1>3 DEF CatalogMatches, ToSave, rowVars
<1>4. CASE CatalogMisses(w)
  BY <1>4 DEF CatalogMisses, ToSave, rowVars
<1>5. CASE ProvidersAnswer(w)
  BY <1>5 DEF ProvidersAnswer, ToSave, rowVars
<1>6. CASE ProvidersUnavailable(w) \/ ProviderPersistFails(w)
  BY <1>6 DEF ProvidersUnavailable, ProviderPersistFails, ToFail, rowVars
<1>7. CASE Save(w)
  BY <1>7 DEF Save, WriteOutcome, Idle, Status, Live, Terminal
<1>8. CASE SaveRefused(w)
  BY <1>8 DEF SaveRefused, ToFail, rowVars
<1>9. CASE Fail(w)
  BY <1>9 DEF Fail, Idle, Status, Live, Terminal
<1>10. CASE ClaimAborts(w) \/ MetricsFail(w) \/ FailAborts(w) \/ Crash(w)
  BY <1>10, FaultType DEF ClaimAborts, MetricsFail, FailAborts, Crash, Idle, rowVars
<1>11. CASE ClaimReplyLost(w)
  BY <1>11, FaultType DEF ClaimReplyLost, MarkMatching, Idle, Status, Live
<1>12. CASE CatalogFails(w) \/ SaveAborts(w)
  BY <1>12, FaultType DEF CatalogFails, SaveAborts, ToFail, rowVars
<1>13. CASE SaveReplyLost(w)
  BY <1>13, FaultType DEF SaveReplyLost, WriteOutcome, ToFail, Status, Live, Terminal
<1> QED
  BY <1>1, <1>2, <1>3, <1>4, <1>5, <1>6, <1>7, <1>8, <1>9, <1>10, <1>11, <1>12, <1>13
     DEF RunOnce, WorkerFault

LEMMA StepType == TypeOK /\ [Next]_vars => TypeOK'
<1>1. TypeOK /\ UNCHANGED vars => TypeOK'
  BY DEF TypeOK, vars, rowVars, workerVars
<1> QED
  BY <1>1, WebType, WorkerType DEF Next

\* Every reachable state has the types the columns and Go variables have.
THEOREM TypeCorrect == Spec => []TypeOK
  BY InitType, StepType, PTL DEF Spec

-------------------------------------------------------------------------------
(* The inductive invariant: what each change of the tables keeps.          *)

LEMMA InitInv == Init => IInv
<1> SUFFICES ASSUME Init PROVE RowInv /\ WorkerInv
  BY InitType DEF IInv
<1>1. RowInv
  BY EmptyList DEF Init, RowInv, OutcomeAgrees, ReviewNamesCandidate,
     OneRequestPerKey, RowsAreWhole, Exists, Live, Terminal
<1>2. WorkerInv
  BY DEF Init, WorkerInv, OneWorkerPerRequest, HeldRequestIsOpen, HeldStatus,
     FailingHasCode
<1> QED
  BY <1>1, <1>2

\* Nothing about the rows depends on where the workers are.
LEMMA RowFrame == RowInv /\ UNCHANGED rowVars => RowInv'
<1> SUFFICES ASSUME RowInv, UNCHANGED rowVars PROVE RowInv'
  OBVIOUS
<1> USE DEF rowVars, RowInv
<1>1. OutcomeAgrees'
  BY DEF OutcomeAgrees, NoDuplicate
<1>2. ReviewNamesCandidate'
  BY DEF ReviewNamesCandidate, Recordings
<1>3. OneRequestPerKey'
  BY DEF OneRequestPerKey, Exists
<1>4. RowsAreWhole'
  BY DEF RowsAreWhole, Exists
<1> QED
  BY <1>1, <1>2, <1>3, <1>4

\* A change of the status that creates no row keeps the keys unique.
LEMMA KeysFrame ==
  ASSUME OneRequestPerKey, UNCHANGED owner,
         \A q \in Request : Exists(q)' => Exists(q)
  PROVE  OneRequestPerKey'
  BY DEF OneRequestPerKey

\* A row that has no answer yet has no candidates, and so no named recording.
LEMMA OpenRow ==
  ASSUME IInv, NEW r \in Request, status[r] \notin {"matched", "failed"}
  PROVE  /\ candidates[r] = <<>>
         /\ lastError[r] = ""
         /\ review[r] # None => review[r].recording = None /\ review[r].decision # "accepted"
  BY EmptyList DEF IInv, RowInv, OutcomeAgrees, ReviewNamesCandidate

LEMMA CreateRow ==
  ASSUME IInv, NEW c \in Client, NEW k \in Key, NEW r \in Request,
         NEW stamp, CreateRequest(c, k, r, stamp)
  PROVE  RowInv'
<1> USE DEF IInv, RowInv, CreateRequest, TypeOK
<1>1. OutcomeAgrees'
  BY DEF OutcomeAgrees, NoDuplicate
<1>2. ReviewNamesCandidate'
  BY DEF ReviewNamesCandidate, Recordings
<1>3. OneRequestPerKey'
  BY DEF OneRequestPerKey, Exists, Live
<1>4. RowsAreWhole'
  BY DEF RowsAreWhole, Exists, Live, Terminal
<1> QED
  BY <1>1, <1>2, <1>3, <1>4

LEMMA ReviewRow ==
  ASSUME IInv, NEW r \in Request, NEW d, NEW rec, SaveReview(r, d, rec)
  PROVE  RowInv'
<1> USE DEF IInv, RowInv, SaveReview, TypeOK
<1>1. OutcomeAgrees'
  BY DEF OutcomeAgrees, NoDuplicate
<1>2. ReviewNamesCandidate'
  BY DEF ReviewNamesCandidate, ReviewInvalid, Recordings
<1>3. OneRequestPerKey'
  BY DEF OneRequestPerKey, Exists
<1>4. RowsAreWhole'
  BY DEF RowsAreWhole, Exists
<1> QED
  BY <1>1, <1>2, <1>3, <1>4

LEMMA AgeRow ==
  ASSUME IInv, NEW r \in Request, Age(r)
  PROVE  RowInv'
<1> USE DEF IInv, RowInv, Age
<1>1. OutcomeAgrees' /\ ReviewNamesCandidate' /\ OneRequestPerKey'
  BY DEF OutcomeAgrees, NoDuplicate, ReviewNamesCandidate, Recordings,
     OneRequestPerKey, Exists
<1>2. RowsAreWhole'
  BY DEF RowsAreWhole, Exists
<1> QED
  BY <1>1, <1>2

LEMMA RemoveRow ==
  ASSUME IInv, NEW R \in SUBSET Request, RemoveRows(R)
  PROVE  RowInv'
<1> USE DEF IInv, RowInv, RemoveRows, TypeOK
<1>1. OutcomeAgrees'
  <2>1. ASSUME NEW q \in Request, q \in R
        PROVE  status'[q] = "deleted" /\ lastError'[q] = "" /\ candidates'[q] = <<>>
    BY <2>1
  <2>2. ASSUME NEW q \in Request, q \notin R
        PROVE  UNCHANGED <<status[q], lastError[q], candidates[q]>>
    BY <2>2
  <2>3. OutcomeAgrees
    OBVIOUS
  <2>4. NoDuplicate(<<>>)
    BY EmptyList DEF NoDuplicate
  <2> HIDE DEF IInv, RowInv, RemoveRows, TypeOK
  <2>5. ASSUME NEW q \in Request
        PROVE  /\ status'[q] = "matched" <=> candidates'[q] # <<>>
               /\ status'[q] = "failed" <=> lastError'[q] # ""
               /\ NoDuplicate(candidates'[q])
    <3>1. CASE q \in R
      BY <2>1, <2>4, <3>1
    <3>2. CASE q \notin R
      BY <2>2, <2>3, <3>2 DEF OutcomeAgrees
    <3> QED
      BY <3>1, <3>2
  <2> QED
    BY <2>5 DEF OutcomeAgrees, NoDuplicate
<1>2. ReviewNamesCandidate'
  BY DEF ReviewNamesCandidate, Recordings
<1>3. OneRequestPerKey'
  BY DEF OneRequestPerKey, Exists, Live, Terminal
<1>4. RowsAreWhole'
  BY DEF RowsAreWhole, Exists, Live, Terminal
<1> QED
  BY <1>1, <1>2, <1>3, <1>4

LEMMA ClaimRow ==
  ASSUME IInv, NEW r \in Request, status[r] = "queued", MarkMatching(r)
  PROVE  RowInv'
<1> USE DEF IInv, RowInv, MarkMatching, TypeOK
<1>1. OutcomeAgrees'
  BY DEF OutcomeAgrees, NoDuplicate
<1>2. ReviewNamesCandidate'
  BY DEF ReviewNamesCandidate, Recordings
<1>3. OneRequestPerKey'
  BY DEF OneRequestPerKey, Exists, Live
<1>4. RowsAreWhole'
  BY DEF RowsAreWhole, Exists, Live, Terminal
<1> QED
  BY <1>1, <1>2, <1>3, <1>4

LEMMA OutcomeRow ==
  ASSUME IInv, NEW r \in Request, status[r] = "matching",
         NEW list \in CandidateList, NoDuplicate(list), WriteOutcome(r, list)
  PROVE  RowInv'
<1> USE DEF IInv, RowInv, WriteOutcome, TypeOK
<1>0. \A q \in Request : Exists(q)' => Exists(q)
  BY DEF Exists, Live
<1>1. OutcomeAgrees'
  <2>1. ASSUME NEW q \in Request, q # r
        PROVE  UNCHANGED <<status[q], lastError[q], candidates[q]>>
    BY <2>1
  <2>2. /\ status'[r] = IF list = <<>> THEN "no_match" ELSE "matched"
        /\ lastError'[r] = ""
        /\ candidates'[r] = list
    OBVIOUS
  <2>3. OutcomeAgrees /\ NoDuplicate(list)
    OBVIOUS
  <2> HIDE DEF IInv, RowInv, WriteOutcome, TypeOK
  <2>4. ASSUME NEW q \in Request
        PROVE  /\ status'[q] = "matched" <=> candidates'[q] # <<>>
               /\ status'[q] = "failed" <=> lastError'[q] # ""
               /\ NoDuplicate(candidates'[q])
    <3>1. CASE q = r
      BY <2>2, <2>3, <3>1
    <3>2. CASE q # r
      BY <2>1, <2>3, <3>2 DEF OutcomeAgrees
    <3> QED
      BY <3>1, <3>2
  <2> QED
    BY <2>4 DEF OutcomeAgrees, NoDuplicate
<1>2. ReviewNamesCandidate'
  <2>1. review[r] # None => review[r].recording = None /\ review[r].decision # "accepted"
    BY OpenRow
  <2> QED
    BY <2>1 DEF ReviewNamesCandidate, Recordings
<1>3. OneRequestPerKey'
  BY <1>0, KeysFrame
<1>4. RowsAreWhole'
  BY DEF RowsAreWhole, Exists, Live, Terminal
<1> QED
  BY <1>1, <1>2, <1>3, <1>4

LEMMA FailRow ==
  ASSUME IInv, NEW w \in Worker, Fail(w)
  PROVE  RowInv'
<1>1. CASE status[job[w]] # "matching"
  <2>1. UNCHANGED rowVars
    BY <1>1 DEF Fail, rowVars
  <2> QED
    BY <2>1, RowFrame DEF IInv
<1>2. CASE status[job[w]] = "matching"
  <2> DEFINE r == job[w]
  <2>1. r \in Request /\ code[w] # "" /\ candidates[r] = <<>>
    <3>1. pc[w] = "failing"
      BY DEF Fail
    <3>2. r \in Request /\ code[w] # ""
      BY <3>1 DEF IInv, WorkerInv, FailingHasCode, HeldRequestIsOpen, HeldStatus, TypeOK
    <3> QED
      BY <1>2, <3>2, OpenRow
  <2>2. /\ status' = [status EXCEPT ![r] = "failed"]
        /\ lastError' = [lastError EXCEPT ![r] = code[w]]
        /\ UNCHANGED <<owner, candidates, review, aged>>
    BY <1>2 DEF Fail
  <2> HIDE DEF r
  <2>3. OutcomeAgrees'
    BY <1>2, <2>1, <2>2 DEF IInv, RowInv, TypeOK, OutcomeAgrees, NoDuplicate
  <2>4. ReviewNamesCandidate'
    BY <2>2 DEF IInv, RowInv, ReviewNamesCandidate, Recordings
  <2>5. OneRequestPerKey'
    <3>1. \A q \in Request : Exists(q)' => Exists(q)
      BY <1>2, <2>1, <2>2 DEF r, IInv, TypeOK, Exists, Live
    <3> QED
      BY <2>2, <3>1, KeysFrame DEF IInv, RowInv
  <2>6. RowsAreWhole'
    BY <1>2, <2>1, <2>2 DEF r, IInv, RowInv, TypeOK, RowsAreWhole, Exists, Live, Terminal
  <2> QED
    BY <2>3, <2>4, <2>5, <2>6 DEF RowInv
<1> QED
  BY <1>1, <1>2

-------------------------------------------------------------------------------
(* The inductive invariant: what each step of a worker keeps.              *)

LEMMA WorkerFrame ==
  WorkerInv /\ UNCHANGED <<status, pc, job, code>> => WorkerInv'
  BY DEF WorkerInv, OneWorkerPerRequest, HeldRequestIsOpen, HeldStatus, FailingHasCode

LEMMA CreateWorker ==
  ASSUME IInv, NEW c \in Client, NEW k \in Key, NEW r \in Request,
         NEW stamp, CreateRequest(c, k, r, stamp)
  PROVE  WorkerInv'
<1> USE DEF IInv, WorkerInv, CreateRequest, TypeOK, workerVars
<1>1. OneWorkerPerRequest' /\ FailingHasCode'
  BY DEF OneWorkerPerRequest, FailingHasCode
<1>2. HeldRequestIsOpen'
  <2> SUFFICES ASSUME NEW w \in Worker PROVE HeldStatus(w)'
    BY DEF HeldRequestIsOpen
  <2>1. HeldStatus(w)
    BY DEF HeldRequestIsOpen
  <2>2. r # None
    BY NoneAssumption
  <2>3. job[w] # r
    BY <2>1, <2>2 DEF HeldStatus
  <2>4. job[w] # None => status'[job[w]] = status[job[w]]
    BY <2>3
  <2> QED
    BY <2>1, <2>4 DEF HeldStatus
<1> QED
  BY <1>1, <1>2

\* Rows may be removed under a worker, except those its claim has locked.
LEMMA RemoveWorker ==
  ASSUME IInv, NEW R \in SUBSET Request, RemoveRows(R),
         \A r \in R : ~Locked(r)
  PROVE  WorkerInv'
<1> USE DEF IInv, WorkerInv, RemoveRows, TypeOK, workerVars
<1>1. OneWorkerPerRequest' /\ FailingHasCode'
  BY DEF OneWorkerPerRequest, FailingHasCode
<1>2. HeldRequestIsOpen'
  <2> SUFFICES ASSUME NEW w \in Worker PROVE HeldStatus(w)'
    BY DEF HeldRequestIsOpen
  <2>1. HeldStatus(w)
    BY DEF HeldRequestIsOpen
  <2>2. pc[w] = "claiming" => job[w] \notin R
    BY DEF Locked
  <2> QED
    BY <2>1, <2>2 DEF HeldStatus
<1> QED
  BY <1>1, <1>2

LEMMA PurgeUnlocked ==
  ASSUME IInv, NEW r \in aged
  PROVE  ~Locked(r)
  BY DEF IInv, RowInv, RowsAreWhole, WorkerInv, HeldRequestIsOpen, HeldStatus,
     Locked, TypeOK, Terminal

\* The select skips the rows the other claims have locked, and the requests of
\* workers past their claim are no longer queued.
LEMMA ClaimSelectWorker ==
  ASSUME IInv, NEW w \in Worker, ClaimSelect(w)
  PROVE  WorkerInv'
<1> USE DEF IInv, WorkerInv, TypeOK
<1>1. PICK r \in Claimable : job' = [job EXCEPT ![w] = r]
  BY DEF ClaimSelect
<1>2. /\ r \in Request /\ status[r] = "queued"
      /\ \A v \in Worker : ~(pc[v] = "claiming" /\ job[v] = r)
  BY <1>1 DEF Claimable, Locked
<1>3. \A v \in Worker : job[v] # r
  BY <1>2, NoneAssumption DEF HeldRequestIsOpen, HeldStatus, Phase
<1>4. pc' = [pc EXCEPT ![w] = "claiming"] /\ UNCHANGED <<status, code>>
  BY DEF ClaimSelect, rowVars
<1>5. OneWorkerPerRequest'
  BY <1>1, <1>2, <1>3 DEF OneWorkerPerRequest
<1>6. HeldRequestIsOpen'
  BY <1>1, <1>2, <1>4, NoneAssumption DEF HeldRequestIsOpen, HeldStatus
<1>7. FailingHasCode'
  BY <1>4 DEF FailingHasCode
<1> QED
  BY <1>5, <1>6, <1>7

\* Any other step of a worker keeps or drops the request it holds, and changes
\* the status of no other request.
LEMMA WorkerMoves ==
  ASSUME IInv, NEW w \in Worker, NEW p, NEW j \in {job[w], None}, NEW e,
         pc' = [pc EXCEPT ![w] = p],
         job' = [job EXCEPT ![w] = j],
         code' = [code EXCEPT ![w] = e],
         \A q \in Request : q # job[w] => status'[q] = status[q],
         HeldStatus(w)',
         p = "failing" => e # ""
  PROVE  WorkerInv'
<1> USE DEF IInv, WorkerInv, TypeOK
<1>1. OneWorkerPerRequest'
  BY DEF OneWorkerPerRequest
<1>2. HeldRequestIsOpen'
  <2> SUFFICES ASSUME NEW v \in Worker, v # w PROVE HeldStatus(v)'
    BY DEF HeldRequestIsOpen
  <2>1. HeldStatus(v)
    BY DEF HeldRequestIsOpen
  <2>2. UNCHANGED <<pc[v], job[v]>>
    OBVIOUS
  <2>3. job[v] # None => job[v] \in Request /\ job[v] # job[w]
    BY DEF OneWorkerPerRequest
  <2> QED
    BY <2>1, <2>2, <2>3 DEF HeldStatus
<1>3. FailingHasCode'
  BY DEF FailingHasCode
<1> QED
  BY <1>1, <1>2, <1>3

LEMMA ToSaveWorker ==
  ASSUME IInv, NEW w \in Worker, NEW list, pc[w] \in {"lookup", "providers"},
         ToSave(w, list), UNCHANGED status
  PROVE  WorkerInv'
<1>1. /\ job' = [job EXCEPT ![w] = job[w]]
      /\ code' = [code EXCEPT ![w] = code[w]]
  BY DEF ToSave, IInv, TypeOK
<1>2. HeldStatus(w)'
  BY DEF ToSave, HeldStatus, IInv, WorkerInv, HeldRequestIsOpen, TypeOK
<1> QED
  BY <1>1, <1>2, WorkerMoves DEF ToSave

LEMMA ToFailWorker ==
  ASSUME IInv, NEW w \in Worker, NEW e \in ErrorCode,
         pc[w] \in {"lookup", "providers", "saving"}, ToFail(w, e),
         \A q \in Request : q # job[w] => status'[q] = status[q],
         status'[job[w]] \in {"matching", "matched", "no_match", "deleted"}
  PROVE  WorkerInv'
<1>1. job' = [job EXCEPT ![w] = job[w]] /\ e # ""
  BY DEF ToFail, IInv, TypeOK, ErrorCode
<1>2. HeldStatus(w)'
  BY DEF ToFail, HeldStatus, IInv, WorkerInv, HeldRequestIsOpen, TypeOK
<1> QED
  BY <1>1, <1>2, WorkerMoves DEF ToFail

LEMMA IdleWorker ==
  ASSUME IInv, NEW w \in Worker, Idle(w),
         \A q \in Request : q # job[w] => status'[q] = status[q]
  PROVE  WorkerInv'
<1>1. HeldStatus(w)'
  BY DEF Idle, HeldStatus, IInv, TypeOK
<1> QED
  BY <1>1, WorkerMoves DEF Idle

LEMMA WorkerStep ==
  ASSUME IInv, NEW w \in Worker, RunOnce(w) \/ WorkerFault(w)
  PROVE  WorkerInv'
<1>1. /\ HeldStatus(w)
      /\ status \in [Request -> Status]
      /\ pc \in [Worker -> Phase] /\ job \in [Worker -> Request \cup {None}]
      /\ job = [job EXCEPT ![w] = job[w]]
      /\ code = [code EXCEPT ![w] = code[w]]
  BY DEF IInv, TypeOK, WorkerInv, HeldRequestIsOpen
<1>2. CASE ClaimSelect(w)
  BY <1>2, ClaimSelectWorker
<1>3. CASE ClaimCommit(w)
  BY <1>1, <1>3, WorkerMoves DEF ClaimCommit, MarkMatching, HeldStatus
<1>4. CASE CatalogMatches(w)
  BY <1>4, ToSaveWorker DEF CatalogMatches, rowVars
<1>5. CASE CatalogMisses(w)
  <2>1. CASE HasProviders
    <3>1. /\ pc[w] = "lookup" /\ pc' = [pc EXCEPT ![w] = "providers"]
          /\ UNCHANGED <<status, job, code>>
      BY <1>5, <2>1 DEF CatalogMisses, rowVars
    <3>2. HeldStatus(w)'
      BY <1>1, <3>1 DEF HeldStatus
    <3> QED
      BY <1>1, <3>1, <3>2, WorkerMoves
  <2>2. CASE ~HasProviders
    BY <1>5, <2>2, ToSaveWorker DEF CatalogMisses, rowVars
  <2> QED
    BY <2>1, <2>2
<1>6. CASE ProvidersAnswer(w)
  BY <1>6, ToSaveWorker DEF ProvidersAnswer, rowVars
<1>7. CASE ProvidersUnavailable(w)
  BY <1>1, <1>7, ToFailWorker DEF ProvidersUnavailable, ErrorCode, HeldStatus, rowVars
<1>8. CASE ProviderPersistFails(w)
  BY <1>1, <1>8, ToFailWorker DEF ProviderPersistFails, ErrorCode, HeldStatus, rowVars
<1>9. CASE CatalogFails(w)
  BY <1>1, <1>9, ToFailWorker DEF CatalogFails, ErrorCode, HeldStatus, rowVars
<1>10. CASE SaveRefused(w)
  BY <1>1, <1>10, ToFailWorker DEF SaveRefused, ErrorCode, HeldStatus, rowVars
<1>11. CASE SaveAborts(w)
  BY <1>1, <1>11, ToFailWorker DEF SaveAborts, ErrorCode, HeldStatus, rowVars
<1>12. CASE SaveReplyLost(w)
  BY <1>1, <1>12, ToFailWorker DEF SaveReplyLost, WriteOutcome, ErrorCode, HeldStatus
<1>13. CASE Save(w)
  BY <1>1, <1>13, IdleWorker DEF Save, WriteOutcome
<1>14. CASE Fail(w)
  BY <1>1, <1>14, IdleWorker DEF Fail
<1>15. CASE ClaimReplyLost(w)
  BY <1>1, <1>15, IdleWorker DEF ClaimReplyLost, MarkMatching
<1>16. CASE ClaimAborts(w) \/ MetricsFail(w) \/ FailAborts(w) \/ Crash(w)
  BY <1>16, IdleWorker DEF ClaimAborts, MetricsFail, FailAborts, Crash, rowVars
<1> QED
  BY <1>2, <1>3, <1>4, <1>5, <1>6, <1>7, <1>8, <1>9, <1>10, <1>11, <1>12, <1>13,
     <1>14, <1>15, <1>16 DEF RunOnce, WorkerFault

LEMMA RowStep ==
  ASSUME IInv, NEW w \in Worker, RunOnce(w) \/ WorkerFault(w)
  PROVE  RowInv'
<1>1. /\ HeldStatus(w) /\ found[w] \in CandidateList
      /\ job \in [Worker -> Request \cup {None}]
  BY DEF IInv, TypeOK, WorkerInv, HeldRequestIsOpen
<1>2. CASE ClaimCommit(w)
  BY <1>1, <1>2, ClaimRow DEF ClaimCommit, HeldStatus
<1>3. CASE ClaimReplyLost(w)
  BY <1>1, <1>3, ClaimRow DEF ClaimReplyLost, HeldStatus
<1>4. CASE Save(w) \/ SaveReplyLost(w)
  <2>1. WriteOutcome(job[w], found[w]) /\ Savable(w) /\ pc[w] = "saving"
    BY <1>4 DEF Save, SaveReplyLost
  <2>2. job[w] \in Request /\ status[job[w]] = "matching" /\ NoDuplicate(found[w])
    BY <1>1, <2>1 DEF Savable, Exists, Live, Terminal, HeldStatus
  <2> QED
    BY <1>1, <2>1, <2>2, OutcomeRow
<1>5. CASE Fail(w)
  BY <1>5, FailRow
<1>6. CASE UNCHANGED rowVars
  BY <1>6, RowFrame DEF IInv
<1> QED
  BY <1>2, <1>3, <1>4, <1>5, <1>6
     DEF RunOnce, WorkerFault, ClaimSelect, CatalogMatches, CatalogMisses,
         ProvidersAnswer, ProvidersUnavailable, ProviderPersistFails, SaveRefused,
         ClaimAborts, CatalogFails, MetricsFail, SaveAborts, FailAborts, Crash

LEMMA WebStep == IInv /\ Web => RowInv' /\ WorkerInv'
<1> SUFFICES ASSUME IInv, Web PROVE RowInv' /\ WorkerInv'
  OBVIOUS
<1>1. ASSUME NEW c \in Client, NEW k \in Key, NEW r \in Request,
             NEW stamp \in 1..MaxStamp, CreateRequest(c, k, r, stamp)
      PROVE  RowInv' /\ WorkerInv'
  BY <1>1, CreateRow, CreateWorker
<1>2. ASSUME NEW r \in Request, NEW d \in {"accepted", "rejected"},
             NEW rec \in Recording \cup {None}, SaveReview(r, d, rec)
      PROVE  RowInv' /\ WorkerInv'
  BY <1>2, ReviewRow, WorkerFrame DEF SaveReview, workerVars, IInv
<1>3. ASSUME NEW c \in Client, RevokeClient(c)
      PROVE  RowInv' /\ WorkerInv'
  BY <1>3, RowFrame, WorkerFrame DEF RevokeClient, rowVars, workerVars, IInv
<1>4. ASSUME NEW c \in Client, DeleteClient(c)
      PROVE  RowInv' /\ WorkerInv'
  <2>1. RequestsOf(c) \in SUBSET Request
    BY DEF RequestsOf
  <2> QED
    BY <1>4, <2>1, RemoveRow, RemoveWorker DEF DeleteClient
<1>5. ASSUME NEW r \in Request, Age(r)
      PROVE  RowInv' /\ WorkerInv'
  BY <1>5, AgeRow, WorkerFrame DEF Age, workerVars, IInv
<1>6. ASSUME Purge
      PROVE  RowInv' /\ WorkerInv'
  <2>1. aged \in SUBSET Request /\ \A r \in aged : ~Locked(r)
    BY PurgeUnlocked DEF IInv, TypeOK
  <2> QED
    BY <1>6, <2>1, RemoveRow, RemoveWorker DEF Purge
<1> QED
  BY <1>1, <1>2, <1>3, <1>4, <1>5, <1>6 DEF Web

LEMMA StepInv == IInv /\ [Next]_vars => IInv'
<1> SUFFICES ASSUME IInv, [Next]_vars PROVE RowInv' /\ WorkerInv'
  BY StepType DEF IInv
<1>1. CASE Web
  BY <1>1, WebStep
<1>2. CASE \E w \in Worker : RunOnce(w) \/ WorkerFault(w)
  BY <1>2, RowStep, WorkerStep
<1>3. CASE UNCHANGED vars
  BY <1>3, RowFrame, WorkerFrame DEF vars, rowVars, workerVars, IInv
<1> QED
  BY <1>1, <1>2, <1>3 DEF Next

\* The tables and the workers' locals agree in every reachable state, for any
\* number of clients, requests and workers (worker_store.go, worker/service.go).
THEOREM Inductive == Spec => []IInv
  BY InitInv, StepInv, PTL DEF Spec

-------------------------------------------------------------------------------
(* What follows from it.                                                   *)

\* No two workers ever hold one request (POSTGRES_WORKER.md: several workers do
\* not claim the same task), for any number of workers and faults.
THEOREM SingleWorker == Spec => []OneWorkerPerRequest
<1>1. IInv => OneWorkerPerRequest
  BY DEF IInv, WorkerInv
<1> QED
  BY <1>1, Inductive, PTL

\* What a worker holds is still open, and the tables tell one story.
THEOREM RowsAndWorkersAgree ==
  Spec => [](HeldRequestIsOpen /\ OutcomeAgrees /\ ReviewNamesCandidate /\ OneRequestPerKey)
<1>1. IInv => HeldRequestIsOpen /\ OutcomeAgrees /\ ReviewNamesCandidate /\ OneRequestPerKey
  BY DEF IInv, RowInv, WorkerInv
<1> QED
  BY <1>1, Inductive, PTL

LEMMA FinalStep ==
  ASSUME IInv, [Next]_vars
  PROVE  \A r \in Request :
            /\ status[r] \in Terminal =>
                  \/ status'[r] = "deleted"
                  \/ UNCHANGED <<status[r], lastError[r], candidates[r]>>
            /\ status[r] = "deleted" => status'[r] = "deleted"
<1> DEFINE Final ==
      \A r \in Request :
          /\ status[r] \in Terminal =>
                \/ status'[r] = "deleted"
                \/ UNCHANGED <<status[r], lastError[r], candidates[r]>>
          /\ status[r] = "deleted" => status'[r] = "deleted"
<1> SUFFICES Final
  OBVIOUS
<1>0. /\ status \in [Request -> Status] /\ job \in [Worker -> Request \cup {None}]
      /\ lastError \in [Request -> ErrorCode \cup {""}]
      /\ candidates \in [Request -> CandidateList]
  BY DEF IInv, TypeOK
<1>1. ASSUME NEW R, RemoveRows(R) PROVE Final
  BY <1>1 DEF RemoveRows
<1>2. ASSUME NEW w \in Worker, MarkMatching(job[w]), pc[w] = "claiming" PROVE Final
  BY <1>0, <1>2 DEF MarkMatching, IInv, WorkerInv, HeldRequestIsOpen, HeldStatus, Terminal
<1>3. ASSUME NEW w \in Worker, WriteOutcome(job[w], found[w]), pc[w] = "saving",
             Savable(w)
      PROVE  Final
  <2>1. status[job[w]] = "matching"
    BY <1>3 DEF IInv, WorkerInv, HeldRequestIsOpen, HeldStatus, Savable, Exists, Live, Terminal
  <2> QED
    BY <1>0, <1>3, <2>1 DEF WriteOutcome, Terminal
<1>4. ASSUME NEW w \in Worker, Fail(w) PROVE Final
  BY <1>0, <1>4 DEF Fail, Terminal
<1>5. ASSUME UNCHANGED <<status, lastError, candidates>> PROVE Final
  BY <1>5
<1>6. CASE Web
  <2>1. ASSUME NEW c \in Client, NEW k \in Key, NEW r \in Request,
               NEW stamp \in 1..MaxStamp, CreateRequest(c, k, r, stamp)
        PROVE  Final
    BY <1>0, <2>1 DEF CreateRequest, Terminal
  <2> QED
    BY <1>6, <1>1, <1>5, <2>1
       DEF Web, SaveReview, RevokeClient, DeleteClient, Age, Purge, rowVars
<1>7. CASE \E w \in Worker : RunOnce(w) \/ WorkerFault(w)
  BY <1>7, <1>2, <1>3, <1>4, <1>5
     DEF RunOnce, WorkerFault, ClaimSelect, ClaimCommit, ClaimReplyLost, CatalogMatches,
         CatalogMisses, ProvidersAnswer, ProvidersUnavailable, ProviderPersistFails,
         Save, SaveReplyLost, SaveRefused, ClaimAborts, CatalogFails, MetricsFail,
         SaveAborts, FailAborts, Crash, rowVars
<1>8. CASE UNCHANGED vars
  BY <1>5, <1>8 DEF vars, rowVars
<1> QED
  BY <1>6, <1>7, <1>8 DEF Next

\* An answer is final: only a removal follows it, whatever late workers,
\* repeated completions and failure reports do.
THEOREM FinalAnswers == Spec => AnswersAreFinal
<1>1. IInv /\ [Next]_vars =>
        [\A r \in Request :
            /\ status[r] \in Terminal =>
                  \/ status'[r] = "deleted"
                  \/ UNCHANGED <<status[r], lastError[r], candidates[r]>>
            /\ status[r] = "deleted" => status'[r] = "deleted"]_vars
  BY FinalStep
<1> QED
  BY <1>1, Inductive, PTL DEF Spec, AnswersAreFinal

\* Retention removes no request that still waits for its answer.
THEOREM RetentionKeepsOpen == Spec => OpenRequestsAreKept
<1> DEFINE Kept ==
      \A r \in Request :
          status[r] \in {"queued", "matching"} /\ status'[r] = "deleted" =>
              installation' # installation
<1>1. IInv /\ [Next]_vars => Kept
  <2> SUFFICES ASSUME IInv, [Next]_vars PROVE Kept
    OBVIOUS
  <2>0. /\ status \in [Request -> Status] /\ installation \in [Client -> {"active", "revoked", "deleted"}]
        /\ job \in [Worker -> Request \cup {None}]
    BY DEF IInv, TypeOK
  <2>1. ASSUME Purge PROVE Kept
    BY <2>1 DEF Purge, RemoveRows, IInv, RowInv, RowsAreWhole, Terminal
  <2>2. ASSUME NEW c \in Client, DeleteClient(c) PROVE Kept
    BY <2>0, <2>2 DEF DeleteClient
  <2>3. ASSUME NEW q \in Request, NEW s \in Live, status' = [status EXCEPT ![q] = s]
        PROVE  Kept
    BY <2>0, <2>3 DEF Live, Terminal
  <2>4. ASSUME UNCHANGED status PROVE Kept
    BY <2>0, <2>4
  <2>5. CASE Web
    BY <2>1, <2>2, <2>3, <2>4, <2>5
       DEF Web, CreateRequest, SaveReview, RevokeClient, Age, rowVars, Live
  <2>6. CASE \E w \in Worker : RunOnce(w) \/ WorkerFault(w)
    <3> PICK w \in Worker : RunOnce(w) \/ WorkerFault(w)
      BY <2>6
    <3>1. pc[w] # "idle" => job[w] \in Request
      BY <2>0 DEF IInv, WorkerInv, HeldRequestIsOpen, HeldStatus
    <3>2. CASE ClaimCommit(w) \/ ClaimReplyLost(w)
      BY <2>3, <3>1, <3>2 DEF ClaimCommit, ClaimReplyLost, MarkMatching, Live
    <3>3. CASE Save(w) \/ SaveReplyLost(w)
      BY <2>3, <3>1, <3>3 DEF Save, SaveReplyLost, WriteOutcome, Live, Terminal
    <3>4. CASE Fail(w)
      BY <2>3, <2>4, <3>1, <3>4 DEF Fail, Live, Terminal
    <3> QED
      BY <2>4, <3>2, <3>3, <3>4
         DEF RunOnce, WorkerFault, ClaimSelect, CatalogMatches, CatalogMisses,
             ProvidersAnswer, ProvidersUnavailable, ProviderPersistFails, SaveRefused,
             ClaimAborts, CatalogFails, MetricsFail, SaveAborts, FailAborts, Crash, rowVars
  <2>7. CASE UNCHANGED vars
    BY <2>4, <2>7 DEF vars, rowVars
  <2> QED
    BY <2>5, <2>6, <2>7 DEF Next
<1>2. IInv /\ [Next]_vars => [Kept]_vars
  BY <1>1
<1> QED
  BY <1>2, Inductive, PTL DEF Spec, OpenRequestsAreKept

-------------------------------------------------------------------------------
(* Stranded requests are paid for by faults.                               *)

LEMMA StrandedWeb == IInv /\ Web => Stranded' \subseteq Stranded
<1> SUFFICES ASSUME IInv, Web PROVE Stranded' \subseteq Stranded
  OBVIOUS
<1>1. UNCHANGED job
  BY DEF Web, CreateRequest, SaveReview, RevokeClient, DeleteClient, Age, Purge,
     RemoveRows, workerVars
<1>2. \A r \in Request : status'[r] = "matching" => status[r] = "matching"
  <2>1. ASSUME NEW c \in Client, NEW k \in Key, NEW r \in Request,
               NEW stamp \in 1..MaxStamp, CreateRequest(c, k, r, stamp)
        PROVE  \A q \in Request : status'[q] = "matching" => status[q] = "matching"
    BY <2>1 DEF CreateRequest, IInv, TypeOK
  <2>2. ASSUME NEW R, RemoveRows(R)
        PROVE  \A q \in Request : status'[q] = "matching" => status[q] = "matching"
    BY <2>2 DEF RemoveRows
  <2> QED
    BY <2>1, <2>2 DEF Web, SaveReview, RevokeClient, DeleteClient, Age, Purge, rowVars
<1> QED
  BY <1>1, <1>2 DEF Stranded

\* A step that is no fault drops a request only with its answer written.
LEMMA StrandedRunOnce ==
  ASSUME IInv, NEW w \in Worker, RunOnce(w)
  PROVE  Stranded' \subseteq Stranded
<1>0. /\ status \in [Request -> Status] /\ job \in [Worker -> Request \cup {None}]
      /\ HeldStatus(w)
  BY DEF IInv, TypeOK, WorkerInv, HeldRequestIsOpen
<1>1. CASE ClaimSelect(w)
  BY <1>0, <1>1, NoneAssumption DEF ClaimSelect, Stranded, HeldStatus, rowVars
<1>2. CASE ClaimCommit(w)
  BY <1>0, <1>2 DEF ClaimCommit, MarkMatching, Stranded, HeldStatus
<1>3. CASE Save(w)
  BY <1>0, <1>3 DEF Save, WriteOutcome, Idle, Stranded, HeldStatus
<1>4. CASE Fail(w)
  BY <1>0, <1>4 DEF Fail, Idle, Stranded, HeldStatus
<1>5. CASE UNCHANGED <<status, job>>
  BY <1>5 DEF Stranded
<1> QED
  BY <1>1, <1>2, <1>3, <1>4, <1>5
     DEF RunOnce, CatalogMatches, CatalogMisses, ProvidersAnswer, ProvidersUnavailable,
         ProviderPersistFails, SaveRefused, ToSave, ToFail, rowVars

\* A fault strands at most the request the worker held.
LEMMA StrandedFault ==
  ASSUME IInv, NEW w \in Worker, WorkerFault(w)
  PROVE  /\ Stranded' \subseteq Stranded \cup {job[w]}
         /\ faults' = faults + 1
<1>0. status \in [Request -> Status] /\ job \in [Worker -> Request \cup {None}]
  BY DEF IInv, TypeOK
<1>1. faults' = faults + 1
  BY DEF WorkerFault, ClaimAborts, ClaimReplyLost, CatalogFails, MetricsFail,
     SaveAborts, SaveReplyLost, FailAborts, Crash, Fault
<1>2. \A v \in Worker : v # w => job'[v] = job[v]
  BY <1>0 DEF WorkerFault, ClaimAborts, ClaimReplyLost, CatalogFails, MetricsFail,
     SaveAborts, SaveReplyLost, FailAborts, Crash, Idle, ToFail
<1>3. \A r \in Request : r # job[w] => status'[r] = status[r]
  BY <1>0 DEF WorkerFault, ClaimAborts, ClaimReplyLost, CatalogFails, MetricsFail,
     SaveAborts, SaveReplyLost, FailAborts, Crash, MarkMatching, WriteOutcome, rowVars
<1> QED
  BY <1>1, <1>2, <1>3 DEF Stranded

\* At most one request is stranded in matching per fault that has happened.
THEOREM StrandedBound == Spec => []StrandedByFaultsOnly
<1> DEFINE Bound == IsFiniteSet(Stranded) /\ Cardinality(Stranded) <= faults
<1>1. Init => Bound
  <2>1. Init => Stranded = {} /\ faults = 0
    BY DEF Init, Stranded
  <2> QED
    BY <2>1, FS_EmptySet
<1>2. IInv /\ Bound /\ [Next]_vars => Bound'
  <2> SUFFICES ASSUME IInv, Bound, [Next]_vars PROVE Bound'
    OBVIOUS
  <2>0. faults \in Nat
    BY DEF IInv, TypeOK
  <2>1. CASE Stranded' \subseteq Stranded /\ faults' = faults
    BY <2>0, <2>1, FS_Subset, FS_CardinalityType
  <2>2. CASE \E x : Stranded' \subseteq Stranded \cup {x} /\ faults' = faults + 1
    <3> PICK x : Stranded' \subseteq Stranded \cup {x} /\ faults' = faults + 1
      BY <2>2
    <3>1. /\ IsFiniteSet(Stranded \cup {x})
          /\ Cardinality(Stranded \cup {x}) <= Cardinality(Stranded) + 1
      <4>1. Cardinality(Stranded) \in Nat
        BY FS_CardinalityType
      <4>2. IsFiniteSet(Stranded)
        OBVIOUS
      <4> QED
        BY <4>1, <4>2, FS_AddElement
    <3> QED
      BY <2>0, <3>1, FS_Subset, FS_CardinalityType
  <2>3. CASE UNCHANGED vars
    BY <2>1, <2>3 DEF vars, rowVars, workerVars, Stranded
  <2>4. CASE Web
    <3>1. UNCHANGED faults
      BY <2>4 DEF Web, CreateRequest, SaveReview, RevokeClient, DeleteClient, Age,
         Purge, RemoveRows
    <3> QED
      BY <2>1, <2>4, <3>1, StrandedWeb
  <2>5. CASE \E w \in Worker : RunOnce(w)
    <3>1. UNCHANGED faults
      BY <2>5 DEF RunOnce, ClaimSelect, ClaimCommit, CatalogMatches, CatalogMisses,
         ProvidersAnswer, ProvidersUnavailable, ProviderPersistFails, Save, SaveRefused, Fail
    <3> QED
      BY <2>1, <2>5, <3>1, StrandedRunOnce
  <2>6. CASE \E w \in Worker : WorkerFault(w)
    BY <2>2, <2>6, StrandedFault
  <2> HIDE DEF Bound
  <2> QED
    BY <2>3, <2>4, <2>5, <2>6 DEF Next
<1>3. Bound => StrandedByFaultsOnly
  BY DEF StrandedByFaultsOnly
<1> HIDE DEF Bound
<1> QED
  BY <1>1, <1>2, <1>3, Inductive, PTL DEF Spec

-------------------------------------------------------------------------------
(* The queue implements ResolutionJob.                                     *)

LEMMA AssigneeIs ==
  ASSUME OneWorkerPerRequest, NEW q \in Request, status[q] = "matching",
         NEW w \in Worker, job[w] = q
  PROVE  Assignee(q) = w
<1>1. \A v \in Worker : job[v] = q => v = w
  BY NoneAssumption DEF OneWorkerPerRequest
<1> QED
  BY <1>1 DEF Assignee

LEMMA AssigneeNone ==
  ASSUME NEW q, status[q] # "matching" \/ \A v \in Worker : job[v] # q
  PROVE  Assignee(q) = None
  BY DEF Assignee

LEMMA AssigneeNext ==
  ASSUME IInv', NEW q \in Request, status'[q] = "matching",
         NEW w \in Worker, job'[w] = q
  PROVE  Assignee(q)' = w
<1>1. \A v \in Worker : job'[v] = q => v = w
  BY NoneAssumption DEF IInv, WorkerInv, OneWorkerPerRequest
<1> QED
  BY <1>1 DEF Assignee

LEMMA AssigneeNoneNext ==
  ASSUME NEW q, status'[q] # "matching" \/ \A v \in Worker : job'[v] # q
  PROVE  Assignee(q)' = None
  BY DEF Assignee

\* A request whose being matched and whose holder stay the same keeps its assignee.
LEMMA AssigneeFrame ==
  ASSUME IInv, IInv', NEW q \in Request,
         status[q] = "matching" <=> status'[q] = "matching",
         status[q] = "matching" => \A v \in Worker : job[v] = q <=> job'[v] = q
  PROVE  Assignee(q)' = Assignee(q)
<1>1. CASE status[q] = "matching" /\ \E v \in Worker : job[v] = q
  <2>1. PICK w \in Worker : job[w] = q /\ job'[w] = q
    BY <1>1
  <2>2. Assignee(q) = w
    BY <1>1, <2>1, AssigneeIs DEF IInv, WorkerInv
  <2>3. \A v \in Worker : job'[v] = q => v = w
    BY <2>1, NoneAssumption DEF IInv, WorkerInv, OneWorkerPerRequest
  <2>4. Assignee(q)' = w
    BY <1>1, <2>1, <2>3 DEF Assignee
  <2> QED
    BY <2>2, <2>4
<1>2. CASE ~(status[q] = "matching" /\ \E v \in Worker : job[v] = q)
  BY <1>2 DEF Assignee
<1> QED
  BY <1>1, <1>2

LEMMA JobStutter ==
  ASSUME IInv, IInv', UNCHANGED status,
         \A q \in Request : status[q] = "matching" =>
             \A v \in Worker : job[v] = q <=> job'[v] = q
  PROVE  UNCHANGED Job!jobVars
<1>1. \A q \in Request : Assignee(q)' = Assignee(q)
  BY AssigneeFrame
<1> QED
  BY <1>1 DEF Job!jobVars

\* The changes of one request r, by the two variables of the abstract queue.
LEMMA JobMove ==
  ASSUME IInv, IInv', NEW r \in Request, NEW s, status' = [status EXCEPT ![r] = s],
         NEW a, Assignee(r)' = a,
         \A q \in Request : q # r /\ status[q] = "matching" =>
             \A v \in Worker : job[v] = q <=> job'[v] = q
  PROVE  [q \in Request |-> Assignee(q)]' = [[q \in Request |-> Assignee(q)] EXCEPT ![r] = a]
<1>1. ASSUME NEW q \in Request, q # r PROVE Assignee(q)' = Assignee(q)
  BY <1>1, AssigneeFrame DEF IInv, TypeOK
<1> QED
  BY <1>1

LEMMA JobRemove ==
  ASSUME IInv, IInv', NEW R \in SUBSET Request, RemoveRows(R),
         \A r \in R : status[r] # "unused"
  PROVE  Job!Withdraw(R)
<1>1. \A q \in R : Assignee(q)' = None
  BY AssigneeNone DEF RemoveRows, Assignee
<1>2. ASSUME NEW q \in Request, q \notin R PROVE Assignee(q)' = Assignee(q)
  BY <1>2, AssigneeFrame DEF RemoveRows, workerVars
<1> QED
  BY <1>1, <1>2 DEF Job!Withdraw, RemoveRows

LEMMA JobWeb == IInv /\ IInv' /\ Web => [Job!JobNext]_(Job!jobVars)
<1> SUFFICES ASSUME IInv, IInv', Web PROVE [Job!JobNext]_(Job!jobVars)
  OBVIOUS
<1>1. ASSUME NEW c \in Client, NEW k \in Key, NEW r \in Request,
             NEW stamp \in 1..MaxStamp, CreateRequest(c, k, r, stamp)
      PROVE  Job!Submit(r)
  <2>1. status[r] = "unused" /\ status' = [status EXCEPT ![r] = "queued"] /\ UNCHANGED job
    BY <1>1 DEF CreateRequest, workerVars
  <2>2. \A q \in Request : Assignee(q)' = Assignee(q)
    BY <2>1, AssigneeFrame DEF IInv, TypeOK
  <2> QED
    BY <2>1, <2>2 DEF Job!Submit
<1>2. ASSUME NEW c \in Client, DeleteClient(c) PROVE \E R \in SUBSET Request : Job!Withdraw(R)
  <2>1. RequestsOf(c) \in SUBSET Request /\ \A r \in RequestsOf(c) : status[r] # "unused"
    BY DEF RequestsOf, Exists, Live, Terminal
  <2> QED
    BY <1>2, <2>1, JobRemove DEF DeleteClient
<1>3. ASSUME Purge PROVE \E R \in SUBSET Request : Job!Withdraw(R)
  <2>1. aged \in SUBSET Request /\ \A r \in aged : status[r] # "unused"
    BY DEF IInv, TypeOK, RowInv, RowsAreWhole, Terminal
  <2> QED
    BY <1>3, <2>1, JobRemove DEF Purge
<1>4. ASSUME UNCHANGED <<status, job>> PROVE UNCHANGED Job!jobVars
  BY <1>4, JobStutter
<1> QED
  BY <1>1, <1>2, <1>3, <1>4
     DEF Web, SaveReview, RevokeClient, Age, rowVars, workerVars, Job!JobNext

LEMMA JobWorker ==
  ASSUME IInv, IInv', NEW w \in Worker, RunOnce(w) \/ WorkerFault(w)
  PROVE  [Job!JobNext]_(Job!jobVars)
<1>r. PICK r : r = job[w]
  OBVIOUS
<1>t. status \in [Request -> Status] /\ job \in [Worker -> Request \cup {None}]
  BY DEF IInv, TypeOK
<1>h. HeldStatus(w) /\ (pc[w] # "idle" => r \in Request)
  BY <1>r, <1>t DEF IInv, WorkerInv, HeldRequestIsOpen, HeldStatus, TypeOK, Phase
<1>o. \A v \in Worker : v # w /\ job[v] # None => job[v] # r
  BY <1>r DEF IInv, WorkerInv, OneWorkerPerRequest
<1>0. /\ r = job[w]
      /\ status \in [Request -> Status] /\ job \in [Worker -> Request \cup {None}]
      /\ HeldStatus(w) /\ (pc[w] # "idle" => r \in Request)
      /\ \A v \in Worker : v # w /\ job[v] # None => job[v] # r
  BY <1>r, <1>t, <1>h, <1>o
<1>1. CASE ClaimSelect(w)
  <2>1. UNCHANGED status /\ pc[w] = "idle"
    BY <1>1 DEF ClaimSelect, rowVars
  <2>2. PICK q \in Claimable : job' = [job EXCEPT ![w] = q]
    BY <1>1 DEF ClaimSelect
  <2> QED
    BY <1>0, <2>1, <2>2, NoneAssumption, JobStutter DEF Claimable, HeldStatus
<1>2. CASE ClaimCommit(w)
  <2>1. /\ r \in Request /\ status[r] = "queued" /\ UNCHANGED job
        /\ status' = [status EXCEPT ![r] = "matching"]
    BY <1>0, <1>2 DEF ClaimCommit, MarkMatching, HeldStatus
  <2>2. Assignee(r)' = w
    BY <1>0, <2>1, AssigneeNext
  <2>3. Job!Take(r, w)
    BY <2>1, <2>2, JobMove DEF Job!Take
  <2> QED
    BY <2>1, <2>3 DEF Job!JobNext
<1>3. CASE ClaimReplyLost(w)
  <2>1. /\ r \in Request /\ status[r] = "queued" /\ job' = [job EXCEPT ![w] = None]
        /\ status' = [status EXCEPT ![r] = "matching"]
    BY <1>0, <1>3 DEF ClaimReplyLost, MarkMatching, Idle, HeldStatus
  <2>2. Assignee(r)' = None
    <3>1. \A v \in Worker : job'[v] # r
      BY <1>0, <2>1, NoneAssumption
    <3> QED
      BY <3>1, AssigneeNoneNext
  <2>3. \A q \in Request : q # r => \A v \in Worker : job[v] = q <=> job'[v] = q
    BY <1>0, <2>1, NoneAssumption
  <2>4. Job!Take(r, None)
    BY <2>1, <2>2, <2>3, JobMove DEF Job!Take
  <2> QED
    BY <2>1, <2>4 DEF Job!JobNext
<1>4. ASSUME NEW answer \in Job!Answer, status[r] = "matching", pc[w] # "idle",
             status' = [status EXCEPT ![r] = answer],
             \A v \in Worker : v # w => job'[v] = job[v],
             job'[w] \in {r, None}
      PROVE  Job!JobNext
  <2>1. r \in Request
    BY <1>0, <1>4
  <2>2. Assignee(r) = w
    BY <1>0, <1>4, <2>1, AssigneeIs DEF IInv, WorkerInv
  <2>3. Assignee(r)' = None
    BY <1>0, <1>4, <2>1, AssigneeNoneNext DEF Job!Answer
  <2>4. \A q \in Request : q # r => \A v \in Worker : job[v] = q <=> job'[v] = q
    BY <1>0, <1>4, <2>1, NoneAssumption
  <2>5. Job!Finish(r, answer)
    BY <1>4, <2>1, <2>2, <2>3, <2>4, NoneAssumption, JobMove DEF Job!Finish
  <2> QED
    BY <2>1, <2>5 DEF Job!JobNext
<1>5. CASE Save(w) \/ SaveReplyLost(w)
  <2>1. /\ status[r] = "matching" /\ pc[w] = "saving"
        /\ \A v \in Worker : v # w => job'[v] = job[v]
        /\ job'[w] \in {r, None}
    BY <1>0, <1>5 DEF Save, SaveReplyLost, Savable, Exists, Live, Terminal, Idle, ToFail, HeldStatus
  <2>2. \E answer \in Job!Answer : status' = [status EXCEPT ![r] = answer]
    BY <1>0, <1>5 DEF Save, SaveReplyLost, WriteOutcome, Job!Answer
  <2> QED
    BY <1>4, <2>1, <2>2
<1>6. CASE Fail(w) /\ status[r] = "matching"
  <2>1. /\ pc[w] = "failing" /\ status' = [status EXCEPT ![r] = "failed"]
        /\ \A v \in Worker : v # w => job'[v] = job[v]
        /\ job'[w] \in {r, None}
    BY <1>0, <1>6 DEF Fail, Idle
  <2>2. "failed" \in Job!Answer
    BY DEF Job!Answer
  <2> QED
    BY <1>4, <1>6, <2>1, <2>2
<1>7. ASSUME Idle(w), UNCHANGED status, pc[w] # "idle"
      PROVE  [Job!JobNext]_(Job!jobVars)
  <2>1. job' = [job EXCEPT ![w] = None] /\ r \in Request
    BY <1>0, <1>7 DEF Idle
  <2>2. \A q \in Request : q # r => \A v \in Worker : job[v] = q <=> job'[v] = q
    BY <1>0, <2>1, NoneAssumption
  <2>3. CASE status[r] = "matching"
    <3>1. Assignee(r) = w
      BY <1>0, <2>1, <2>3, AssigneeIs DEF IInv, WorkerInv
    <3>2. Assignee(r)' = None
      <4>1. \A v \in Worker : job'[v] # r
        BY <1>0, <2>1, NoneAssumption
      <4> QED
        BY <4>1, AssigneeNoneNext
    <3>3. status' = [status EXCEPT ![r] = status[r]] /\ UNCHANGED status
      BY <1>0, <1>7
    <3>4. Job!Abandon(r)
      BY <2>1, <2>2, <2>3, <3>1, <3>2, <3>3, NoneAssumption, JobMove DEF Job!Abandon
    <3> QED
      BY <2>1, <3>4 DEF Job!JobNext
  <2>4. CASE status[r] # "matching"
    BY <1>7, <2>2, <2>4, JobStutter
  <2> QED
    BY <2>3, <2>4
<1>8. CASE Fail(w) /\ status[r] # "matching"
  BY <1>0, <1>7, <1>8 DEF Fail
<1>9. CASE ClaimAborts(w) \/ MetricsFail(w) \/ FailAborts(w) \/ Crash(w)
  BY <1>7, <1>9 DEF ClaimAborts, MetricsFail, FailAborts, Crash, rowVars
<1>10. CASE UNCHANGED <<status, job>>
  BY <1>10, JobStutter
<1> QED
  BY <1>1, <1>2, <1>3, <1>5, <1>6, <1>8, <1>9, <1>10
     DEF RunOnce, WorkerFault, CatalogMatches, CatalogMisses, ProvidersAnswer,
         ProvidersUnavailable, ProviderPersistFails, SaveRefused, CatalogFails,
         SaveAborts, ToSave, ToFail, rowVars

\* The tables, row locks and worker processes implement the abstract queue: a
\* request is handed over at most once and answered at most once, by the worker
\* it was handed to.
THEOREM Refinement == Spec => ImplementsJob
<1>1. Init => Job!JobInit
  BY DEF Init, Job!JobInit, Assignee
<1>2. IInv /\ IInv' /\ [Next]_vars => [Job!JobNext]_(Job!jobVars)
  <2> SUFFICES ASSUME IInv, IInv', [Next]_vars PROVE [Job!JobNext]_(Job!jobVars)
    OBVIOUS
  <2>1. CASE UNCHANGED vars
    BY <2>1, JobStutter DEF vars, rowVars, workerVars
  <2> QED
    BY <2>1, JobWeb, JobWorker DEF Next
<1> QED
  BY <1>1, <1>2, Inductive, PTL DEF Spec, ImplementsJob, Job!JobSpec
===============================================================================
