-------------------------- MODULE ClientAccessProofs ---------------------------
(***************************************************************************)
(* Theorems about ClientAccess for every set of clients, calls and         *)
(* deletions, and all intervals and limits.                                *)
(***************************************************************************)
EXTENDS ClientAccess, FiniteSetTheorems, TLAPS

\* A call that is under way is a known client's, and a client that was revoked
\* when it began stays so.
CallsKnow ==
    \A h \in Call :
        /\ call[h].at # "idle" => status[call[h].client] # "absent"
        /\ call[h].at = "finding" /\ began[h] # "active" =>
              status[call[h].client] \in {"revoked", "deleted"}

\* What a call has read of lastSeen is no later than what is there now.
SeenIsPast ==
    \A h \in Call :
        call[h].at = "deciding" /\ call[h].seen # None
          /\ status[call[h].client] \in {"active", "revoked"} =>
            /\ lastSeen[call[h].client] # None
            /\ call[h].seen <= lastSeen[call[h].client]

NobodyUnknownIsServed == \A c \in Client : status[c] = "absent" => served[c] = None

DeletionsAreOfRevoked ==
    \A d \in Deletion : deleting[d] # None => status[deleting[d]] \in {"revoked", "deleted"}

AccessInv ==
    /\ CallsKnow
    /\ RevokedIsRefused

SightInv ==
    /\ SeenIsPast
    /\ NobodyUnknownIsServed
    /\ LastSeenIsRecent

AuditInv ==
    /\ DeletionsAreOfRevoked
    /\ AuditAgrees

\* The calls let through in the window a client has are the last ones that
\* were; the others came before it was opened.
Earlier(c)   == Len(passed[c]) - entries[c].requests
Opened(c)    == passed[c][Earlier(c) + 1]
Interval(t)  == t..(t + Window - 1)
OnTime(c, t) == Interval(t) \cap late[c] = {}

\* Which of the first m times are in T.
Hits(times, m, T) == {n \in 1..m : times[n] \in T}

CallsTookTheirTime == \A h \in Call : call[h].at = "limiting" => call[h].now <= clock

InOrder(c) ==
    /\ \A m, n \in 1..Len(passed[c]) : m <= n => passed[c][m] <= passed[c][n]
    /\ \A n \in 1..Len(passed[c]) : passed[c][n] <= clock

\* A window lasts no longer than from its first call, and exactly so long if
\* that was on time; an interval that reaches into it has at most the limit of
\* earlier calls.
WindowOK(c) ==
    entries[c] # None =>
        /\ entries[c].requests <= Len(passed[c])
        /\ entries[c].resetAt <= Opened(c) + Window
        /\ Opened(c) \notin late[c] => entries[c].resetAt = Opened(c) + Window
        /\ \A t \in 0..MaxClock :
              OnTime(c, t) /\ t + Window - 1 >= Opened(c) =>
                  Cardinality(Hits(passed[c], Earlier(c), Interval(t))) <= Limit

\* One that reaches the present has at most the limit if there is no window.
NoWindowOK(c) ==
    entries[c] = None =>
        \A t \in 0..MaxClock :
            OnTime(c, t) /\ t + Window - 1 >= clock =>
                PassedIn(c, Interval(t)) <= Limit

LimitOK(c) ==
    \A t \in 0..MaxClock : OnTime(c, t) => PassedIn(c, Interval(t)) <= 2 * Limit

LimiterInv ==
    /\ CallsTookTheirTime
    /\ \A c \in Client : InOrder(c) /\ WindowOK(c) /\ NoWindowOK(c) /\ LimitOK(c)

-------------------------------------------------------------------------------
(* Types.                                                                  *)

LEMMA KeptType ==
  ASSUME LimiterTypeOK, NEW now \in Nat
  PROVE  /\ Kept(now) \in [Client -> Entry \cup {None}]
         /\ \A c \in Client : Kept(now)[c] \in {entries[c], None}
  BY DEF LimiterTypeOK, Kept

LEMMA CleanUpType ==
  ASSUME LimiterTypeOK, NEW now \in Nat, CleanUp(now)
  PROVE  lastCleanup' \in Nat
  BY DEF LimiterTypeOK, CleanUp

LEMMA LimiterType ==
  ASSUME LimiterTypeOK, NEW c \in Client, NEW now \in Nat,
         Admit(c, now) \/ Refuse(c, now) \/ PassBy(now)
  PROVE  LimiterTypeOK'
<1>1. CASE Admit(c, now)
  <2>1. CASE entries' = [Kept(now) EXCEPT ![c] = [requests |-> 1, resetAt |-> now + Window]]
    <3>1. [requests |-> 1, resetAt |-> now + Window] \in Entry
      BY LimitAssumption DEF Entry
    <3> QED
      BY <1>1, <2>1, <3>1, KeptType, CleanUpType DEF Admit, LimiterTypeOK
  <2>2. CASE /\ ~Ended(Kept(now)[c], now)
             /\ ~Full(entries[c])
             /\ entries' = [Kept(now) EXCEPT ![c].requests = @ + 1]
    <3>1. Kept(now)[c] = entries[c] /\ entries[c] \in Entry
      BY <2>2, KeptType DEF Ended, LimiterTypeOK
    <3>2. [entries[c] EXCEPT !.requests = @ + 1] \in Entry
      BY <2>2, <3>1, LimitAssumption DEF Full, Entry
    <3> QED
      BY <1>1, <2>2, <3>1, <3>2, KeptType, CleanUpType DEF Admit, LimiterTypeOK
  <2> QED
    BY <1>1, <2>1, <2>2 DEF Admit
<1>2. CASE PassBy(now)
  BY <1>2, KeptType, CleanUpType DEF PassBy, LimiterTypeOK
<1> QED
  BY <1>1, <1>2 DEF Refuse

LEMMA IdleType == Idle \in CallState
  BY DEF Idle, CallState

LEMMA InitType == Init => TypeOK
<1> SUFFICES ASSUME Init PROVE TypeOK
  OBVIOUS
<1>1. LimiterTypeOK
  BY DEF Init, LimiterInit, LimiterTypeOK
<1>2. /\ call \in [Call -> CallState]
      /\ \A h \in Call : call[h].at = "idle"
  BY IdleType DEF Init, Idle
<1> QED
  BY <1>1, <1>2, TimeAssumption DEF Init, TypeOK, Status, Action

CallsOK ==
    /\ call \in [Call -> CallState]
    /\ \A h \in Call : call[h].at # "idle" => call[h].client # None

TablesOK ==
    /\ status \in [Client -> Status]
    /\ lastSeen \in [Client -> Nat \cup {None}]
    /\ audit \in [Client -> [Action -> Nat]]
    /\ deleting \in [Deletion -> Client \cup {None}]

HistoryOK ==
    /\ began \in [Call -> Status]
    /\ served \in [Client -> Nat \cup {None}]
    /\ passed \in [Client -> Seq(0..MaxClock)]
    /\ late \in [Client -> SUBSET (0..MaxClock)]

LEMMA TypeParts ==
    TypeOK <=> clock \in 0..MaxClock /\ TablesOK /\ LimiterTypeOK /\ CallsOK /\ HistoryOK
  BY DEF TypeOK, TablesOK, CallsOK, HistoryOK

LEMMA TypePartsNext ==
  ASSUME clock' \in 0..MaxClock, TablesOK', LimiterTypeOK', CallsOK', HistoryOK'
  PROVE  TypeOK'
  BY DEF TypeOK, TablesOK, CallsOK, HistoryOK

LEMMA CallStep ==
  ASSUME CallsOK, NEW h \in Call, NEW r \in CallState, r.at # "idle" => r.client # None,
         call' = [call EXCEPT ![h] = r]
  PROVE  CallsOK'
  BY DEF CallsOK

LEMMA AnsweredType ==
  ASSUME CallsOK, NEW h \in Call, Answered(h)
  PROVE  CallsOK'
<1>1. Idle.at = "idle"
  BY DEF Idle
<1> QED
  BY <1>1, IdleType, CallStep DEF Answered

\* A call under way moves on; what it changes has the types it should.
LEMMA MoveType ==
  ASSUME CallsOK, NEW h \in Call, call[h].at # "idle",
         NEW place \in {"deciding", "touching", "authenticated", "limiting"},
         NEW seen \in Nat \cup {None}, NEW now \in Nat,
         call' = [call EXCEPT ![h] =
                     [at |-> place, client |-> call[h].client, seen |-> seen, now |-> now]]
  PROVE  CallsOK'
<1> DEFINE r == [at |-> place, client |-> call[h].client, seen |-> seen, now |-> now]
<1>1. call[h].client \in Client
  BY DEF CallsOK, CallState
<1>2. r \in CallState /\ (r.at # "idle" => r.client # None)
  BY <1>1, NoneAssumption DEF CallState
<1> QED
  BY <1>2, CallStep

LEMMA AuthenticatedType ==
  ASSUME CallsOK, HistoryOK, NEW h \in Call, call[h].at # "idle", NEW now \in Nat,
         Authenticated(h, now), UNCHANGED <<began, passed, late>>
  PROVE  CallsOK' /\ HistoryOK'
<1>1. call[h].client \in Client
  BY DEF CallsOK, CallState
<1> DEFINE r == [Idle EXCEPT !.at = "authenticated", !.client = call[h].client]
<1>2. r \in CallState /\ r.client # None
  BY <1>1, NoneAssumption DEF CallState, Idle
<1>3. call' = [call EXCEPT ![h] = r]
  BY DEF Authenticated
<1> HIDE DEF r
<1>5. CallsOK'
  BY <1>2, <1>3, CallStep
<1>4. served' \in [Client -> Nat \cup {None}]
  BY <1>1 DEF Authenticated, HistoryOK
<1> QED
  BY <1>4, <1>5 DEF HistoryOK

LEMMA TouchRowType ==
  ASSUME TablesOK, NEW c \in Client, NEW now \in Nat, TouchRow(c, now) \/ UNCHANGED lastSeen,
         UNCHANGED <<status, audit, deleting>>
  PROVE  TablesOK'
<1>1. CASE TouchRow(c, now)
  BY <1>1 DEF TablesOK, TouchRow
<1> QED
  BY <1>1 DEF TablesOK

LEMMA ClockIsTime ==
  ASSUME clock \in 0..MaxClock
  PROVE  clock \in Nat
  BY TimeAssumption

LEMMA NextType ==
  ASSUME TypeOK, [Next]_vars
  PROVE  TypeOK'
<1>0. clock \in 0..MaxClock /\ TablesOK /\ LimiterTypeOK /\ CallsOK /\ HistoryOK
  BY TypeParts
<1>a. UNCHANGED <<status, lastSeen, audit, deleting>> => TablesOK'
  BY <1>0 DEF TablesOK
<1>b. UNCHANGED <<entries, lastCleanup>> => LimiterTypeOK'
  BY <1>0 DEF LimiterTypeOK
<1>c. UNCHANGED call => CallsOK'
  BY <1>0 DEF CallsOK
<1>d. UNCHANGED <<began, served, passed, late>> => HistoryOK'
  BY <1>0 DEF HistoryOK
<1>e. UNCHANGED clock => clock' \in 0..MaxClock
  BY <1>0
<1> USE TypePartsNext, <1>0, <1>a, <1>b, <1>c, <1>d, <1>e DEF rows, limiter, history
<1>1. CASE Tick
  <2>1. clock' \in 0..MaxClock
    BY <1>1, TimeAssumption DEF Tick
  <2> QED
    BY <1>1, <2>1 DEF Tick
<1>2. CASE OtherAllow
  <2>1. PICK now \in 0..clock : PassBy(now)
    BY <1>2 DEF OtherAllow
  <2>2. LimiterTypeOK'
    BY <2>1, KeptType, CleanUpType DEF PassBy, LimiterTypeOK
  <2> QED
    BY <1>2, <2>2 DEF OtherAllow
<1>3. ASSUME NEW c \in Client, CreateClientInstallation(c) \/ RevokeClientInstallation(c)
      PROVE  TypeOK'
  <2>1. status' \in [Client -> Status]
    BY <1>3 DEF CreateClientInstallation, RevokeClientInstallation, TablesOK, Status
  <2>2. audit' \in [Client -> [Action -> Nat]]
    BY <1>3 DEF CreateClientInstallation, RevokeClientInstallation, TablesOK, Audited, Action
  <2>3. UNCHANGED <<clock, lastSeen, limiter, call, deleting, history>>
    BY <1>3 DEF CreateClientInstallation, RevokeClientInstallation
  <2>4. TablesOK'
    BY <2>1, <2>2, <2>3 DEF TablesOK
  <2> QED
    BY <2>3, <2>4
<1>4. ASSUME NEW d \in Deletion, NEW c \in Client, CheckDeletion(d, c)
      PROVE  TypeOK'
  <2>1. TablesOK'
    BY <1>4 DEF CheckDeletion, TablesOK, rows
  <2> QED
    BY <1>4, <2>1 DEF CheckDeletion
<1>5. ASSUME NEW d \in Deletion, DeleteClientInstallation(d)
      PROVE  TypeOK'
  <2>1. deleting[d] \in Client
    BY <1>5 DEF DeleteClientInstallation, TablesOK
  <2>2. TablesOK'
    BY <1>5, <2>1 DEF DeleteClientInstallation, Audited, TablesOK, Status, Action
  <2> QED
    BY <1>5, <2>2 DEF DeleteClientInstallation
<1>6. ASSUME NEW d \in Deletion, DeletionFails(d)
      PROVE  TypeOK'
  <2>1. TablesOK'
    BY <1>6 DEF DeletionFails, TablesOK, rows
  <2> QED
    BY <1>6, <2>1 DEF DeletionFails
<1>7. ASSUME NEW h \in Call, NEW c \in Client, Request(h, c)
      PROVE  TypeOK'
  <2> DEFINE r == [Idle EXCEPT !.at = "finding", !.client = c]
  <2>1. r \in CallState /\ r.client # None
    BY NoneAssumption DEF CallState, Idle
  <2>2. CallsOK'
    BY <1>7, <2>1, CallStep DEF Request
  <2>3. HistoryOK'
    BY <1>7 DEF Request, HistoryOK, TablesOK
  <2> QED
    BY <1>7, <2>2, <2>3 DEF Request
<1>8. ASSUME NEW h \in Call, FindInstallation(h)
      PROVE  TypeOK'
  <2>1. call[h] \in CallState /\ call[h].client \in Client
    BY <1>8 DEF FindInstallation, CallsOK, CallState
  <2>2. CASE status[call[h].client] = "active"
    <3>1. call' = [call EXCEPT ![h] = [at |-> "deciding", client |-> call[h].client,
                                      seen |-> lastSeen[call[h].client], now |-> call[h].now]]
      BY <1>8, <2>1, <2>2 DEF FindInstallation, CallsOK, CallState
    <3>2. lastSeen[call[h].client] \in Nat \cup {None} /\ call[h].now \in Nat
      BY <2>1 DEF TablesOK, CallState
    <3>3. CallsOK'
      BY <1>8, <3>1, <3>2, MoveType DEF FindInstallation
    <3> QED
      BY <1>8, <3>3 DEF FindInstallation
  <2>3. CASE status[call[h].client] # "active"
    <3>1. CallsOK'
      BY <1>8, <2>3, AnsweredType DEF FindInstallation
    <3> QED
      BY <1>8, <3>1 DEF FindInstallation
  <2> QED
    BY <2>2, <2>3
<1>9. ASSUME NEW h \in Call, Decide(h)
      PROVE  TypeOK'
  <2>1. CASE Due(call[h].seen)
    <3>1. /\ call' = [call EXCEPT ![h] = [at |-> "touching", client |-> call[h].client,
                                      seen |-> call[h].seen, now |-> clock]]
          /\ call[h].seen \in Nat \cup {None}
      BY <1>9, <2>1 DEF Decide, CallsOK, CallState
    <3>2. CallsOK'
      BY <1>9, <3>1, ClockIsTime, MoveType DEF Decide
    <3>3. HistoryOK'
      BY <1>9, <2>1 DEF Decide, HistoryOK
    <3> QED
      BY <1>9, <3>2, <3>3 DEF Decide
  <2>2. CASE ~Due(call[h].seen)
    <3>1. CallsOK' /\ HistoryOK'
      BY <1>9, <2>2, ClockIsTime, AuthenticatedType DEF Decide
    <3> QED
      BY <1>9, <3>1 DEF Decide
  <2> QED
    BY <2>1, <2>2
<1>10. ASSUME NEW h \in Call, TouchClientInstallation(h)
       PROVE  TypeOK'
  <2>1. call[h].client \in Client /\ call[h].now \in Nat
    BY <1>10 DEF TouchClientInstallation, CallsOK, CallState
  <2>2. TablesOK'
    BY <1>10, <2>1, TouchRowType DEF TouchClientInstallation
  <2>3. CallsOK' /\ HistoryOK'
    <3>1. CASE Authenticated(h, call[h].now)
      BY <1>10, <2>1, <3>1, AuthenticatedType DEF TouchClientInstallation
    <3>2. CASE Answered(h) /\ UNCHANGED served
      BY <1>10, <3>2, AnsweredType DEF TouchClientInstallation, HistoryOK
    <3> QED
      BY <1>10, <3>1, <3>2 DEF TouchClientInstallation
  <2> QED
    BY <1>10, <2>2, <2>3 DEF TouchClientInstallation
<1>11. ASSUME NEW h \in Call, CallFails(h)
       PROVE  TypeOK'
  <2>1. call[h].client \in Client /\ call[h].now \in Nat
    BY <1>11 DEF CallFails, CallsOK, CallState
  <2>2. TablesOK'
    BY <1>11, <2>1, TouchRowType DEF CallFails
  <2>3. CallsOK'
    BY <1>11, AnsweredType DEF CallFails
  <2> QED
    BY <1>11, <2>2, <2>3 DEF CallFails
<1>12. ASSUME NEW h \in Call, AskLimiter(h)
       PROVE  TypeOK'
  <2>0. call[h] \in CallState /\ call[h].client # None
    BY <1>12 DEF AskLimiter, CallsOK
  <2> DEFINE r == [call[h] EXCEPT !.at = "limiting", !.now = clock]
  <2>1. r \in CallState /\ r.client = call[h].client
    BY <2>0, ClockIsTime DEF CallState
  <2>3. call' = [call EXCEPT ![h] = r]
    BY <1>12, <2>0 DEF AskLimiter, CallsOK
  <2> HIDE DEF r
  <2>2. CallsOK'
    BY <2>0, <2>1, <2>3, CallStep
  <2> QED
    BY <1>12, <2>2 DEF AskLimiter
<1>13. ASSUME NEW h \in Call, Allow(h)
       PROVE  TypeOK'
  <2> DEFINE c == call[h].client
  <2>1. c \in Client /\ call[h].now \in Nat
    BY <1>13 DEF Allow, CallsOK, CallState
  <2>2. LimiterTypeOK'
    BY <1>13, <2>1, LimiterType DEF Allow
  <2>3. CallsOK'
    BY <1>13, AnsweredType DEF Allow
  <2>4. passed' \in [Client -> Seq(0..MaxClock)]
    <3>1. Append(passed[c], clock) \in Seq(0..MaxClock)
      BY <2>1 DEF HistoryOK
    <3>2. passed' \in {passed, [passed EXCEPT ![c] = Append(passed[c], clock)]}
      BY <1>13, <2>1 DEF Allow, HistoryOK
    <3> QED
      BY <2>1, <3>1, <3>2 DEF HistoryOK
  <2>5. late' \in [Client -> SUBSET (0..MaxClock)]
    <3>1. late' \in {late, [late EXCEPT ![c] = late[c] \cup {clock}]}
      BY <1>13, <2>1 DEF Allow, HistoryOK
    <3>2. late[c] \cup {clock} \in SUBSET (0..MaxClock)
      BY <2>1 DEF HistoryOK
    <3> QED
      BY <2>1, <3>1, <3>2 DEF HistoryOK
  <2>6. HistoryOK'
    BY <1>13, <2>4, <2>5 DEF Allow, HistoryOK
  <2> QED
    BY <1>13, <2>2, <2>3, <2>6 DEF Allow
<1>14. CASE UNCHANGED vars
  BY <1>14 DEF vars
<1> QED
  BY <1>1, <1>2, <1>3, <1>4, <1>5, <1>6, <1>7, <1>8, <1>9, <1>10, <1>11, <1>12, <1>13, <1>14
  DEF Next

\* The tables, the calls and the limiter hold what their columns and fields may
\* hold, for every instance (client_store.go, client_rate_limit.go).
THEOREM TypeCorrect == Spec => []TypeOK
<1>1. Init => TypeOK
  BY InitType
<1>2. TypeOK /\ [Next]_vars => TypeOK'
  BY NextType
<1> QED
  BY <1>1, <1>2, PTL DEF Spec

-------------------------------------------------------------------------------
(* The operator's changes and the audit trail.                             *)

\* Only the operator changes a status, an event or a deletion in progress.
LEMMA OperatorStep ==
  ASSUME [Next]_vars
  PROVE  \/ \E c \in Client : CreateClientInstallation(c) \/ RevokeClientInstallation(c)
         \/ \E d \in Deletion :
               \/ \E c \in Client : CheckDeletion(d, c)
               \/ DeleteClientInstallation(d) \/ DeletionFails(d)
         \/ UNCHANGED <<status, audit, deleting>>
  BY DEF Next, vars, rows, Tick, OtherAllow, Request, FindInstallation, Decide,
         TouchClientInstallation, CallFails, AskLimiter, Allow

LEMMA AuditInit == Init => AuditInv
  BY DEF Init, AuditInv, DeletionsAreOfRevoked, AuditAgrees, Action

LEMMA AuditNext ==
  ASSUME TypeOK, AuditInv, [Next]_vars
  PROVE  AuditInv'
<1>0. /\ status \in [Client -> Status]
      /\ audit \in [Client -> [Action -> Nat]]
      /\ deleting \in [Deletion -> Client \cup {None}]
  BY DEF TypeOK
<1> USE <1>0 DEF AuditInv, DeletionsAreOfRevoked, AuditAgrees, Audited, Action, Status
<1>1. ASSUME NEW c \in Client, CreateClientInstallation(c) \/ RevokeClientInstallation(c)
      PROVE  AuditInv'
  BY <1>1 DEF CreateClientInstallation, RevokeClientInstallation
<1>2. ASSUME NEW d \in Deletion, NEW c \in Client, CheckDeletion(d, c)
      PROVE  AuditInv'
  BY <1>2 DEF CheckDeletion, rows
<1>3. ASSUME NEW d \in Deletion, DeleteClientInstallation(d)
      PROVE  AuditInv'
  BY <1>3 DEF DeleteClientInstallation
<1>4. ASSUME NEW d \in Deletion, DeletionFails(d)
      PROVE  AuditInv'
  BY <1>4 DEF DeletionFails, rows
<1>5. CASE UNCHANGED <<status, audit, deleting>>
  BY <1>5
<1> QED
  BY <1>1, <1>2, <1>3, <1>4, <1>5, OperatorStep

\* The audit trail of an installation agrees with its row, for any number of
\* deletions at once (client_store.go).
THEOREM AuditTrail == Spec => []AuditAgrees
<1>1. Init => TypeOK /\ AuditInv
  BY InitType, AuditInit
<1>2. TypeOK /\ AuditInv /\ [Next]_vars => TypeOK' /\ AuditInv'
  BY NextType, AuditNext
<1>3. AuditInv => AuditAgrees
  BY DEF AuditInv
<1> QED
  BY <1>1, <1>2, <1>3, PTL DEF Spec

-------------------------------------------------------------------------------
(* Who is let through.                                                     *)

\* What a step does to the table of installations.
LEMMA StatusStep ==
  ASSUME TypeOK, AuditInv, [Next]_vars, NEW c \in Client
  PROVE  \/ status'[c] = status[c]
         \/ status[c] = "absent" /\ status'[c] = "active"
         \/ status[c] = "active" /\ status'[c] = "revoked"
         \/ status[c] \in {"revoked", "deleted"} /\ status'[c] = "deleted"
  BY OperatorStep DEF TypeOK, CreateClientInstallation, RevokeClientInstallation, CheckDeletion,
     DeleteClientInstallation, DeletionFails, rows, AuditInv, DeletionsAreOfRevoked

\* What a step does to a call and to what was known when it began.
LEMMA CallEntersOrGoesOn ==
  ASSUME TypeOK, [Next]_vars, NEW h \in Call
  PROVE  \/ call'[h] = call[h] /\ began'[h] = began[h]
         \/ call'[h].at = "idle" /\ began'[h] = began[h]
         \/ /\ call'[h].at = "finding"
            /\ call'[h].client \in Client
            /\ status'[call'[h].client] = began'[h]
            /\ began'[h] # "absent"
         \/ /\ call[h].at = "finding"
            /\ status[call[h].client] = "active"
            /\ call'[h].at = "deciding"
            /\ call'[h].client = call[h].client
            /\ call'[h].seen = lastSeen[call[h].client]
            /\ began'[h] = began[h]
         \/ /\ call[h].at \notin {"idle", "finding"}
            /\ call'[h].at \notin {"idle", "finding", "deciding"}
            /\ call'[h].client = call[h].client
            /\ began'[h] = began[h]
<1>0. call \in [Call -> CallState] /\ began \in [Call -> Status] /\ status \in [Client -> Status]
  BY DEF TypeOK
<1>i. Idle.at = "idle" /\ Idle \in CallState
  BY IdleType DEF Idle
<1> USE <1>0, <1>i DEF history, rows
<1>1. CASE UNCHANGED <<call, began>>
  BY <1>1
<1>2. ASSUME NEW g \in Call, NEW c \in Client, Request(g, c)
      PROVE  \/ g # h /\ call'[h] = call[h] /\ began'[h] = began[h]
             \/ /\ call'[h].at = "finding"
                /\ call'[h].client \in Client
                /\ status'[call'[h].client] = began'[h]
                /\ began'[h] # "absent"
  <2>1. CASE g # h
    BY <1>2, <2>1 DEF Request
  <2>2. CASE g = h
    <3>1. call'[h] = [Idle EXCEPT !.at = "finding", !.client = c]
      BY <1>2, <2>2 DEF Request
    <3>2. call'[h].at = "finding" /\ call'[h].client = c
      BY <3>1 DEF Idle
    <3> QED
      BY <1>2, <2>2, <3>2 DEF Request
  <2> QED
    BY <2>1, <2>2
<1>3. ASSUME NEW g \in Call, Answered(g), UNCHANGED began
      PROVE  call'[h] = call[h] \/ call'[h].at = "idle"
  BY <1>3 DEF Answered
<1>4. ASSUME NEW g \in Call, NEW now, call[g].at \notin {"idle", "finding"},
             Authenticated(g, now), UNCHANGED began
      PROVE  \/ g # h /\ call'[h] = call[h]
             \/ /\ g = h
                /\ call'[h].at \notin {"idle", "finding", "deciding"}
                /\ call'[h].client = call[h].client
  <2>1. CASE g # h
    BY <1>4, <2>1 DEF Authenticated
  <2>2. CASE g = h
    <3>1. call'[h] = [Idle EXCEPT !.at = "authenticated", !.client = call[h].client]
      BY <1>4, <2>2 DEF Authenticated
    <3> QED
      BY <2>2, <3>1 DEF Idle
  <2> QED
    BY <2>1, <2>2
<1>5. ASSUME NEW g \in Call, FindInstallation(g)
      PROVE  \/ call'[h] = call[h]
             \/ call'[h].at = "idle"
             \/ /\ call[h].at = "finding"
                /\ status[call[h].client] = "active"
                /\ call'[h].at = "deciding"
                /\ call'[h].client = call[h].client
                /\ call'[h].seen = lastSeen[call[h].client]
  <2>1. CASE Answered(g)
    BY <1>5, <2>1, <1>3 DEF FindInstallation
  <2>2. CASE /\ status[call[g].client] = "active"
             /\ call' = [call EXCEPT ![g].at = "deciding",
                                     ![g].seen = lastSeen[call[g].client]]
    BY <1>5, <2>2 DEF FindInstallation, CallState
  <2> QED
    BY <1>5, <2>1, <2>2 DEF FindInstallation
<1>6. ASSUME NEW g \in Call, Decide(g)
      PROVE  \/ call'[h] = call[h]
             \/ /\ call[h].at \notin {"idle", "finding"}
                /\ call'[h].at \notin {"idle", "finding", "deciding"}
                /\ call'[h].client = call[h].client
  <2>1. CASE Due(call[g].seen)
    BY <1>6, <2>1 DEF Decide, CallState
  <2>2. CASE ~Due(call[g].seen)
    BY <1>6, <2>2, <1>4 DEF Decide
  <2> QED
    BY <2>1, <2>2
<1>7. ASSUME NEW g \in Call, AskLimiter(g)
      PROVE  \/ call'[h] = call[h]
             \/ /\ call[h].at \notin {"idle", "finding"}
                /\ call'[h].at \notin {"idle", "finding", "deciding"}
                /\ call'[h].client = call[h].client
  BY <1>7 DEF AskLimiter, CallState
<1>8. ASSUME NEW g \in Call, TouchClientInstallation(g)
      PROVE  \/ call'[h] = call[h]
             \/ call'[h].at = "idle"
             \/ /\ call[h].at \notin {"idle", "finding"}
                /\ call'[h].at \notin {"idle", "finding", "deciding"}
                /\ call'[h].client = call[h].client
  BY <1>8, <1>3, <1>4 DEF TouchClientInstallation
<1>9. ASSUME NEW g \in Call, CallFails(g) \/ Allow(g)
      PROVE  call'[h] = call[h] \/ call'[h].at = "idle"
  BY <1>9, <1>3 DEF CallFails, Allow
<1>10. /\ Tick => UNCHANGED <<call, began>>
       /\ OtherAllow => UNCHANGED <<call, began>>
       /\ \A c \in Client : CreateClientInstallation(c) \/ RevokeClientInstallation(c)
             => UNCHANGED <<call, began>>
       /\ \A d \in Deletion :
             /\ \A c \in Client : CheckDeletion(d, c) => UNCHANGED <<call, began>>
             /\ DeleteClientInstallation(d) \/ DeletionFails(d) => UNCHANGED <<call, began>>
       /\ UNCHANGED vars => UNCHANGED <<call, began>>
       /\ \A g \in Call :
             FindInstallation(g) \/ Decide(g) \/ TouchClientInstallation(g) \/ CallFails(g)
               \/ AskLimiter(g) \/ Allow(g) => UNCHANGED began
  BY DEF vars, Tick, OtherAllow, CreateClientInstallation, RevokeClientInstallation,
         CheckDeletion, DeleteClientInstallation, DeletionFails, FindInstallation, Decide,
         TouchClientInstallation, CallFails, AskLimiter, Allow
<1> QED
  BY <1>1, <1>2, <1>5, <1>6, <1>7, <1>8, <1>9, <1>10 DEF Next

LEMMA AccessInit == Init => AccessInv
  BY DEF Init, Idle, AccessInv, CallsKnow, RevokedIsRefused

LEMMA AccessNext ==
  ASSUME TypeOK, AuditInv, AccessInv, [Next]_vars
  PROVE  AccessInv'
<1> SUFFICES ASSUME NEW h \in Call
             PROVE  /\ call'[h].at # "idle" => status'[call'[h].client] # "absent"
                    /\ call'[h].at = "finding" /\ began'[h] # "active" =>
                          status'[call'[h].client] \in {"revoked", "deleted"}
                    /\ began'[h] # "active" => call'[h].at \in {"idle", "finding"}
  BY DEF AccessInv, CallsKnow, RevokedIsRefused
<1>1. /\ call[h].at # "idle" => status[call[h].client] # "absent"
      /\ call[h].at = "finding" /\ began[h] # "active" =>
            status[call[h].client] \in {"revoked", "deleted"}
      /\ began[h] # "active" => call[h].at \in {"idle", "finding"}
  BY DEF AccessInv, CallsKnow, RevokedIsRefused
<1>2. call[h].at # "idle" => call[h].client \in Client
  BY DEF TypeOK, CallState
<1>3. began[h] \in Status /\ began'[h] \in Status
  BY NextType DEF TypeOK
<1>4. CASE call'[h] = call[h] /\ began'[h] = began[h]
  <2>1. CASE call[h].at = "idle"
    BY <1>4, <2>1
  <2>2. CASE call[h].at # "idle"
    BY <1>1, <1>2, <1>4, <2>2, StatusStep
  <2> QED
    BY <2>1, <2>2
<1>5. CASE call'[h].at = "idle"
  BY <1>5
<1>6. CASE /\ call'[h].at = "finding"
           /\ status'[call'[h].client] = began'[h]
           /\ began'[h] # "absent"
  BY <1>3, <1>6 DEF Status
<1>7. CASE /\ call[h].at = "finding"
           /\ status[call[h].client] = "active"
           /\ call'[h].at = "deciding"
           /\ call'[h].client = call[h].client
           /\ began'[h] = began[h]
  BY <1>1, <1>2, <1>7, StatusStep
<1>8. CASE /\ call[h].at \notin {"idle", "finding"}
           /\ call'[h].at \notin {"idle", "finding", "deciding"}
           /\ call'[h].client = call[h].client
           /\ began'[h] = began[h]
  BY <1>1, <1>2, <1>8, StatusStep
<1> QED
  BY <1>4, <1>5, <1>6, <1>7, <1>8, CallEntersOrGoesOn

\* A call that begins after its client was revoked is never let through, in any
\* interleaving with revocations and deletions (client_auth.go Authenticate).
THEOREM RevokedRefused == Spec => []RevokedIsRefused
<1>1. Init => TypeOK /\ AuditInv /\ AccessInv
  BY InitType, AuditInit, AccessInit
<1>2. TypeOK /\ AuditInv /\ AccessInv /\ [Next]_vars => TypeOK' /\ AuditInv' /\ AccessInv'
  BY NextType, AuditNext, AccessNext
<1>3. AccessInv => RevokedIsRefused
  BY DEF AccessInv
<1> QED
  BY <1>1, <1>2, <1>3, PTL DEF Spec

-------------------------------------------------------------------------------
(* What is recorded of a client's last use.                                *)

\* What a step does to the recorded sight of a client.
LEMMA LastSeenStep ==
  ASSUME TypeOK, AuditInv, [Next]_vars, NEW c \in Client
  PROVE  \/ lastSeen'[c] = lastSeen[c]
         \/ status'[c] = "deleted"
         \/ /\ status[c] = "active"
            /\ lastSeen'[c] \in Nat
            /\ lastSeen[c] = None \/ lastSeen[c] < lastSeen'[c]
<1>0. status \in [Client -> Status] /\ lastSeen \in [Client -> Nat \cup {None}]
  BY DEF TypeOK
<1>1. ASSUME NEW b \in Client, NEW now \in Nat, TouchRow(b, now)
      PROVE  \/ lastSeen'[c] = lastSeen[c]
             \/ /\ status[c] = "active"
                /\ lastSeen'[c] \in Nat
                /\ lastSeen[c] = None \/ lastSeen[c] < lastSeen'[c]
  BY <1>0, <1>1 DEF TouchRow
<1>2. ASSUME NEW h \in Call, TouchClientInstallation(h) \/ CallFails(h)
      PROVE  \/ lastSeen'[c] = lastSeen[c]
             \/ /\ status[c] = "active"
                /\ lastSeen'[c] \in Nat
                /\ lastSeen[c] = None \/ lastSeen[c] < lastSeen'[c]
  <2>1. call[h].at # "idle" => call[h].client \in Client /\ call[h].now \in Nat
    BY DEF TypeOK, CallState
  <2> QED
    BY <1>1, <1>2, <2>1 DEF TouchClientInstallation, CallFails
<1>3. ASSUME NEW d \in Deletion, DeleteClientInstallation(d)
      PROVE  lastSeen'[c] = lastSeen[c] \/ status'[c] = "deleted"
  BY <1>0, <1>3 DEF DeleteClientInstallation
<1> QED
  BY <1>2, <1>3 DEF Next, vars, rows, Tick, OtherAllow, CreateClientInstallation,
     RevokeClientInstallation, CheckDeletion, DeletionFails, Request, FindInstallation, Decide,
     AskLimiter, Allow

\* The recorded sight of a client never goes back, and that of a revoked one is
\* frozen, however late a touch lands (client_store.go TouchClientInstallation).
THEOREM LastSeenMoves == Spec => LastSeenMovesOn
<1>1. Init => TypeOK /\ AuditInv
  BY InitType, AuditInit
<1>2. TypeOK /\ AuditInv /\ [Next]_vars => TypeOK' /\ AuditInv'
  BY NextType, AuditNext
<1>3. TypeOK /\ AuditInv /\ [Next]_vars =>
        [\A c \in Client : lastSeen'[c] # lastSeen[c] =>
            \/ status'[c] = "deleted"
            \/ /\ status[c] = "active"
               /\ lastSeen[c] = None \/ lastSeen[c] < lastSeen'[c]]_vars
  BY LastSeenStep
<1> QED
  BY <1>1, <1>2, <1>3, PTL DEF Spec, LastSeenMovesOn

LEMMA SightInit == Init => SightInv
  BY DEF Init, Idle, SightInv, SeenIsPast, NobodyUnknownIsServed, LastSeenIsRecent

\* A call that is let through was its client's not a whole interval after what
\* is recorded of it, unless the client has been deleted.
LEMMA ServedStep ==
  ASSUME TypeOK, AccessInv, SightInv, [Next]_vars, NEW c \in Client
  PROVE  \/ served'[c] = served[c]
         \/ /\ status[c] # "absent"
            /\ served'[c] \in Nat
            /\ status'[c] = status[c]
            /\ status[c] \in {"active", "revoked"} =>
                  lastSeen'[c] # None /\ served'[c] < lastSeen'[c] + TouchInterval
<1>0. /\ status \in [Client -> Status] /\ lastSeen \in [Client -> Nat \cup {None}]
      /\ served \in [Client -> Nat \cup {None}]
      /\ clock \in Nat /\ call \in [Call -> CallState]
  BY ClockIsTime DEF TypeOK
<1>a. \A h \in Call : call[h].at # "idle" =>
         /\ call[h].client \in Client /\ call[h].now \in Nat
         /\ call[h].seen \in Nat \cup {None}
         /\ status[call[h].client] # "absent"
  BY <1>0 DEF TypeOK, CallState, AccessInv, CallsKnow
<1> USE <1>0, TimeAssumption
<1>1. ASSUME NEW h \in Call, Decide(h)
      PROVE  \/ served'[c] = served[c]
             \/ /\ status[c] # "absent"
                /\ served'[c] \in Nat
                /\ status'[c] = status[c]
                /\ status[c] \in {"active", "revoked"} =>
                      lastSeen'[c] # None /\ served'[c] < lastSeen'[c] + TouchInterval
  <2>1. CASE Due(call[h].seen) \/ c # call[h].client
    BY <1>1, <1>a, <2>1 DEF Decide, Authenticated
  <2>2. CASE ~Due(call[h].seen) /\ c = call[h].client
    <3>1. call[h].seen # None /\ clock < call[h].seen + TouchInterval /\ call[h].seen \in Nat
      BY <1>1, <1>a, <2>2 DEF Due, Decide
    <3>2. UNCHANGED <<status, lastSeen>>
      BY <1>1 DEF Decide, rows
    <3>3. served'[c] = served[c] \/ served'[c] = clock
      BY <1>1, <2>2 DEF Decide, Authenticated
    <3>4. status[c] \in {"active", "revoked"} =>
            lastSeen[c] # None /\ call[h].seen <= lastSeen[c]
      BY <1>1, <2>2, <3>1 DEF Decide, SightInv, SeenIsPast
    <3> QED
      BY <1>1, <1>a, <2>2, <3>1, <3>2, <3>3, <3>4 DEF Decide
  <2> QED
    BY <2>1, <2>2
<1>2. ASSUME NEW h \in Call, TouchClientInstallation(h)
      PROVE  \/ served'[c] = served[c]
             \/ /\ status[c] # "absent"
                /\ served'[c] \in Nat
                /\ status'[c] = status[c]
                /\ status[c] \in {"active", "revoked"} =>
                      lastSeen'[c] # None /\ served'[c] < lastSeen'[c] + TouchInterval
  <2>0. call[h].client \in Client /\ call[h].now \in Nat
        /\ status[call[h].client] # "absent" /\ UNCHANGED status
    BY <1>2, <1>a DEF TouchClientInstallation
  <2>1. CASE UNCHANGED served \/ c # call[h].client
    BY <1>2, <2>0, <2>1 DEF TouchClientInstallation, Authenticated
  <2>2. CASE /\ TouchRow(call[h].client, call[h].now)
             /\ Authenticated(h, call[h].now)
             /\ c = call[h].client
    <3>1. served'[c] = served[c] \/ served'[c] = call[h].now
      BY <2>2 DEF Authenticated
    <3>2. lastSeen'[c] \in Nat /\ call[h].now <= lastSeen'[c]
      BY <2>0, <2>2 DEF TouchRow
    <3>3. lastSeen'[c] # None
      BY <3>2, NoneAssumption
    <3> QED
      BY <2>0, <2>2, <3>1, <3>2, <3>3
  <2> QED
    BY <1>2, <2>1, <2>2 DEF TouchClientInstallation
<1> QED
  BY <1>1, <1>2 DEF Next, vars, rows, history, Tick, OtherAllow, CreateClientInstallation,
     RevokeClientInstallation, CheckDeletion, DeleteClientInstallation, DeletionFails, Request,
     FindInstallation, CallFails, AskLimiter, Allow

LEMMA SightNext ==
  ASSUME TypeOK, AuditInv, AccessInv, SightInv, [Next]_vars
  PROVE  SightInv'
<1>0. /\ status \in [Client -> Status] /\ lastSeen \in [Client -> Nat \cup {None}]
      /\ served \in [Client -> Nat \cup {None}]
  BY DEF TypeOK
<1>n. lastSeen' \in [Client -> Nat \cup {None}]
  BY NextType DEF TypeOK
<1> USE <1>0, <1>n, NoneAssumption, TimeAssumption
<1>1. SeenIsPast'
  <2> SUFFICES ASSUME NEW h \in Call, call'[h].at = "deciding", call'[h].seen # None,
                      status'[call'[h].client] \in {"active", "revoked"}
               PROVE  /\ lastSeen'[call'[h].client] # None
                      /\ call'[h].seen <= lastSeen'[call'[h].client]
    BY DEF SeenIsPast
  <2>1. CASE call'[h] = call[h]
    <3>1. /\ call[h].client \in Client /\ call[h].seen \in Nat
          /\ status[call[h].client] # "absent"
      BY <2>1 DEF TypeOK, CallState, AccessInv, CallsKnow
    <3>2. status[call[h].client] \in {"active", "revoked"}
      BY <2>1, <3>1, StatusStep
    <3>3. lastSeen[call[h].client] # None /\ call[h].seen <= lastSeen[call[h].client]
      BY <2>1, <3>2 DEF SightInv, SeenIsPast
    <3> QED
      BY <2>1, <3>1, <3>3, LastSeenStep
  <2>2. CASE /\ call[h].at = "finding"
             /\ call'[h].client = call[h].client
             /\ call'[h].seen = lastSeen[call[h].client]
    <3>1. call[h].client \in Client
      BY <2>2 DEF TypeOK, CallState
    <3> QED
      BY <2>2, <3>1, LastSeenStep
  <2> QED
    BY <2>1, <2>2, CallEntersOrGoesOn
<1>2. NobodyUnknownIsServed'
  BY StatusStep, ServedStep DEF SightInv, NobodyUnknownIsServed
<1>3. LastSeenIsRecent'
  <2> SUFFICES ASSUME NEW c \in Client, status'[c] \in {"active", "revoked"}, served'[c] # None
               PROVE  lastSeen'[c] # None /\ served'[c] < lastSeen'[c] + TouchInterval
    BY DEF LastSeenIsRecent
  <2>1. CASE served'[c] = served[c]
    <3>1. status[c] # "absent"
      BY <2>1 DEF SightInv, NobodyUnknownIsServed
    <3>2. status[c] \in {"active", "revoked"}
      BY <3>1, StatusStep
    <3>3. /\ lastSeen[c] # None /\ served[c] < lastSeen[c] + TouchInterval
          /\ served[c] \in Nat /\ lastSeen[c] \in Nat
      BY <2>1, <3>2 DEF SightInv, LastSeenIsRecent
    <3> QED
      BY <2>1, <3>3, LastSeenStep
  <2> QED
    BY <2>1, ServedStep
<1> QED
  BY <1>1, <1>2, <1>3 DEF SightInv

\* The recorded last use of a client that was let through is never a whole
\* interval old, although most calls write nothing (client/service.go
\* Authenticate, client_store.go TouchClientInstallation).
THEOREM SightIsRecent == Spec => []LastSeenIsRecent
<1>1. Init => TypeOK /\ AuditInv /\ AccessInv /\ SightInv
  BY InitType, AuditInit, AccessInit, SightInit
<1>2. TypeOK /\ AuditInv /\ AccessInv /\ SightInv /\ [Next]_vars
        => TypeOK' /\ AuditInv' /\ AccessInv' /\ SightInv'
  BY NextType, AuditNext, AccessNext, SightNext
<1>3. SightInv => LastSeenIsRecent
  BY DEF SightInv
<1> QED
  BY <1>1, <1>2, <1>3, PTL DEF Spec

-------------------------------------------------------------------------------
(* The limiter.                                                            *)

LEMMA HitsAreFinite ==
  ASSUME NEW times, NEW m \in Nat, NEW T
  PROVE  /\ IsFiniteSet(Hits(times, m, T))
         /\ Cardinality(Hits(times, m, T)) \in Nat
<1>1. IsFiniteSet(1..m) /\ Hits(times, m, T) \subseteq 1..m
  BY FS_Interval DEF Hits
<1> QED
  BY <1>1, FS_Subset, FS_CardinalityType

LEMMA IntervalSize ==
  ASSUME NEW k \in Nat, NEW m \in Nat, k <= m
  PROVE  IsFiniteSet((k + 1)..m) /\ Cardinality((k + 1)..m) = m - k
<1> DEFINE a == k + 1
<1>1. a \in Int /\ m \in Int
  OBVIOUS
<1> HIDE DEF a
<1>2. IsFiniteSet(a..m) /\ Cardinality(a..m) = IF a > m THEN 0 ELSE m - a + 1
  BY <1>1, FS_Interval
<1>3. (IF a > m THEN 0 ELSE m - a + 1) = m - k
  BY DEF a
<1> QED
  BY <1>2, <1>3 DEF a

\* Among m - k times at most m - k are in T ...
LEMMA HitsAtMost ==
  ASSUME NEW times, NEW k \in Nat, NEW m \in Nat, k <= m, NEW T
  PROVE  Cardinality(Hits(times, m, T)) <= Cardinality(Hits(times, k, T)) + (m - k)
<1> DEFINE A == Hits(times, k, T)
           B == (k + 1)..m
<1>1. IsFiniteSet(B) /\ Cardinality(B) = m - k
  BY IntervalSize
<1>2. IsFiniteSet(A) /\ Cardinality(A) \in Nat
  BY HitsAreFinite
<1>3. /\ IsFiniteSet(A \cup B)
      /\ Cardinality(A \cup B) = Cardinality(A) + Cardinality(B) - Cardinality(A \cap B)
  BY <1>1, <1>2, FS_Union
<1>4. Cardinality(A \cap B) \in Nat
  BY <1>2, FS_Subset, FS_CardinalityType
<1>5. Hits(times, m, T) \subseteq A \cup B
  BY DEF Hits
<1>6. Cardinality(Hits(times, m, T)) <= Cardinality(A \cup B)
  BY <1>3, <1>5, FS_Subset
<1>7. Cardinality(Hits(times, m, T)) \in Nat /\ Cardinality(A \cup B) \in Nat
  BY <1>3, HitsAreFinite, FS_CardinalityType
<1> QED
  BY <1>1, <1>2, <1>3, <1>4, <1>6, <1>7

\* ... and all of them count if all are.
LEMMA HitsAtLeast ==
  ASSUME NEW times, NEW k \in Nat, NEW m \in Nat, k <= m, NEW T,
         \A n \in (k + 1)..m : times[n] \in T
  PROVE  m - k <= Cardinality(Hits(times, m, T))
<1>1. Cardinality((k + 1)..m) = m - k
  BY IntervalSize
<1>2. (k + 1)..m \subseteq Hits(times, m, T)
  BY DEF Hits
<1>3. IsFiniteSet(Hits(times, m, T))
  BY HitsAreFinite
<1> QED
  BY <1>1, <1>2, <1>3, FS_Subset

LEMMA NoHits ==
  ASSUME NEW times, NEW k \in Nat, NEW m \in Nat, k <= m, NEW T,
         \A n \in 1..k : times[n] \notin T
  PROVE  Cardinality(Hits(times, m, T)) <= m - k
<1>1. Hits(times, k, T) = {}
  BY DEF Hits
<1>2. Cardinality(Hits(times, k, T)) = 0
  BY <1>1, FS_EmptySet
<1>3. Cardinality(Hits(times, m, T)) \in Nat
  BY HitsAreFinite
<1> QED
  BY <1>2, <1>3, HitsAtMost

LEMMA HitsOfAppend ==
  ASSUME NEW S, NEW times \in Seq(S), NEW x, NEW m \in 0..Len(times), NEW T
  PROVE  Hits(Append(times, x), m, T) = Hits(times, m, T)
  BY DEF Hits

LEMMA OneMoreHit ==
  ASSUME NEW S, NEW times \in Seq(S), NEW x, NEW T
  PROVE  /\ Cardinality(Hits(Append(times, x), Len(times) + 1, T))
              <= Cardinality(Hits(times, Len(times), T)) + 1
         /\ x \notin T => Hits(Append(times, x), Len(times) + 1, T) = Hits(times, Len(times), T)
<1>1. Hits(Append(times, x), Len(times), T) = Hits(times, Len(times), T)
  BY HitsOfAppend
<1>2. Len(times) \in Nat
  OBVIOUS
<1>3. Cardinality(Hits(Append(times, x), Len(times) + 1, T))
         <= Cardinality(Hits(Append(times, x), Len(times), T)) + 1
  <2>1. (Len(times) + 1) - Len(times) = 1
    BY <1>2
  <2> QED
    BY <1>2, <2>1, HitsAtMost, SMTT(30)
<1>4. ASSUME x \notin T
      PROVE  Hits(Append(times, x), Len(times) + 1, T) = Hits(times, Len(times), T)
  BY <1>2, <1>4 DEF Hits
<1> QED
  BY <1>1, <1>3, <1>4

LEMMA PassedInIsHits ==
  ASSUME TypeOK, NEW c \in Client, NEW T
  PROVE  /\ passed[c] \in Seq(0..MaxClock) /\ Len(passed[c]) \in Nat
         /\ PassedIn(c, T) = Cardinality(Hits(passed[c], Len(passed[c]), T))
<1>1. passed[c] \in Seq(0..MaxClock)
  BY DEF TypeOK
<1>2. DOMAIN passed[c] = 1..Len(passed[c]) /\ Len(passed[c]) \in Nat
  BY <1>1
<1> QED
  BY <1>1, <1>2 DEF PassedIn, Hits

\* What a step does to the window of a client: nothing; it drops one that is
\* over; it lets a call through, in a new window or in the one there is.
Drops(c) ==
    /\ entries[c] # None /\ entries[c].resetAt <= clock
    /\ entries'[c] = None
    /\ passed'[c] = passed[c] /\ late'[c] = late[c] /\ clock' = clock

LetsThrough(c, now) ==
    /\ clock' = clock
    /\ passed'[c] = Append(passed[c], clock)
    /\ late'[c] = IF now < clock THEN late[c] \cup {clock} ELSE late[c]

Opens(c, now) ==
    /\ LetsThrough(c, now)
    /\ entries[c] # None => entries[c].resetAt <= now
    /\ entries'[c] = [requests |-> 1, resetAt |-> now + Window]

Joins(c, now) ==
    /\ LetsThrough(c, now)
    /\ entries[c] # None /\ entries[c].requests < Limit
    /\ entries'[c] = [requests |-> entries[c].requests + 1, resetAt |-> entries[c].resetAt]

StaysOrDrops(c) ==
    \/ Drops(c)
    \/ /\ entries'[c] = entries[c]
       /\ passed'[c] = passed[c] /\ late'[c] = late[c]
       /\ clock' \in {clock, clock + 1}

LEMMA KeptStep ==
  ASSUME TypeOK, NEW c \in Client, NEW now \in 0..clock, entries'[c] = Kept(now)[c],
         passed'[c] = passed[c], late'[c] = late[c], clock' = clock
  PROVE  StaysOrDrops(c)
<1>1. clock \in Nat /\ entries[c] \in Entry \cup {None}
  BY TimeAssumption DEF TypeOK, LimiterTypeOK
<1>2. CASE entries[c] = None
  BY <1>2 DEF Kept, StaysOrDrops
<1>3. CASE entries[c] # None
  <2>1. entries[c].resetAt \in Nat
    BY <1>1, <1>3 DEF Entry
  <2> QED
    BY <1>1, <1>3, <2>1 DEF Kept, Ended, StaysOrDrops, Drops
<1> QED
  BY <1>2, <1>3

LEMMA AdmitStep ==
  ASSUME TypeOK, NEW c \in Client, NEW now \in 0..clock, Admit(c, now), LetsThrough(c, now)
  PROVE  Opens(c, now) \/ Joins(c, now)
<1>1. /\ clock \in Nat /\ entries[c] \in Entry \cup {None}
      /\ Kept(now) \in [Client -> Entry \cup {None}]
      /\ Kept(now)[c] = IF CleanupDue(now) /\ Ended(entries[c], now) THEN None ELSE entries[c]
  BY TimeAssumption, KeptType DEF TypeOK, LimiterTypeOK, Kept
<1>2. CASE /\ Ended(Kept(now)[c], now)
           /\ entries' = [Kept(now) EXCEPT ![c] = [requests |-> 1, resetAt |-> now + Window]]
  <2>1. entries'[c] = [requests |-> 1, resetAt |-> now + Window]
    BY <1>1, <1>2
  <2>2. Ended(entries[c], now)
    BY <1>1, <1>2
  <2>3. entries[c] # None => entries[c].resetAt <= now
    BY <1>1, <2>2 DEF Ended, Entry
  <2> QED
    BY <2>1, <2>3 DEF Opens
<1>3. CASE /\ ~Ended(Kept(now)[c], now)
           /\ ~Full(entries[c])
           /\ entries' = [Kept(now) EXCEPT ![c].requests = @ + 1]
  <2>1. Kept(now)[c] # None /\ Kept(now)[c] = entries[c] /\ entries[c] \in Entry
    BY <1>1, <1>3 DEF Ended
  <2>2. entries'[c] = [entries[c] EXCEPT !.requests = @ + 1]
    BY <1>1, <1>3, <2>1
  <2>3. entries[c].requests < Limit
    BY <1>3, <2>1, LimitAssumption DEF Full, Entry
  <2>4. entries'[c] = [requests |-> entries[c].requests + 1, resetAt |-> entries[c].resetAt]
    BY <2>1, <2>2 DEF Entry
  <2> QED
    BY <2>1, <2>3, <2>4 DEF Joins
<1> QED
  BY <1>2, <1>3 DEF Admit

LEMMA AllowStep ==
  ASSUME TypeOK, CallsTookTheirTime, NEW h \in Call, Allow(h), NEW c \in Client
  PROVE  StaysOrDrops(c) \/ \E now \in 0..clock : Opens(c, now) \/ Joins(c, now)
<1> DEFINE d   == call[h].client
           now == call[h].now
<1>1. d \in Client /\ now \in Nat /\ clock \in Nat /\ now \in 0..clock
  BY TimeAssumption DEF TypeOK, CallState, CallsTookTheirTime, Allow
<1>2. /\ entries \in [Client -> Entry \cup {None}]
      /\ passed \in [Client -> Seq(0..MaxClock)] /\ late \in [Client -> SUBSET (0..MaxClock)]
      /\ clock' = clock
  BY DEF TypeOK, LimiterTypeOK, Allow
<1>3. CASE Refuse(d, now) /\ UNCHANGED <<passed, late>>
  <2>1. entries'[c] = Kept(now)[c]
    BY <1>3 DEF Refuse, PassBy
  <2> QED
    BY <1>1, <1>2, <1>3, <2>1, KeptStep
<1>4. CASE /\ Admit(d, now)
           /\ passed' = [passed EXCEPT ![d] = Append(@, clock)]
           /\ late' = [late EXCEPT ![d] = IF now < clock THEN @ \cup {clock} ELSE @]
  <2>1. CASE c = d
    <3>1. LetsThrough(c, now)
      BY <1>1, <1>2, <1>4, <2>1 DEF LetsThrough
    <3> QED
      BY <1>1, <1>4, <2>1, <3>1, AdmitStep
  <2>2. CASE c # d
    <3>1. Kept(now) \in [Client -> Entry \cup {None}]
      BY <1>1, KeptType DEF TypeOK
    <3>2. entries'[c] = Kept(now)[c]
      BY <1>1, <1>4, <2>2, <3>1 DEF Admit
    <3> QED
      BY <1>1, <1>2, <1>4, <2>2, <3>2, KeptStep
  <2> QED
    BY <2>1, <2>2
<1> QED
  BY <1>3, <1>4 DEF Allow

LEMMA WindowStep ==
  ASSUME TypeOK, CallsTookTheirTime, [Next]_vars, NEW c \in Client
  PROVE  StaysOrDrops(c) \/ \E now \in 0..clock : Opens(c, now) \/ Joins(c, now)
<1>1. CASE OtherAllow
  <2>1. PICK now \in 0..clock : entries' = Kept(now)
    BY <1>1 DEF OtherAllow, PassBy
  <2> QED
    BY <1>1, <2>1, KeptStep DEF OtherAllow, history
<1>2. CASE \E h \in Call : Allow(h)
  BY <1>2, AllowStep
<1>3. CASE ~ OtherAllow /\ ~ \E h \in Call : Allow(h)
  <2>1. UNCHANGED <<entries, passed, late>> /\ clock' \in {clock, clock + 1}
    BY <1>3 DEF Next, vars, rows, limiter, history, Tick, CreateClientInstallation,
         RevokeClientInstallation, CheckDeletion, DeleteClientInstallation, DeletionFails,
         Request, FindInstallation, Decide, TouchClientInstallation, CallFails, AskLimiter
  <2> QED
    BY <2>1 DEF StaysOrDrops
<1> QED
  BY <1>1, <1>2, <1>3

ClientOK(c) == InOrder(c) /\ WindowOK(c) /\ NoWindowOK(c) /\ LimitOK(c)

LEMMA WindowFacts ==
  ASSUME TypeOK, NEW c \in Client, entries[c] # None, WindowOK(c)
  PROVE  /\ entries[c].requests \in 1..Limit /\ entries[c].resetAt \in Nat
         /\ Earlier(c) \in Nat /\ Len(passed[c]) \in Nat
         /\ Len(passed[c]) = Earlier(c) + entries[c].requests
         /\ Earlier(c) + 1 \in 1..Len(passed[c])
         /\ Opened(c) \in 0..MaxClock
<1>1. entries[c] \in Entry /\ passed[c] \in Seq(0..MaxClock)
  BY DEF TypeOK, LimiterTypeOK
<1>2. /\ entries[c].requests \in 1..Limit /\ entries[c].resetAt \in Nat
      /\ Len(passed[c]) \in Nat /\ entries[c].requests <= Len(passed[c])
      /\ Limit \in Nat
  BY <1>1, LimitAssumption DEF Entry, WindowOK
<1>3. /\ Earlier(c) \in Nat /\ Len(passed[c]) = Earlier(c) + entries[c].requests
      /\ Earlier(c) + 1 \in 1..Len(passed[c])
  <2> DEFINE r == entries[c].requests
             n == Len(passed[c])
  <2>1. Earlier(c) = n - r /\ r \in Nat \ {0} /\ n \in Nat /\ r <= n
    BY <1>2 DEF Earlier
  <2> HIDE DEF r, n
  <2>2. n - r \in Nat /\ n = (n - r) + r /\ (n - r) + 1 \in 1..n
    BY <2>1
  <2> QED
    BY <2>1, <2>2 DEF r, n
<1>4. Opened(c) \in 0..MaxClock
  <2>1. ASSUME NEW S, NEW times \in Seq(S), NEW n \in 1..Len(times) PROVE times[n] \in S
    OBVIOUS
  <2> QED
    BY <1>1, <1>3, <2>1 DEF Opened
<1> QED
  BY <1>2, <1>3, <1>4

LEMMA IntervalFacts ==
  ASSUME NEW t \in 0..MaxClock, NEW u \in Nat
  PROVE  /\ t \in Nat /\ Window \in Nat \ {0} /\ Limit \in Nat \ {0} /\ MaxClock \in Nat
         /\ u \in Interval(t) <=> t <= u /\ u <= t + Window - 1
  BY LimitAssumption, TimeAssumption DEF Interval

\* A window that is over, or was dropped: an interval of its length that
\* reaches the present holds calls of that window only.
LEMMA EndedIsFew ==
  ASSUME TypeOK, NEW c \in Client, ClientOK(c),
         entries[c] # None => entries[c].resetAt <= clock,
         NEW t \in 0..MaxClock, OnTime(c, t), t + Window - 1 >= clock
  PROVE  PassedIn(c, Interval(t)) <= Limit
<1>1. CASE entries[c] = None
  BY <1>1 DEF ClientOK, NoWindowOK
<1>2. CASE entries[c] # None
  <2> DEFINE o == Opened(c)
  <2>1. /\ entries[c].requests \in 1..Limit /\ entries[c].resetAt \in Nat
        /\ Earlier(c) \in Nat /\ Len(passed[c]) \in Nat
        /\ Len(passed[c]) = Earlier(c) + entries[c].requests
        /\ Earlier(c) + 1 \in 1..Len(passed[c])
        /\ o \in 0..MaxClock
    BY <1>2, WindowFacts DEF ClientOK
  <2>2. /\ clock \in Nat /\ t \in Nat /\ o \in Nat /\ Window \in Nat \ {0} /\ Limit \in Nat
        /\ passed[c] \in Seq(0..MaxClock)
    BY <2>1, LimitAssumption, TimeAssumption DEF TypeOK
  <2>3. o <= clock
    BY <2>1 DEF ClientOK, InOrder, Opened
  <2>4. o < t
    <3>1. SUFFICES ASSUME t <= o PROVE FALSE
      BY <2>2
    <3>2. o \in Interval(t)
      BY <2>2, <2>3, <3>1, IntervalFacts
    <3>3. entries[c].resetAt = o + Window
      BY <1>2, <3>2 DEF ClientOK, WindowOK, OnTime
    <3> QED
      BY <1>2, <2>2, <3>1, <3>3
  <2>5. ASSUME NEW n \in 1..Earlier(c) PROVE passed[c][n] \notin Interval(t)
    <3>1. passed[c][n] <= o /\ passed[c][n] \in Nat
      <4>1. n \in 1..Len(passed[c]) /\ n <= Earlier(c) + 1
        BY <2>1
      <4>2. passed[c][n] \in Nat
        BY <2>2, <4>1, TimeAssumption
      <4>3. passed[c][n] <= passed[c][Earlier(c) + 1]
        BY <2>1, <4>1 DEF ClientOK, InOrder
      <4> QED
        BY <4>2, <4>3 DEF Opened
    <3> QED
      BY <2>2, <2>4, <3>1, IntervalFacts
  <2>6. Cardinality(Hits(passed[c], Len(passed[c]), Interval(t)))
           <= Len(passed[c]) - Earlier(c)
    <3>1. Earlier(c) <= Len(passed[c])
      BY <2>1
    <3> HIDE DEF o
    <3> QED
      BY <2>1, <2>5, <3>1, NoHits
  <2>7. Cardinality(Hits(passed[c], Len(passed[c]), Interval(t))) \in Nat
    BY <2>1, HitsAreFinite
  <2> QED
    BY <2>1, <2>2, <2>6, <2>7, PassedInIsHits, SMTT(30)
<1> QED
  BY <1>1, <1>2

LEMMA ClientStays ==
  ASSUME TypeOK, TypeOK', NEW c \in Client, ClientOK(c), StaysOrDrops(c)
  PROVE  ClientOK(c)'
<1>1. /\ passed'[c] = passed[c] /\ late'[c] = late[c]
      /\ clock \in Nat /\ clock' \in Nat /\ clock <= clock'
      /\ passed[c] \in Seq(0..MaxClock)
      /\ \A n \in 1..Len(passed[c]) : passed[c][n] \in Nat
  BY TimeAssumption DEF StaysOrDrops, Drops, TypeOK
<1>2. InOrder(c)'
  <2>1. \A n \in 1..Len(passed[c]) : passed[c][n] <= clock'
    BY <1>1 DEF ClientOK, InOrder
  <2> QED
    BY <1>1, <2>1 DEF ClientOK, InOrder
<1>3. \A T : PassedIn(c, T)' = PassedIn(c, T)
  BY <1>1 DEF PassedIn
<1>4. LimitOK(c)'
  BY <1>1, <1>3 DEF ClientOK, LimitOK, OnTime
<1>5. CASE Drops(c)
  <2>1. WindowOK(c)'
    BY <1>5 DEF WindowOK, Drops
  <2>2. NoWindowOK(c)'
    BY <1>1, <1>3, <1>5, EndedIsFew DEF NoWindowOK, Drops, OnTime
  <2> QED
    BY <1>2, <1>4, <2>1, <2>2 DEF ClientOK
<1>6. CASE entries'[c] = entries[c]
  <2>1. WindowOK(c)'
    BY <1>1, <1>6 DEF ClientOK, WindowOK, Earlier, Opened, OnTime
  <2>2. NoWindowOK(c)'
    <3>1. SUFFICES ASSUME entries[c] = None, NEW t \in 0..MaxClock, OnTime(c, t),
                          t + Window - 1 >= clock'
                   PROVE  PassedIn(c, Interval(t)) <= Limit
      BY <1>1, <1>3, <1>6 DEF NoWindowOK, OnTime
    <3>2. t + Window - 1 >= clock
      BY <1>1, <3>1, IntervalFacts
    <3> QED
      BY <3>1, <3>2 DEF ClientOK, NoWindowOK
  <2> QED
    BY <1>2, <1>4, <2>1, <2>2 DEF ClientOK
<1> QED
  BY <1>5, <1>6 DEF StaysOrDrops

LEMMA ThroughFacts ==
  ASSUME TypeOK, TypeOK', NEW c \in Client, ClientOK(c), NEW now \in 0..clock,
         LetsThrough(c, now)
  PROVE  /\ clock \in Nat /\ clock' = clock /\ now \in Nat
         /\ Len(passed[c]) \in Nat /\ passed[c] \in Seq(0..MaxClock)
         /\ passed'[c] = Append(passed[c], clock)
         /\ Len(passed'[c]) = Len(passed[c]) + 1
         /\ late[c] \subseteq late'[c]
         /\ \A t : OnTime(c, t)' => OnTime(c, t)
         /\ InOrder(c)'
<1>1. /\ clock \in 0..MaxClock /\ clock \in Nat /\ clock' = clock /\ now \in Nat
      /\ Len(passed[c]) \in Nat /\ passed[c] \in Seq(0..MaxClock)
      /\ passed'[c] = Append(passed[c], clock)
      /\ Len(passed'[c]) = Len(passed[c]) + 1
      /\ late[c] \subseteq late'[c]
  BY TimeAssumption DEF TypeOK, LetsThrough
<1>2. \A t : OnTime(c, t)' => OnTime(c, t)
  BY <1>1 DEF OnTime
<1>3. /\ \A n \in 1..Len(passed[c]) : passed'[c][n] = passed[c][n]
      /\ passed'[c][Len(passed[c]) + 1] = clock
  BY <1>1
<1>4. InOrder(c)'
  <2>1. \A n \in 1..Len(passed'[c]) : passed'[c][n] <= clock'
    BY <1>1, <1>3, SMTT(30) DEF ClientOK, InOrder
  <2>2. ASSUME NEW m \in 1..Len(passed'[c]), NEW n \in 1..Len(passed'[c]), m <= n
        PROVE  passed'[c][m] <= passed'[c][n]
    <3>1. CASE n = Len(passed[c]) + 1
      BY <1>1, <1>3, <2>1, <3>1
    <3>2. CASE n # Len(passed[c]) + 1
      <4>1. m \in 1..Len(passed[c]) /\ n \in 1..Len(passed[c])
        BY <1>1, <2>2, <3>2
      <4> QED
        BY <1>3, <2>2, <4>1 DEF ClientOK, InOrder
    <3> QED
      BY <3>1, <3>2
  <2> QED
    BY <2>1, <2>2 DEF InOrder
<1> QED
  BY <1>1, <1>2, <1>4

LEMMA ClientOpens ==
  ASSUME TypeOK, TypeOK', NEW c \in Client, ClientOK(c), NEW now \in 0..clock, Opens(c, now)
  PROVE  ClientOK(c)'
<1> DEFINE s == passed[c]
<1>1. /\ clock \in Nat /\ clock' = clock /\ now \in Nat /\ now <= clock
      /\ Len(s) \in Nat /\ s \in Seq(0..MaxClock)
      /\ passed'[c] = Append(s, clock) /\ Len(passed'[c]) = Len(s) + 1
      /\ \A t : OnTime(c, t)' => OnTime(c, t)
      /\ InOrder(c)'
      /\ Limit \in Nat \ {0} /\ Window \in Nat \ {0}
  BY ThroughFacts, LimitAssumption DEF Opens
<1>2. /\ entries'[c] = [requests |-> 1, resetAt |-> now + Window]
      /\ entries'[c].requests = 1 /\ entries'[c].resetAt = now + Window
      /\ entries'[c] # None
      /\ entries[c] # None => entries[c].resetAt <= clock
  <2>1. [requests |-> 1, resetAt |-> now + Window] \in Entry
    BY <1>1 DEF Entry
  <2>2. ASSUME entries[c] # None PROVE entries[c].resetAt <= clock
    <3>1. entries[c].resetAt \in Nat /\ entries[c].resetAt <= now
      BY <2>2 DEF Opens, TypeOK, LimiterTypeOK, Entry
    <3> QED
      BY <1>1, <3>1
  <2> QED
    BY <2>1, <2>2, EntryAssumption DEF Opens
<1>3. Earlier(c)' = Len(s) /\ Opened(c)' = clock
  BY <1>1, <1>2 DEF Earlier, Opened
<1>4. ASSUME NEW t \in 0..MaxClock, OnTime(c, t), t + Window - 1 >= clock
      PROVE  Cardinality(Hits(s, Len(s), Interval(t))) <= Limit
  BY <1>2, <1>4, EndedIsFew, PassedInIsHits
<1>5. WindowOK(c)'
  <2>1. clock \notin late'[c] => now = clock
    BY <1>1 DEF Opens, LetsThrough
  <2>2. ASSUME NEW t \in 0..MaxClock, OnTime(c, t)', t + Window - 1 >= clock
        PROVE  Cardinality(Hits(passed'[c], Len(s), Interval(t))) <= Limit
    <3>1. Hits(passed'[c], Len(s), Interval(t)) = Hits(s, Len(s), Interval(t))
      BY <1>1, HitsOfAppend
    <3> QED
      BY <1>1, <1>4, <2>2, <3>1
  <2>3. entries'[c].requests <= Len(passed'[c])
    BY <1>1, <1>2
  <2>4. entries'[c].resetAt <= clock + Window
    BY <1>1, <1>2
  <2>5. clock \notin late'[c] => entries'[c].resetAt = clock + Window
    BY <1>2, <2>1
  <2> QED
    BY <1>3, <2>2, <2>3, <2>4, <2>5 DEF WindowOK
<1>6. NoWindowOK(c)'
  BY <1>2 DEF NoWindowOK
<1>7. ASSUME NEW t \in 0..MaxClock, OnTime(c, t)'
      PROVE  (PassedIn(c, Interval(t)))' <= 2 * Limit
  <2> DEFINE T == Interval(t)
             k == Cardinality(Hits(s, Len(s), T))
             l == Cardinality(Hits(passed'[c], Len(s) + 1, T))
  <2>1. k \in Nat /\ l \in Nat
    BY <1>1, HitsAreFinite
  <2>2. l <= k + 1 /\ (clock \notin T => l = k)
    <3>1. l = Cardinality(Hits(Append(s, clock), Len(s) + 1, T))
      BY <1>1
    <3> QED
      BY <1>1, <3>1, OneMoreHit
  <2>3. PassedIn(c, T)' = l
    <3>1. DOMAIN passed'[c] = 1..(Len(s) + 1)
      BY <1>1
    <3> QED
      BY <3>1 DEF PassedIn, Hits
  <2>4. k <= 2 * Limit
    BY <1>1, <1>7, PassedInIsHits DEF ClientOK, LimitOK
  <2>5. CASE clock \in T
    <3>1. t + Window - 1 >= clock
      BY <1>1, <2>5, IntervalFacts
    <3>2. k <= Limit
      BY <1>1, <1>4, <1>7, <3>1
    <3> HIDE DEF k, l
    <3> QED
      BY <1>1, <2>1, <2>2, <2>3, <3>2
  <2>6. CASE clock \notin T
    BY <2>2, <2>3, <2>4, <2>6
  <2> QED
    BY <2>5, <2>6
<1>8. LimitOK(c)'
  BY <1>7 DEF LimitOK
<1> QED
  BY <1>1, <1>5, <1>6, <1>8 DEF ClientOK

LEMMA ClientJoins ==
  ASSUME TypeOK, TypeOK', NEW c \in Client, ClientOK(c), NEW now \in 0..clock, Joins(c, now)
  PROVE  ClientOK(c)'
<1> DEFINE s == passed[c]
           r == entries[c].requests
<1>1. /\ clock \in Nat /\ clock' = clock
      /\ Len(s) \in Nat /\ s \in Seq(0..MaxClock)
      /\ passed'[c] = Append(s, clock) /\ Len(passed'[c]) = Len(s) + 1
      /\ late[c] \subseteq late'[c]
      /\ \A t : OnTime(c, t)' => OnTime(c, t)
      /\ InOrder(c)'
      /\ Limit \in Nat \ {0} /\ Window \in Nat \ {0}
  BY ThroughFacts, LimitAssumption DEF Joins
<1>2. /\ entries[c] # None /\ r < Limit /\ r \in 1..Limit
      /\ entries[c].resetAt \in Nat
      /\ Earlier(c) \in Nat /\ Len(s) = Earlier(c) + r
      /\ Earlier(c) + 1 \in 1..Len(s)
      /\ Opened(c) \in 0..MaxClock
  BY WindowFacts DEF Joins, ClientOK
<1>3. /\ entries'[c].requests = r + 1 /\ entries'[c].resetAt = entries[c].resetAt
      /\ entries'[c] # None
  <2>1. r + 1 \in 1..Limit
    <3>1. r < Limit /\ r \in 1..Limit /\ Limit \in Nat
      BY <1>1, <1>2
    <3> HIDE DEF r
    <3> QED
      BY <3>1
  <2>2. [requests |-> r + 1, resetAt |-> entries[c].resetAt] \in Entry
    BY <1>2, <2>1 DEF Entry
  <2> QED
    BY <2>2, EntryAssumption DEF Joins
<1>4. Earlier(c)' = Earlier(c) /\ Opened(c)' = Opened(c)
  <2>1. Earlier(c)' = (Len(s) + 1) - (r + 1) /\ Earlier(c) = Len(s) - r
    BY <1>1, <1>3 DEF Earlier
  <2>2. r \in Nat /\ Len(s) \in Nat
    BY <1>1, <1>2
  <2>3. Earlier(c)' = Earlier(c)
    <3> HIDE DEF r, s
    <3> QED
      BY <2>1, <2>2
  <2> QED
    BY <1>1, <1>2, <2>3 DEF Opened
<1>5. WindowOK(c)'
  <2>1. ASSUME NEW t \in 0..MaxClock, OnTime(c, t)', t + Window - 1 >= Opened(c)
        PROVE  Cardinality(Hits(passed'[c], Earlier(c), Interval(t))) <= Limit
    <3>1. Hits(passed'[c], Earlier(c), Interval(t)) = Hits(s, Earlier(c), Interval(t))
      <4>1. Earlier(c) \in 0..Len(s)
        BY <1>1, <1>2
      <4> QED
        BY <1>1, <4>1, HitsOfAppend
    <3> QED
      BY <1>1, <1>2, <2>1, <3>1 DEF ClientOK, WindowOK
  <2>2. entries'[c].requests <= Len(passed'[c])
    BY <1>1, <1>2, <1>3
  <2>3. /\ entries'[c].resetAt <= Opened(c) + Window
        /\ Opened(c) \notin late'[c] => entries'[c].resetAt = Opened(c) + Window
    BY <1>1, <1>2, <1>3 DEF ClientOK, WindowOK
  <2> QED
    BY <1>4, <2>1, <2>2, <2>3 DEF WindowOK
<1>6. NoWindowOK(c)'
  BY <1>3 DEF NoWindowOK
<1>7. ASSUME NEW t \in 0..MaxClock, OnTime(c, t)'
      PROVE  (PassedIn(c, Interval(t)))' <= 2 * Limit
  <2> DEFINE T == Interval(t)
             k == Cardinality(Hits(s, Len(s), T))
             l == Cardinality(Hits(passed'[c], Len(s) + 1, T))
             e == Cardinality(Hits(s, Earlier(c), T))
  <2>1. k \in Nat /\ l \in Nat /\ e \in Nat
    <3>1. Len(s) + 1 \in Nat
      BY <1>1
    <3>2. \A m \in Nat : \A times : Cardinality(Hits(times, m, T)) \in Nat
      BY HitsAreFinite
    <3> QED
      BY <1>1, <1>2, <3>1, <3>2
  <2>2. l <= k + 1 /\ (clock \notin T => l = k)
    <3>1. l = Cardinality(Hits(Append(s, clock), Len(s) + 1, T))
      BY <1>1
    <3> QED
      BY <1>1, <3>1, OneMoreHit
  <2>3. PassedIn(c, T)' = l
    <3>1. DOMAIN passed'[c] = 1..(Len(s) + 1)
      BY <1>1
    <3> QED
      BY <3>1 DEF PassedIn, Hits
  <2>4. k <= 2 * Limit
    BY <1>1, <1>7, PassedInIsHits DEF ClientOK, LimitOK
  <2>5. CASE clock \in T
    <3>1. t + Window - 1 >= Opened(c)
      <4>1. t + Window - 1 >= clock /\ t \in Nat
        BY <1>1, <2>5, IntervalFacts
      <4>2. Opened(c) <= clock /\ Opened(c) \in Nat
        BY <1>2, TimeAssumption DEF ClientOK, InOrder, Opened
      <4> QED
        BY <1>1, <4>1, <4>2
    <3>2. e <= Limit
      BY <1>1, <1>2, <1>7, <3>1 DEF ClientOK, WindowOK
    <3>3. k <= e + (Len(s) - Earlier(c))
      BY <1>1, <1>2, HitsAtMost, SMTT(30)
    <3>4. Len(s) - Earlier(c) = r /\ r \in Nat /\ r + 1 <= Limit
      BY <1>1, <1>2, SMTT(30)
    <3> HIDE DEF k, l, e, r, s
    <3>5. l <= e + r + 1
      BY <2>1, <2>2, <3>3, <3>4, SMTT(30)
    <3>6. l <= 2 * Limit
      BY <2>1, <3>2, <3>4, <3>5, LimitAssumption, SMTT(30)
    <3> QED
      BY <2>3, <3>6
  <2>6. CASE clock \notin T
    BY <2>2, <2>3, <2>4, <2>6
  <2> QED
    BY <2>5, <2>6
<1>8. LimitOK(c)'
  BY <1>7 DEF LimitOK
<1> QED
  BY <1>1, <1>5, <1>6, <1>8 DEF ClientOK

LEMMA TimesNext ==
  ASSUME TypeOK, CallsTookTheirTime, [Next]_vars
  PROVE  CallsTookTheirTime'
<1>0. call \in [Call -> CallState] /\ clock \in Nat
  BY TimeAssumption DEF TypeOK
<1>1. CASE Tick
  <2>1. \A h \in Call : call[h].now \in Nat
    BY <1>0 DEF CallState
  <2>2. clock' = clock + 1 /\ call' = call
    BY <1>1 DEF Tick
  <2> QED
    BY <1>0, <2>1, <2>2 DEF CallsTookTheirTime
<1>2. ASSUME NEW h \in Call, AskLimiter(h) PROVE CallsTookTheirTime'
  BY <1>0, <1>2 DEF AskLimiter, CallsTookTheirTime
<1>3. CASE /\ clock' = clock
           /\ \A h \in Call : call'[h] = call[h] \/ call'[h].at # "limiting"
  BY <1>3 DEF CallsTookTheirTime
<1>4. ASSUME NEW h \in Call,
             \/ \E c \in Client : Request(h, c)
             \/ FindInstallation(h) \/ Decide(h) \/ TouchClientInstallation(h) \/ CallFails(h)
             \/ Allow(h)
      PROVE  /\ clock' = clock
             /\ \A g \in Call : call'[g] = call[g] \/ call'[g].at # "limiting"
  <2>1. \A g \in Call \ {h} : call'[g] = call[g]
    BY <1>0, <1>4 DEF Request, FindInstallation, Decide, TouchClientInstallation, CallFails,
       Allow, Answered, Authenticated
  <2>2. Answered(h) => call'[h].at = "idle"
    BY <1>0 DEF Answered, Idle
  <2>3. ASSUME NEW now, Authenticated(h, now) PROVE call'[h].at = "authenticated"
    BY <1>0, <2>3 DEF Authenticated, Idle
  <2>4. CASE \E c \in Client : Request(h, c)
    BY <1>0, <2>1, <2>4 DEF Request, Idle
  <2>5. CASE FindInstallation(h)
    <3>1. CASE status[call[h].client] = "active"
      <4>1. call' = [call EXCEPT ![h].at = "deciding", ![h].seen = lastSeen[call[h].client]]
        BY <2>5, <3>1 DEF FindInstallation
      <4>2. call[h] \in CallState
        BY <1>0
      <4>3. call'[h].at = "deciding"
        BY <1>0, <4>1, <4>2 DEF CallState
      <4> QED
        BY <2>1, <2>5, <4>3 DEF FindInstallation
    <3>2. CASE status[call[h].client] # "active"
      BY <2>1, <2>2, <2>5, <3>2 DEF FindInstallation
    <3> QED
      BY <3>1, <3>2
  <2>6. CASE Decide(h)
    <3>1. CASE Due(call[h].seen)
      <4>1. call' = [call EXCEPT ![h].at = "touching", ![h].now = clock]
        BY <2>6, <3>1 DEF Decide
      <4>2. call[h] \in CallState
        BY <1>0
      <4>3. call'[h].at = "touching"
        BY <1>0, <4>1, <4>2 DEF CallState
      <4> QED
        BY <2>1, <2>6, <4>3 DEF Decide
    <3>2. CASE ~ Due(call[h].seen)
      BY <2>1, <2>3, <2>6, <3>2 DEF Decide
    <3> QED
      BY <3>1, <3>2
  <2>7. CASE TouchClientInstallation(h) \/ CallFails(h) \/ Allow(h)
    BY <2>1, <2>2, <2>3, <2>7 DEF TouchClientInstallation, CallFails, Allow
  <2> QED
    BY <1>4, <2>4, <2>5, <2>6, <2>7
<1>5. CASE \/ UNCHANGED vars \/ OtherAllow
           \/ \E c \in Client : CreateClientInstallation(c) \/ RevokeClientInstallation(c)
           \/ \E d \in Deletion :
                 \/ \E c \in Client : CheckDeletion(d, c)
                 \/ DeleteClientInstallation(d) \/ DeletionFails(d)
  BY <1>5 DEF vars, OtherAllow, CreateClientInstallation, RevokeClientInstallation,
     CheckDeletion, DeleteClientInstallation, DeletionFails, CallsTookTheirTime
<1> QED
  BY <1>1, <1>2, <1>3, <1>4, <1>5 DEF Next

LEMMA LimiterInit0 == Init => LimiterInv
<1> SUFFICES ASSUME Init PROVE LimiterInv
  OBVIOUS
<1>1. CallsTookTheirTime
  BY DEF Init, Idle, CallsTookTheirTime
<1>2. ASSUME NEW c \in Client PROVE ClientOK(c)
  <2>1. passed[c] = << >> /\ entries[c] = None /\ Limit \in Nat
    BY LimitAssumption DEF Init, LimiterInit
  <2>2. \A T : PassedIn(c, T) = 0
    <3>1. \A T : {n \in DOMAIN passed[c] : passed[c][n] \in T} = {}
      BY <2>1
    <3> QED
      BY <3>1, FS_EmptySet DEF PassedIn
  <2> QED
    BY <2>1, <2>2 DEF ClientOK, InOrder, WindowOK, NoWindowOK, LimitOK
<1> QED
  BY <1>1, <1>2 DEF LimiterInv, ClientOK

LEMMA LimiterNext ==
  ASSUME TypeOK, TypeOK', LimiterInv, [Next]_vars
  PROVE  LimiterInv'
<1>1. CallsTookTheirTime'
  BY TimesNext DEF LimiterInv
<1>2. ASSUME NEW c \in Client PROVE ClientOK(c)'
  BY WindowStep, ClientStays, ClientOpens, ClientJoins DEF LimiterInv, ClientOK
<1> QED
  BY <1>1, <1>2 DEF LimiterInv, ClientOK

LEMMA LimiterInvariance == Spec => [](TypeOK /\ LimiterInv)
<1>1. Init => TypeOK /\ LimiterInv
  BY InitType, LimiterInit0
<1>2. TypeOK /\ LimiterInv /\ [Next]_vars => (TypeOK /\ LimiterInv)'
  BY NextType, LimiterNext
<1> QED
  BY <1>1, <1>2, PTL DEF Spec

\* For every limit and length of a window: an interval as long as a window lets
\* at most twice the limit through.
THEOREM TwiceTheLimitAtMost == Spec => []TwiceTheLimit
<1>1. LimiterInv => TwiceTheLimit
  BY DEF LimiterInv, LimitOK, OnTime, Interval, TwiceTheLimit
<1> QED
  BY <1>1, LimiterInvariance, PTL

\* Whoever is refused has used up the limit.
THEOREM RefusalsAreEarned == Spec => RefusalIsEarned
<1>1. ASSUME TypeOK, LimiterInv, [Next]_vars
      PROVE  [\A h \in Call :
                call[h].at = "limiting" /\ call'[h].at = "idle" /\ passed' = passed =>
                    PassedIn(call[h].client, (call[h].now + 1 - Window)..clock) >= Limit]_vars
  <2> SUFFICES ASSUME Next, NEW h \in Call, call[h].at = "limiting", call'[h].at = "idle",
                      passed' = passed
               PROVE  PassedIn(call[h].client, (call[h].now + 1 - Window)..clock) >= Limit
    BY <1>1 DEF vars
  <2> DEFINE c == call[h].client
             now == call[h].now
             T == (now + 1 - Window)..clock
             s == passed[c]
  <2>0. /\ call \in [Call -> CallState] /\ passed \in [Client -> Seq(0..MaxClock)]
        /\ c \in Client /\ now \in Nat /\ clock \in Nat
        /\ Limit \in Nat \ {0} /\ Window \in Nat \ {0}
    BY <1>1, TimeAssumption, LimitAssumption DEF TypeOK, CallState
  <2>1. Allow(h)
    <3>1. ASSUME NEW g \in Call,
                 \/ \E d \in Client : Request(g, d)
                 \/ FindInstallation(g) \/ Decide(g) \/ TouchClientInstallation(g)
                 \/ CallFails(g) \/ AskLimiter(g) \/ (g # h /\ Allow(g))
          PROVE  call'[h] = call[h]
      BY <2>0, <3>1 DEF Request, FindInstallation, Decide, TouchClientInstallation, CallFails,
         AskLimiter, Allow, Answered, Authenticated
    <3>2. ASSUME \/ Tick \/ OtherAllow
                 \/ \E d \in Client : CreateClientInstallation(d) \/ RevokeClientInstallation(d)
                 \/ \E d \in Deletion :
                       \/ \E e \in Client : CheckDeletion(d, e)
                       \/ DeleteClientInstallation(d) \/ DeletionFails(d)
          PROVE  call'[h] = call[h]
      BY <3>2 DEF Tick, OtherAllow, CreateClientInstallation, RevokeClientInstallation,
         CheckDeletion, DeleteClientInstallation, DeletionFails
    <3> QED
      BY <3>1, <3>2 DEF Next
  <2>2. Refuse(c, now)
    <3>1. SUFFICES ASSUME passed' = [passed EXCEPT ![c] = Append(@, clock)] PROVE FALSE
      BY <2>1 DEF Allow
    <3>2. passed'[c] = Append(s, clock) /\ s \in Seq(0..MaxClock)
      BY <2>0, <3>1
    <3>3. Len(passed'[c]) = Len(s) + 1 /\ Len(s) \in Nat
      BY <3>2
    <3> QED
      BY <3>3
  <2>3. entries[c] # None /\ entries[c] \in Entry
    BY <1>1, <2>0, <2>2 DEF Refuse, Ended, TypeOK, LimiterTypeOK
  <2>4. entries[c].requests >= Limit /\ entries[c].resetAt > now
    BY <2>0, <2>2, <2>3 DEF Refuse, Full, Ended, Entry
  <2>5. WindowOK(c) /\ InOrder(c)
    BY <1>1, <2>0 DEF LimiterInv
  <2>6. /\ entries[c].requests \in 1..Limit /\ entries[c].resetAt \in Nat
        /\ Earlier(c) \in Nat /\ Len(s) \in Nat
        /\ Len(s) = Earlier(c) + entries[c].requests
        /\ Earlier(c) + 1 \in 1..Len(s)
        /\ Opened(c) \in 0..MaxClock
    BY <1>1, <2>0, <2>3, <2>5, WindowFacts
  <2>7. Opened(c) \in Nat /\ now + 1 - Window <= Opened(c)
    <3>1. entries[c].resetAt <= Opened(c) + Window
      BY <2>3, <2>5 DEF WindowOK
    <3> QED
      BY <2>0, <2>4, <2>6, <3>1, TimeAssumption, SMTT(30)
  <2>8. ASSUME NEW n \in (Earlier(c) + 1)..Len(s) PROVE s[n] \in T
    <3>1. n \in 1..Len(s) /\ Earlier(c) + 1 <= n
      BY <2>6
    <3>2. s[Earlier(c) + 1] <= s[n] /\ s[n] <= clock
      BY <2>5, <2>6, <3>1 DEF InOrder
    <3>3. s[n] \in Nat /\ Opened(c) = s[Earlier(c) + 1]
      BY <2>0, <3>1, TimeAssumption DEF Opened
    <3> QED
      BY <2>0, <2>7, <3>2, <3>3
  <2>9. Len(s) - Earlier(c) <= Cardinality(Hits(s, Len(s), T))
    <3>1. Earlier(c) <= Len(s)
      BY <2>6
    <3> HIDE DEF s, T
    <3> QED
      BY <2>6, <2>8, <3>1, HitsAtLeast
  <2>10. PassedIn(c, T) = Cardinality(Hits(s, Len(s), T)) /\ PassedIn(c, T) \in Nat
    BY <1>1, <2>0, <2>6, PassedInIsHits, HitsAreFinite
  <2> QED
    BY <2>0, <2>4, <2>6, <2>9, <2>10, SMTT(30)
<1> QED
  BY <1>1, LimiterInvariance, PTL DEF Spec, RefusalIsEarned
===============================================================================
