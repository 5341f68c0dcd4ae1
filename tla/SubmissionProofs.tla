--------------------------- MODULE SubmissionProofs ----------------------------
(***************************************************************************)
(* Theorems about Submission for every set of clients, accounts, keys,     *)
(* tracks and handlers and every bound.                                    *)
(***************************************************************************)
EXTENDS Submission, FiniteSetTheorems, TLAPS

\* A handler that charges has an account to charge.
PayerKnown ==
    \A h \in Handler : call[h].at \in {"subscription", "insert", "count"} => Payer(h) # None

\* The quota a handler has read is one its account had.
QuotaWasHad ==
    \A h \in Handler : call[h].at \in {"insert", "count"} => call[h].quota <= peak[Payer(h)]

\* The uncommitted row of quota_consumptions is the only one of its slot, and
\* its client is there.
CountHolds ==
    \A h \in Handler : call[h].at = "count" =>
        /\ ClientOf(h) \in installed
        /\ charged[SlotOf(h)] = 0
        /\ \A g \in Handler : call[g].at = "count" /\ SlotOf(g) = SlotOf(h) => g = h

\* A client that has gone has taken its consumptions and requests with it.
GoneIsForgotten ==
    \A s \in Slot : s[1] \notin installed => charged[s] = 0 /\ request[s] = None

\* A handler about to create a request of an account's client has charged it,
\* or found it charged.
CreateIsCharged ==
    \A h \in Handler :
        call[h].at = "create" /\ Payer(h) # None /\ ClientOf(h) \in installed =>
            charged[SlotOf(h)] # 0

ChargeInv ==
    /\ PayerKnown
    /\ CountHolds
    /\ GoneIsForgotten
    /\ CreateIsCharged
    /\ RequestIsCharged

QuotaInv ==
    /\ \A a \in Account : subscription[a].quota <= peak[a]
    /\ QuotaWasHad
    /\ UsageWithinQuota

-------------------------------------------------------------------------------
(* Types.                                                                  *)

TablesOK ==
    /\ installed \subseteq Client
    /\ subscription \in [Account -> [active : BOOLEAN, quota : Nat]]
    /\ usage \in [Account -> [Month -> Nat]]
    /\ charged \in [Slot -> Month \cup {0}]
    /\ aged \subseteq tracks /\ tracks \subseteq Client \X Track
    /\ request \in [Slot -> Track \cup {None, Purged}]

CallsOK ==
    /\ call \in [Handler -> CallState]
    /\ \A h \in Handler : call[h].at # "idle" => call[h].input # None

RestOK ==
    /\ month \in Month
    /\ faults \in Nat
    /\ peak \in [Account -> Nat]

LEMMA TypeParts == TypeOK <=> TablesOK /\ CallsOK /\ RestOK
  BY DEF TypeOK, TablesOK, CallsOK, RestOK

LEMMA TypePartsNext ==
  ASSUME TablesOK', CallsOK', RestOK'
  PROVE  TypeOK'
  BY DEF TypeOK, TablesOK, CallsOK, RestOK

LEMMA IdleType == Idle \in CallState /\ Idle.at = "idle"
  BY LimitAssumption DEF Idle, CallState, Stage, Month

\* What a handler that is under way was asked for.
LEMMA InputType ==
  ASSUME CallsOK, NEW h \in Handler, call[h].at # "idle"
  PROVE  /\ call[h] \in CallState
         /\ call[h].input \in Client \X Key \X Track
         /\ ClientOf(h) \in Client /\ TrackOf(h) \in Track
         /\ SlotOf(h) \in Slot /\ SlotOf(h)[1] = ClientOf(h)
         /\ Payer(h) \in Account \cup {None}
         /\ call[h].period \in Month /\ call[h].quota \in Nat
<1>1. call[h] \in CallState /\ call[h].input \in Client \X Key \X Track
      /\ call[h].period \in Month /\ call[h].quota \in Nat
  BY DEF CallsOK, CallState
<1>2. ClientOf(h) \in Client /\ TrackOf(h) \in Track /\ SlotOf(h) \in Slot
      /\ SlotOf(h)[1] = ClientOf(h)
  BY <1>1 DEF ClientOf, TrackOf, SlotOf, Slot
<1> QED
  BY <1>1, <1>2, AccountAssumption DEF Payer

\* A handler goes on with its input, and until it creates with what it has read.
LEMMA GotoStep ==
  ASSUME CallsOK, NEW h \in Handler, call[h].at # "idle", NEW stage \in Stage, Goto(h, stage)
  PROVE  /\ CallsOK'
         /\ call'[h].at = stage
         /\ stage # "idle" => call'[h].input = call[h].input
         /\ stage \notin {"idle", "create"} =>
               call'[h].quota = call[h].quota /\ call'[h].period = call[h].period
         /\ \A g \in Handler : g # h => call'[g] = call[g]
<1>0. call[h] \in CallState /\ call[h].input # None /\ 1 \in Month /\ 0 \in Nat
  BY LimitAssumption DEF CallsOK, Month
<1>1. CASE stage = "idle"
  <2>1. call' = [call EXCEPT ![h] = Idle]
    BY <1>1 DEF Goto
  <2> QED
    BY <1>1, <2>1, IdleType DEF CallsOK
<1>2. CASE stage = "create"
  <2> DEFINE r == [call[h] EXCEPT !.at = stage, !.period = 1, !.quota = 0]
  <2>1. call' = [call EXCEPT ![h] = r]
    BY <1>2 DEF Goto
  <2>2. r \in CallState /\ r.at = stage /\ r.input = call[h].input
    BY <1>0 DEF CallState
  <2> HIDE DEF r
  <2> QED
    BY <1>0, <1>2, <2>1, <2>2 DEF CallsOK
<1>3. CASE stage \notin {"idle", "create"}
  <2> DEFINE r == [call[h] EXCEPT !.at = stage]
  <2>1. call' = [call EXCEPT ![h] = r]
    BY <1>3 DEF Goto
  <2>2. /\ r \in CallState /\ r.at = stage /\ r.input = call[h].input
        /\ r.quota = call[h].quota /\ r.period = call[h].period
    BY <1>0 DEF CallState
  <2> HIDE DEF r
  <2> QED
    BY <1>0, <1>3, <2>1, <2>2 DEF CallsOK
<1> QED
  BY <1>1, <1>2, <1>3

\* The two steps that put something they have read into a handler's locals.
LEMMA ReadConsumedStep ==
  ASSUME CallsOK, RestOK, NEW h \in Handler, ReadConsumed(h)
  PROVE  /\ CallsOK'
         /\ \A g \in Handler : g # h => call'[g] = call[g]
         /\ \/ call'[h].at = "idle"
            \/ /\ call'[h].at = "create" /\ call'[h].input = call[h].input
               /\ Payer(h) = None \/ charged[SlotOf(h)] # 0
            \/ /\ call'[h].at = "subscription" /\ call'[h].input = call[h].input
               /\ Payer(h) # None
<1>0. call[h].at = "consumed" /\ call[h] \in CallState /\ call[h].input # None /\ month \in Month
  BY DEF ReadConsumed, CallsOK, RestOK
<1>1. CASE ClientOf(h) \notin installed
  BY <1>0, <1>1, GotoStep DEF ReadConsumed, Stage
<1>2. CASE ClientOf(h) \in installed /\ (Payer(h) = None \/ charged[SlotOf(h)] # 0)
  <2>1. Goto(h, "create")
    BY <1>2 DEF ReadConsumed
  <2> QED
    BY <1>0, <1>2, <2>1, GotoStep DEF Stage
<1>3. CASE ClientOf(h) \in installed /\ ~(Payer(h) = None \/ charged[SlotOf(h)] # 0)
  <2> DEFINE r == [call[h] EXCEPT !.at = "subscription", !.period = month]
  <2>1. call' = [call EXCEPT ![h] = r]
    <3>1. call' = [call EXCEPT ![h].at = "subscription", ![h].period = month]
      BY <1>3 DEF ReadConsumed
    <3> QED
      BY <1>0, <3>1 DEF CallsOK
  <2>2. r \in CallState /\ r.at = "subscription" /\ r.input = call[h].input
    BY <1>0 DEF CallState, Stage
  <2> HIDE DEF r
  <2> QED
    BY <1>0, <1>3, <2>1, <2>2 DEF CallsOK
<1> QED
  BY <1>1, <1>2, <1>3

LEMMA ReadSubscriptionStep ==
  ASSUME CallsOK, TablesOK, PayerKnown, NEW h \in Handler, ReadSubscription(h)
  PROVE  /\ CallsOK'
         /\ \A g \in Handler : g # h => call'[g] = call[g]
         /\ \/ call'[h].at = "idle"
            \/ /\ call'[h].at = "insert" /\ call'[h].input = call[h].input
               /\ call'[h].quota = subscription[Payer(h)].quota
<1>0. /\ call[h].at = "subscription" /\ call[h] \in CallState /\ call[h].input # None
      /\ Payer(h) \in Account
  BY InputType DEF ReadSubscription, CallsOK, PayerKnown
<1> DEFINE q == subscription[Payer(h)].quota
<1>1. q \in Nat
  BY <1>0 DEF TablesOK
<1>2. CASE Goto(h, "idle")
  BY <1>0, <1>2, GotoStep DEF Stage
<1>3. CASE call' = [call EXCEPT ![h].at = "insert", ![h].quota = q]
  <2> HIDE DEF q
  <2> DEFINE r == [call[h] EXCEPT !.at = "insert", !.quota = q]
  <2>1. call' = [call EXCEPT ![h] = r]
    BY <1>0, <1>3 DEF CallsOK
  <2>2. r \in CallState /\ r.at = "insert" /\ r.input = call[h].input /\ r.quota = q
    BY <1>0, <1>1 DEF CallState, Stage
  <2>3. CallsOK' /\ call'[h] = r /\ \A g \in Handler : g # h => call'[g] = call[g]
    <3> HIDE DEF r
    <3> QED
      BY <1>0, <2>1, <2>2 DEF CallsOK
  <2> HIDE DEF r
  <2>4. call'[h].at = "insert" /\ call'[h].input = call[h].input /\ call'[h].quota = q
    BY <2>2, <2>3
  <2> QED
    BY <2>3, <2>4 DEF q
<1> QED
  BY <1>2, <1>3 DEF ReadSubscription

LEMMA BeginStep ==
  ASSUME CallsOK, NEW h \in Handler, NEW c \in Client, NEW k \in Key, NEW t \in Track,
         Begin(h, c, k, t), TablesOK
  PROVE  /\ CallsOK'
         /\ call'[h].at = "consumed" /\ call'[h].input = <<c, k, t>>
         /\ \A g \in Handler : g # h => call'[g] = call[g]
<1> DEFINE entitled == AccountOf[c] = None \/ subscription[AccountOf[c]].active
           r == [Idle EXCEPT !.at = "consumed", !.input = <<c, k, t>>, !.entitled = entitled]
<1>1. entitled \in BOOLEAN
  OBVIOUS
<1>3. call' = [call EXCEPT ![h] = r]
  BY DEF Begin
<1> HIDE DEF entitled
<1>5. Idle \in CallState /\ <<c, k, t>> \in (Client \X Key \X Track) \cup {None}
  BY IdleType
<1>2. r \in CallState /\ r.at = "consumed" /\ r.input = <<c, k, t>>
  BY <1>1, <1>5 DEF CallState, Stage
<1>4. <<c, k, t>> # None
  BY DistinctAssumption
<1> HIDE DEF r
<1> QED
  BY <1>2, <1>3, <1>4 DEF CallsOK

\* A change of the subscription leaves of a handler all but entitled.
LEMMA UpdateStep ==
  ASSUME CallsOK, NEW a \in Account, NEW active \in BOOLEAN, NEW q \in 0..MaxQuota,
         UpdateSubscription(a, active, q)
  PROVE  /\ CallsOK'
         /\ \A h \in Handler :
               /\ call'[h].at = call[h].at /\ call'[h].input = call[h].input
               /\ call'[h].period = call[h].period /\ call'[h].quota = call[h].quota
<1>1. \A h \in Handler : call'[h] \in {call[h], [call[h] EXCEPT !.entitled = TRUE]}
  BY DEF UpdateSubscription
<1>2. ASSUME NEW h \in Handler
      PROVE  LET r == [call[h] EXCEPT !.entitled = TRUE]
             IN  /\ r \in CallState /\ r.at = call[h].at /\ r.input = call[h].input
                 /\ r.period = call[h].period /\ r.quota = call[h].quota
  <2>1. call[h] \in CallState
    BY DEF CallsOK
  <2> QED
    BY <2>1 DEF CallState
<1>3. call' = [h \in Handler |-> call'[h]]
  BY DEF UpdateSubscription
<1>4. \A h \in Handler :
         /\ call'[h] \in CallState
         /\ call'[h].at = call[h].at /\ call'[h].input = call[h].input
         /\ call'[h].period = call[h].period /\ call'[h].quota = call[h].quota
  BY <1>1, <1>2 DEF CallsOK
<1> QED
  BY <1>3, <1>4 DEF CallsOK

\* Whatever a step of a handler is, but the three that read into its locals, it
\* goes on or stops.
LEMMA GoesOn ==
  ASSUME CallsOK, NEW h \in Handler,
         InsertConsumption(h) \/ CountAndCommit(h) \/ Create(h) \/ Stop(h)
  PROVE  /\ CallsOK' /\ call[h].at # "idle"
         /\ \A g \in Handler : g # h => call'[g] = call[g]
         /\ \/ call'[h].at = "idle"
            \/ /\ call'[h].at = "create" /\ call'[h].input = call[h].input
               /\ \/ call[h].at = "insert" /\ charged[SlotOf(h)] # 0
                  \/ call[h].at = "count" /\ CountAndCommit(h)
                     /\ usage[Payer(h)][call[h].period] < call[h].quota
            \/ /\ call'[h].at = "count" /\ call'[h].input = call[h].input
               /\ call'[h].quota = call[h].quota /\ call'[h].period = call[h].period
               /\ call[h].at = "insert" /\ InsertConsumption(h)
               /\ ClientOf(h) \in installed /\ charged[SlotOf(h)] = 0
<1>1. CASE InsertConsumption(h)
  <2>1. CASE ClientOf(h) \notin installed
    BY <1>1, <2>1, GotoStep DEF InsertConsumption, Stage
  <2>2. CASE ClientOf(h) \in installed /\ charged[SlotOf(h)] # 0
    <3>1. Goto(h, "create")
      BY <1>1, <2>2 DEF InsertConsumption
    <3> QED
      BY <1>1, <2>2, <3>1, GotoStep DEF InsertConsumption, Stage
  <2>3. CASE ClientOf(h) \in installed /\ charged[SlotOf(h)] = 0
    <3>1. Goto(h, "count")
      BY <1>1, <2>3 DEF InsertConsumption
    <3> QED
      BY <1>1, <2>3, <3>1, GotoStep DEF InsertConsumption, Stage
  <2> QED
    BY <2>1, <2>2, <2>3
<1>2. CASE CountAndCommit(h)
  BY <1>2, GotoStep DEF CountAndCommit, Stage
<1>3. CASE Create(h) \/ Stop(h)
  BY <1>3, GotoStep DEF Create, Stop, Stage
<1> QED
  BY <1>1, <1>2, <1>3

LEMMA NextType ==
  ASSUME TypeOK, PayerKnown, [Next]_vars
  PROVE  TypeOK'
<1>0. TablesOK /\ CallsOK /\ RestOK
  BY TypeParts
<1>a. UNCHANGED <<installed, subscription, usage, charged, tracks, aged, request>> => TablesOK'
  BY <1>0 DEF TablesOK
<1>b. UNCHANGED call => CallsOK'
  BY <1>0 DEF CallsOK
<1>c. UNCHANGED <<month, faults, peak>> => RestOK'
  BY <1>0 DEF RestOK
<1> USE TypePartsNext, <1>0, <1>a, <1>b, <1>c DEF tables
<1>1. ASSUME NEW h \in Handler, NEW c \in Client, NEW k \in Key, NEW t \in Track,
             Begin(h, c, k, t)
      PROVE  TypeOK'
  <2>1. TablesOK'
    BY <1>1 DEF Begin, UpsertTrackObservation, TablesOK
  <2>2. CallsOK'
    BY <1>1, BeginStep
  <2> QED
    BY <1>1, <2>1, <2>2 DEF Begin
<1>2. ASSUME NEW h \in Handler, ReadConsumed(h)
      PROVE  TypeOK'
  <2>1. CallsOK'
    BY <1>2, ReadConsumedStep
  <2> QED
    BY <1>2, <2>1 DEF ReadConsumed
<1>3. ASSUME NEW h \in Handler, ReadSubscription(h)
      PROVE  TypeOK'
  <2>1. CallsOK'
    BY <1>3, ReadSubscriptionStep
  <2> QED
    BY <1>3, <2>1 DEF ReadSubscription
<1>4. ASSUME NEW h \in Handler, InsertConsumption(h)
      PROVE  TypeOK'
  <2>1. CallsOK'
    BY <1>4, GoesOn
  <2> QED
    BY <1>4, <2>1 DEF InsertConsumption
<1>5. ASSUME NEW h \in Handler, CountAndCommit(h)
      PROVE  TypeOK'
  <2>0. CallsOK' /\ call[h].at = "count"
    BY <1>5, GoesOn DEF CountAndCommit
  <2>1. /\ Payer(h) \in Account /\ call[h].period \in Month /\ SlotOf(h) \in Slot
    BY <2>0, InputType DEF PayerKnown
  <2>2. CASE UNCHANGED <<usage, charged>>
    BY <1>5, <2>0, <2>2 DEF CountAndCommit
  <2>3. CASE /\ usage' = [usage EXCEPT ![Payer(h)][call[h].period] = @ + 1]
             /\ charged' = [charged EXCEPT ![SlotOf(h)] = call[h].period]
    <3>1. usage[Payer(h)] \in [Month -> Nat]
      BY <2>1 DEF TablesOK
    <3>2. usage[Payer(h)][call[h].period] \in Nat
      BY <2>1, <3>1
    <3>a. usage[Payer(h)][call[h].period] + 1 \in Nat
      BY <3>2
    <3>3. [usage[Payer(h)] EXCEPT ![call[h].period] = @ + 1] \in [Month -> Nat]
      BY <2>1, <3>1, <3>a
    <3>4. usage' = [usage EXCEPT ![Payer(h)] =
                       [usage[Payer(h)] EXCEPT ![call[h].period] = @ + 1]]
      BY <2>1, <2>3 DEF TablesOK
    <3>5. usage' \in [Account -> [Month -> Nat]]
      BY <2>1, <3>3, <3>4 DEF TablesOK
    <3>6. charged' \in [Slot -> Month \cup {0}]
      BY <2>1, <2>3 DEF TablesOK
    <3>7. TablesOK'
      BY <1>5, <3>5, <3>6 DEF CountAndCommit, TablesOK
    <3> QED
      BY <1>5, <2>0, <3>7 DEF CountAndCommit
  <2> QED
    BY <1>5, <2>2, <2>3 DEF CountAndCommit
<1>6. ASSUME NEW h \in Handler, Create(h)
      PROVE  TypeOK'
  <2>0. CallsOK' /\ SlotOf(h) \in Slot /\ TrackOf(h) \in Track
    BY <1>6, GoesOn, InputType DEF Create
  <2>1. request' \in [Slot -> Track \cup {None, Purged}]
    BY <1>6, <2>0 DEF Create, TablesOK
  <2>2. TablesOK'
    BY <1>6, <2>1 DEF Create, TablesOK
  <2> QED
    BY <1>6, <2>0, <2>2 DEF Create
<1>7. ASSUME NEW h \in Handler, Stop(h)
      PROVE  TypeOK'
  <2>1. CallsOK'
    BY <1>7, GoesOn
  <2>2. RestOK'
    BY <1>7 DEF Stop, RestOK
  <2> QED
    BY <1>7, <2>1, <2>2 DEF Stop
<1>8. ASSUME NEW a \in Account, NEW active \in BOOLEAN, NEW q \in 0..MaxQuota,
             UpdateSubscription(a, active, q)
      PROVE  TypeOK'
  <2>1. CallsOK'
    BY <1>8, UpdateStep
  <2>2. [active |-> active, quota |-> q] \in [active : BOOLEAN, quota : Nat] /\ q \in Nat
    OBVIOUS
  <2>3. TablesOK'
    BY <1>8, <2>2 DEF UpdateSubscription, TablesOK
  <2>4. RestOK'
    BY <1>8, <2>2 DEF UpdateSubscription, RestOK
  <2> QED
    BY <2>1, <2>3, <2>4
<1>9. ASSUME NEW c \in Client, DeleteClient(c)
      PROVE  TypeOK'
  <2>1. TablesOK'
    BY <1>9 DEF DeleteClient, TablesOK
  <2> QED
    BY <1>9, <2>1 DEF DeleteClient
<1>10. CASE GrowOld \/ Purge
  <2>1. TablesOK'
    BY <1>10 DEF GrowOld, Purge, Orphans, TablesOK
  <2> QED
    BY <1>10, <2>1 DEF GrowOld, Purge
<1>11. CASE NextMonth
  <2>1. RestOK'
    BY <1>11, LimitAssumption DEF NextMonth, RestOK, Month
  <2> QED
    BY <1>11, <2>1 DEF NextMonth
<1>12. CASE UNCHANGED vars
  BY <1>12 DEF vars
<1> QED
  BY <1>1, <1>2, <1>3, <1>4, <1>5, <1>6, <1>7, <1>8, <1>9, <1>10, <1>11, <1>12 DEF Next, Step

-------------------------------------------------------------------------------
(* What the steps do to a handler and to a slot.                           *)

LEMMA HandlerStep ==
  ASSUME TypeOK, PayerKnown, [Next]_vars, NEW h \in Handler
  PROVE  \/ /\ call'[h].at = call[h].at /\ call'[h].input = call[h].input
            /\ call'[h].quota = call[h].quota
         \/ call'[h].at = "idle"
         \/ \E c \in Client, k \in Key, t \in Track :
               Begin(h, c, k, t) /\ call'[h].at = "consumed" /\ call'[h].input = <<c, k, t>>
         \/ /\ call[h].at # "idle" /\ call'[h].input = call[h].input
            /\ \/ /\ call'[h].at = "create"
                  /\ \/ Payer(h) = None \/ charged[SlotOf(h)] # 0
                     \/ call[h].at = "count" /\ CountAndCommit(h)
                        /\ usage[Payer(h)][call[h].period] < call[h].quota
                  /\ call[h].at \in {"consumed", "insert", "count"}
               \/ call'[h].at = "subscription" /\ Payer(h) # None
               \/ /\ call'[h].at = "insert" /\ call[h].at = "subscription"
                  /\ call'[h].quota = subscription[Payer(h)].quota /\ UNCHANGED peak
               \/ /\ call'[h].at = "count" /\ call[h].at = "insert" /\ InsertConsumption(h)
                  /\ call'[h].quota = call[h].quota
                  /\ ClientOf(h) \in installed /\ charged[SlotOf(h)] = 0
<1>0. TablesOK /\ CallsOK /\ RestOK
  BY TypeParts
<1>1. ASSUME NEW g \in Handler, NEW c \in Client, NEW k \in Key, NEW t \in Track,
             Begin(g, c, k, t)
      PROVE  \/ call'[h] = call[h]
             \/ g = h /\ call'[h].at = "consumed" /\ call'[h].input = <<c, k, t>>
  BY <1>0, <1>1, BeginStep
<1>2. ASSUME NEW g \in Handler, ReadConsumed(g)
      PROVE  \/ call'[h] = call[h]
             \/ call'[h].at = "idle"
             \/ /\ call[h].at = "consumed" /\ call'[h].input = call[h].input
                /\ \/ call'[h].at = "create" /\ (Payer(h) = None \/ charged[SlotOf(h)] # 0)
                   \/ call'[h].at = "subscription" /\ Payer(h) # None
  BY <1>0, <1>2, ReadConsumedStep DEF ReadConsumed
<1>3. ASSUME NEW g \in Handler, ReadSubscription(g)
      PROVE  \/ call'[h] = call[h]
             \/ call'[h].at = "idle"
             \/ /\ call[h].at = "subscription" /\ call'[h].input = call[h].input
                /\ call'[h].at = "insert" /\ call'[h].quota = subscription[Payer(h)].quota
                /\ UNCHANGED peak
  BY <1>0, <1>3, ReadSubscriptionStep DEF ReadSubscription
<1>4. ASSUME NEW g \in Handler,
             InsertConsumption(g) \/ CountAndCommit(g) \/ Create(g) \/ Stop(g)
      PROVE  \/ call'[h] = call[h]
             \/ call'[h].at = "idle"
             \/ /\ call[h].at # "idle" /\ call'[h].input = call[h].input
                /\ \/ /\ call'[h].at = "create"
                      /\ \/ charged[SlotOf(h)] # 0
                         \/ call[h].at = "count" /\ CountAndCommit(h)
                            /\ usage[Payer(h)][call[h].period] < call[h].quota
                      /\ call[h].at \in {"insert", "count"}
                   \/ /\ call'[h].at = "count" /\ call[h].at = "insert" /\ InsertConsumption(h)
                      /\ call'[h].quota = call[h].quota
                      /\ ClientOf(h) \in installed /\ charged[SlotOf(h)] = 0
  BY <1>0, <1>4, GoesOn
<1>5. ASSUME NEW a \in Account, NEW active \in BOOLEAN, NEW q \in 0..MaxQuota,
             UpdateSubscription(a, active, q)
      PROVE  /\ call'[h].at = call[h].at /\ call'[h].input = call[h].input
             /\ call'[h].quota = call[h].quota
  BY <1>0, <1>5, UpdateStep
<1> QED
  BY <1>1, <1>2, <1>3, <1>4, <1>5 DEF Next, Step, DeleteClient, GrowOld, Purge, NextMonth, vars

LEMMA InstalledStep ==
  ASSUME [Next]_vars
  PROVE  installed' \subseteq installed
  BY DEF Next, Step, vars, tables, Begin, ReadConsumed, ReadSubscription, InsertConsumption,
     CountAndCommit, Create, Stop, UpdateSubscription, DeleteClient, GrowOld, Purge, NextMonth

\* A consumption is counted, or goes with its client.
LEMMA ChargedStep ==
  ASSUME TypeOK, [Next]_vars, NEW s \in Slot
  PROVE  \/ charged'[s] = charged[s]
         \/ \E h \in Handler :
               /\ CountAndCommit(h) /\ SlotOf(h) = s
               /\ charged'[s] = call[h].period
               /\ UNCHANGED <<installed, request>>
         \/ s[1] \notin installed' /\ charged'[s] = 0 /\ request'[s] = None
<1>0. TablesOK /\ CallsOK
  BY TypeParts
<1>1. ASSUME NEW h \in Handler, CountAndCommit(h)
      PROVE  \/ charged'[s] = charged[s]
             \/ SlotOf(h) = s /\ charged'[s] = call[h].period /\ UNCHANGED <<installed, request>>
  BY <1>0, <1>1 DEF CountAndCommit, TablesOK
<1>2. ASSUME NEW c \in Client, DeleteClient(c)
      PROVE  \/ charged'[s] = charged[s]
             \/ s[1] \notin installed' /\ charged'[s] = 0 /\ request'[s] = None
  BY <1>0, <1>2 DEF DeleteClient
<1> QED
  BY <1>1, <1>2 DEF Next, Step, vars, tables, Begin, ReadConsumed, ReadSubscription,
     InsertConsumption, Create, Stop, UpdateSubscription, GrowOld, Purge, NextMonth

\* A request is created, purged, or goes with its client.
LEMMA RequestStep ==
  ASSUME TypeOK, [Next]_vars, NEW s \in Slot
  PROVE  \/ request'[s] = request[s]
         \/ \E h \in Handler :
               /\ call[h].at = "create" /\ SlotOf(h) = s /\ Create(h)
               /\ ClientOf(h) \in installed /\ request'[s] = TrackOf(h)
               /\ UNCHANGED <<installed, charged>>
         \/ /\ request[s] \in Track /\ request'[s] = Purged
            /\ UNCHANGED <<installed, charged>>
         \/ s[1] \notin installed' /\ charged'[s] = 0 /\ request'[s] = None
<1>0. TablesOK /\ CallsOK
  BY TypeParts
<1>1. ASSUME NEW h \in Handler, Create(h)
      PROVE  \/ request'[s] = request[s]
             \/ /\ call[h].at = "create" /\ SlotOf(h) = s
                /\ ClientOf(h) \in installed /\ request'[s] = TrackOf(h)
                /\ UNCHANGED <<installed, charged>>
  BY <1>0, <1>1 DEF Create, TablesOK
<1>2. ASSUME NEW c \in Client, DeleteClient(c)
      PROVE  \/ request'[s] = request[s]
             \/ s[1] \notin installed' /\ charged'[s] = 0 /\ request'[s] = None
  BY <1>0, <1>2 DEF DeleteClient
<1>3. CASE Purge
  BY <1>0, <1>3 DEF Purge
<1> QED
  BY <1>1, <1>2, <1>3 DEF Next, Step, vars, tables, Begin, ReadConsumed, ReadSubscription,
     InsertConsumption, CountAndCommit, Stop, UpdateSubscription, GrowOld, NextMonth

-------------------------------------------------------------------------------
(* Every request is charged.                                               *)

LEMMA ChargeInit == Init => ChargeInv
<1>1. Idle.at = "idle"
  BY IdleType
<1> QED
  BY <1>1 DEF Init, ChargeInv, PayerKnown, CountHolds, GoneIsForgotten, CreateIsCharged,
     RequestIsCharged, Slot

LEMMA ChargeNext ==
  ASSUME TypeOK, ChargeInv, [Next]_vars
  PROVE  ChargeInv'
<1>0. TablesOK /\ CallsOK /\ PayerKnown
  BY TypeParts DEF ChargeInv
<1>i. \A h \in Handler : call[h].at # "idle" =>
         /\ SlotOf(h) \in Slot /\ SlotOf(h)[1] = ClientOf(h) /\ ClientOf(h) \in Client
         /\ call[h].period \in Month
  BY <1>0, InputType
<1>m. 0 \notin Month
  BY DEF Month
\* Names that stand for the same while the input does.
<1>s. \A h \in Handler : call'[h].input = call[h].input =>
         /\ SlotOf(h)' = SlotOf(h) /\ ClientOf(h)' = ClientOf(h) /\ Payer(h)' = Payer(h)
  BY DEF SlotOf, ClientOf, Payer
<1>1. PayerKnown'
  <2> SUFFICES ASSUME NEW h \in Handler, call'[h].at \in {"subscription", "insert", "count"}
               PROVE  Payer(h)' # None
    BY DEF PayerKnown
  <2> QED
    BY <1>0, <1>s, HandlerStep DEF PayerKnown
<1>2. CountHolds'
  <2> SUFFICES ASSUME NEW h \in Handler, call'[h].at = "count"
               PROVE  /\ ClientOf(h)' \in installed'
                      /\ charged'[SlotOf(h)'] = 0
                      /\ \A g \in Handler :
                            call'[g].at = "count" /\ SlotOf(g)' = SlotOf(h)' => g = h
    BY DEF CountHolds
  <2>1. CASE call[h].at = "insert" /\ InsertConsumption(h) /\ call'[h].input = call[h].input
             /\ ClientOf(h) \in installed /\ charged[SlotOf(h)] = 0
    <3>1. ASSUME NEW g \in Handler, call'[g].at = "count", SlotOf(g)' = SlotOf(h)', g # h
          PROVE  FALSE
      <4>1. call'[g] = call[g]
        BY <1>0, <2>1, <3>1, GoesOn
      <4>2. Inserted(g, SlotOf(h))
        BY <1>s, <2>1, <3>1, <4>1 DEF Inserted
      <4> QED
        BY <2>1, <4>2 DEF InsertConsumption
    <3> QED
      BY <1>s, <2>1, <3>1 DEF InsertConsumption, tables
  <2>2. CASE call[h].at = "count" /\ call'[h].input = call[h].input
    <3>1. /\ ClientOf(h) \in installed /\ charged[SlotOf(h)] = 0
          /\ SlotOf(h) \in Slot /\ SlotOf(h)[1] = ClientOf(h) /\ ClientOf(h) \in Client
      BY <1>i, <2>2 DEF ChargeInv, CountHolds
    <3>2. ClientOf(h) \in installed'
      BY <2>2, <3>1 DEF Next, Step, vars, tables, Begin, ReadConsumed, ReadSubscription,
         InsertConsumption, CountAndCommit, Create, Stop, UpdateSubscription, DeleteClient,
         GrowOld, Purge, NextMonth
    <3>3. charged'[SlotOf(h)] = 0
      <4>1. ASSUME NEW g \in Handler, CountAndCommit(g), SlotOf(g) = SlotOf(h)
            PROVE  FALSE
        <5>1. g = h
          BY <2>2, <4>1 DEF CountAndCommit, ChargeInv, CountHolds
        <5>2. call'[h].at \in {"idle", "create"}
          BY <1>0, <4>1, <5>1, GoesOn, <2>2
        <5> QED
          BY <5>2
      <4> QED
        BY <3>1, <3>2, <4>1, ChargedStep
    <3>4. ASSUME NEW g \in Handler, call'[g].at = "count", SlotOf(g)' = SlotOf(h)'
          PROVE  g = h
      <4>1. CASE call[g].at = "count" /\ call'[g].input = call[g].input
        BY <1>s, <2>2, <3>4, <4>1 DEF ChargeInv, CountHolds
      <4>2. CASE InsertConsumption(g) /\ call'[g].input = call[g].input
        BY <1>s, <2>2, <3>4, <4>2 DEF InsertConsumption, Inserted
      <4> QED
        BY <1>0, <3>4, <4>1, <4>2, HandlerStep
    <3> QED
      BY <1>s, <2>2, <3>2, <3>3, <3>4
  <2> QED
    BY <1>0, <2>1, <2>2, HandlerStep
<1>3. GoneIsForgotten'
  <2> SUFFICES ASSUME NEW s \in Slot, s[1] \notin installed'
               PROVE  charged'[s] = 0 /\ request'[s] = None
    BY DEF GoneIsForgotten
  <2>1. CASE s[1] \in installed
    <3>1. PICK c \in Client : DeleteClient(c)
      BY <2>1 DEF Next, Step, vars, tables, Begin, ReadConsumed, ReadSubscription,
         InsertConsumption, CountAndCommit, Create, Stop, UpdateSubscription, GrowOld, Purge, NextMonth
    <3> QED
      BY <2>1, <3>1 DEF DeleteClient
  <2>2. CASE s[1] \notin installed
    <3>1. charged[s] = 0 /\ request[s] = None
      BY <2>2 DEF ChargeInv, GoneIsForgotten
    <3>2. \A h \in Handler : CountAndCommit(h) => SlotOf(h) # s
      BY <1>i, <2>2 DEF CountAndCommit, ChargeInv, CountHolds
    <3>3. \A h \in Handler : call[h].at = "create" /\ ClientOf(h) \in installed => SlotOf(h) # s
      BY <1>i, <2>2
    <3>4. None \notin Track
      BY DistinctAssumption
    <3> QED
      BY <3>1, <3>2, <3>3, <3>4, ChargedStep, RequestStep
  <2> QED
    BY <2>1, <2>2
<1>4. CreateIsCharged'
  <2> SUFFICES ASSUME NEW h \in Handler, call'[h].at = "create", Payer(h)' # None,
                      ClientOf(h)' \in installed'
               PROVE  charged'[SlotOf(h)'] # 0
    BY DEF CreateIsCharged
  <2>0. call'[h].input = call[h].input /\ call[h].at # "idle"
    BY <1>0, HandlerStep
  <2>1. SlotOf(h) \in Slot /\ SlotOf(h)[1] \in installed' /\ Payer(h) # None
    BY <1>i, <1>s, <2>0
  <2>2. CASE charged[SlotOf(h)] # 0
    BY <1>i, <1>m, <1>s, <2>0, <2>1, <2>2, ChargedStep DEF CountAndCommit
  <2>3. CASE CountAndCommit(h) /\ usage[Payer(h)][call[h].period] < call[h].quota
    BY <1>0, <1>i, <1>m, <1>s, <2>0, <2>1, <2>3 DEF CountAndCommit, TablesOK
  <2>4. CASE call[h].at = "create"
    <3>1. charged[SlotOf(h)] # 0
      BY <1>i, <2>1, <2>4, InstalledStep DEF ChargeInv, CreateIsCharged
    <3> QED
      BY <3>1, <2>2
  <2> QED
    BY <1>0, <2>0, <2>1, <2>2, <2>3, <2>4, HandlerStep
<1>5. RequestIsCharged'
  <2> SUFFICES ASSUME NEW s \in Slot, request'[s] # None, AccountOf[s[1]] # None
               PROVE  charged'[s] # 0
    BY DEF RequestIsCharged
  <2>1. request[s] # None => charged[s] # 0
    BY DEF ChargeInv, RequestIsCharged
  <2>2. charged[s] # 0 => charged'[s] # 0
    BY <1>i, <1>m, ChargedStep DEF CountAndCommit
  <2>3. ASSUME NEW h \in Handler, call[h].at = "create", SlotOf(h) = s, ClientOf(h) \in installed
        PROVE  charged[s] # 0
    BY <1>i, <2>3 DEF ChargeInv, CreateIsCharged, Payer
  <2>4. None \notin Track
    BY DistinctAssumption
  <2> QED
    BY <2>1, <2>2, <2>3, <2>4, RequestStep
<1> QED
  BY <1>1, <1>2, <1>3, <1>4, <1>5 DEF ChargeInv

LEMMA ChargeInductive == Spec => [](TypeOK /\ ChargeInv)
<1>1. TypeOK /\ ChargeInv /\ [Next]_vars => TypeOK' /\ ChargeInv'
  BY NextType, ChargeNext DEF ChargeInv
<1>2. Init => TypeOK /\ ChargeInv
  <2>1. ASSUME Init PROVE TypeOK
    <3>1. PICK q \in 0..MaxQuota :
            /\ subscription = [a \in Account |-> [active |-> TRUE, quota |-> q]]
            /\ peak = [a \in Account |-> q]
      BY <2>1 DEF Init
    <3>2. subscription \in [Account -> [active : BOOLEAN, quota : Nat]]
          /\ peak \in [Account -> Nat]
      BY <3>1
    <3>3. CallsOK
      BY <2>1, IdleType DEF Init, CallsOK
    <3>4. TablesOK /\ RestOK
      BY <2>1, <3>2, LimitAssumption DEF Init, TablesOK, RestOK, Month
    <3> QED
      BY <3>3, <3>4, TypeParts
  <2> QED
    BY <2>1, ChargeInit
<1> QED
  BY <1>1, <1>2, PTL DEF Spec

\* The tables of accounts, consumptions, observations and requests and the
\* locals of the handlers are well formed (account_store.go, observation_store.go).
THEOREM TypeCorrect == Spec => []TypeOK
  BY ChargeInductive, PTL

\* Every request of an account's client has been charged, however handlers,
\* retries, purges and deletions interleave (resolutions.go, the POST handler).
THEOREM RequestCharged == Spec => []RequestIsCharged
<1>1. ChargeInv => RequestIsCharged
  BY DEF ChargeInv
<1> QED
  BY <1>1, ChargeInductive, PTL

-------------------------------------------------------------------------------
(* The counter and the quota.                                              *)

\* The counter of a month moves only with a consumption of that month.
LEMMA UsageStep ==
  ASSUME TypeOK, ChargeInv, [Next]_vars, NEW a \in Account, NEW m \in Month
  PROVE  \/ usage'[a][m] = usage[a][m]
         \/ \E h \in Handler :
               /\ call[h].at = "count" /\ Payer(h) = a /\ call[h].period = m
               /\ usage[a][m] < call[h].quota
               /\ usage'[a][m] = usage[a][m] + 1
               /\ charged' = [charged EXCEPT ![SlotOf(h)] = m]
               /\ UNCHANGED <<installed, peak>>
<1>0. TablesOK /\ CallsOK
  BY TypeParts
<1>1. ASSUME NEW h \in Handler, CountAndCommit(h)
      PROVE  \/ usage'[a][m] = usage[a][m]
             \/ /\ call[h].at = "count" /\ Payer(h) = a /\ call[h].period = m
                /\ usage[a][m] < call[h].quota
                /\ usage'[a][m] = usage[a][m] + 1
                /\ charged' = [charged EXCEPT ![SlotOf(h)] = m]
                /\ UNCHANGED <<installed, peak>>
  <2>1. Payer(h) \in Account /\ call[h].period \in Month
    BY <1>0, <1>1, InputType DEF CountAndCommit, ChargeInv, PayerKnown
  <2>2. usage[a] \in [Month -> Nat]
    BY <1>0 DEF TablesOK
  <2>3. CASE usage[Payer(h)][call[h].period] < call[h].quota
    <3>1. usage' = [usage EXCEPT ![Payer(h)][call[h].period] = @ + 1]
      BY <1>1, <2>3 DEF CountAndCommit
    <3>2. CASE Payer(h) = a /\ call[h].period = m
      BY <1>0, <1>1, <2>1, <2>2, <2>3, <3>1, <3>2 DEF CountAndCommit, TablesOK
    <3>3. CASE Payer(h) # a
      BY <1>0, <2>1, <3>1, <3>3 DEF TablesOK
    <3>4. CASE Payer(h) = a /\ call[h].period # m
      <4>1. usage'[a] = [usage[a] EXCEPT ![call[h].period] = @ + 1]
        BY <1>0, <2>1, <3>1, <3>4 DEF TablesOK
      <4> QED
        BY <2>2, <3>4, <4>1
    <3> QED
      BY <3>2, <3>3, <3>4
  <2>4. CASE ~(usage[Payer(h)][call[h].period] < call[h].quota)
    BY <1>1, <2>4 DEF CountAndCommit
  <2> QED
    BY <2>3, <2>4
<1> QED
  BY <1>1 DEF Next, Step, vars, tables, Begin, ReadConsumed, ReadSubscription,
     InsertConsumption, Create, Stop, UpdateSubscription, DeleteClient, GrowOld, Purge, NextMonth

LEMMA PeakStep ==
  ASSUME TypeOK, [Next]_vars, NEW a \in Account, subscription[a].quota <= peak[a]
  PROVE  /\ peak[a] \in Nat /\ peak'[a] \in Nat /\ peak[a] <= peak'[a]
         /\ subscription'[a].quota <= peak'[a]
<1>0. TablesOK /\ peak \in [Account -> Nat]
  BY TypeParts DEF RestOK
<1>1. ASSUME NEW b \in Account, NEW active \in BOOLEAN, NEW q \in 0..MaxQuota,
             UpdateSubscription(b, active, q)
      PROVE  /\ peak'[a] \in Nat /\ peak[a] <= peak'[a]
             /\ subscription'[a].quota <= peak'[a]
  <2>1. CASE a # b
    BY <1>0, <1>1, <2>1 DEF UpdateSubscription, TablesOK
  <2>2. CASE a = b
    <3>1. subscription'[a].quota = q /\ peak'[a] = IF q > peak[a] THEN q ELSE peak[a]
      BY <1>0, <1>1, <2>2 DEF UpdateSubscription, TablesOK
    <3> QED
      BY <1>0, <3>1
  <2> QED
    BY <2>1, <2>2
<1>2. CASE UNCHANGED <<peak, subscription>>
  BY <1>0, <1>2
<1>3. \/ \E b \in Account, active \in BOOLEAN, q \in 0..MaxQuota :
            UpdateSubscription(b, active, q)
      \/ UNCHANGED <<peak, subscription>>
  BY DEF Next, Step, vars, tables, Begin, ReadConsumed, ReadSubscription,
     InsertConsumption, CountAndCommit, Create, Stop, DeleteClient, GrowOld, Purge, NextMonth
<1> QED
  BY <1>0, <1>1, <1>2, <1>3

LEMMA QuotaInit == Init => QuotaInv
<1>1. Idle.at = "idle"
  BY IdleType
<1> QED
  BY <1>1 DEF Init, QuotaInv, QuotaWasHad, UsageWithinQuota

LEMMA QuotaNext ==
  ASSUME TypeOK, ChargeInv, QuotaInv, [Next]_vars
  PROVE  QuotaInv'
<1>0. TablesOK /\ CallsOK /\ PayerKnown
  BY TypeParts DEF ChargeInv
<1>p. \A a \in Account :
         /\ subscription[a].quota <= peak[a] /\ subscription[a].quota \in Nat
         /\ peak[a] \in Nat /\ peak'[a] \in Nat /\ peak[a] <= peak'[a]
         /\ subscription'[a].quota <= peak'[a]
  BY <1>0, PeakStep DEF QuotaInv, TablesOK
<1>1. QuotaWasHad'
  <2> SUFFICES ASSUME NEW h \in Handler, call'[h].at \in {"insert", "count"}
               PROVE  call'[h].quota <= peak'[Payer(h)']
    BY DEF QuotaWasHad
  <2>0. call[h].at # "idle" /\ call'[h].input = call[h].input
    BY <1>0, HandlerStep
  <2>1. Payer(h)' = Payer(h) /\ Payer(h) \in Account \cup {None} /\ call[h].quota \in Nat
    BY <1>0, <2>0, InputType DEF Payer, ClientOf
  <2>2. CASE call[h].at = "subscription" /\ call'[h].quota = subscription[Payer(h)].quota
    <3>1. Payer(h) \in Account
      BY <2>1, <2>2 DEF ChargeInv, PayerKnown
    <3> QED
      BY <1>p, <2>1, <2>2, <3>1
  <2>3. CASE call[h].at \in {"insert", "count"} /\ call'[h].quota = call[h].quota
    <3>1. Payer(h) \in Account /\ call[h].quota <= peak[Payer(h)]
      BY <2>1, <2>3 DEF ChargeInv, PayerKnown, QuotaInv, QuotaWasHad
    <3> QED
      BY <1>p, <2>1, <2>3, <3>1
  <2> QED
    BY <1>0, <2>2, <2>3, HandlerStep
<1>2. UsageWithinQuota'
  <2> SUFFICES ASSUME NEW a \in Account, NEW m \in Month
               PROVE  usage'[a][m] <= peak'[a]
    BY DEF UsageWithinQuota, Month
  <2>0. usage[a][m] \in Nat /\ usage[a][m] <= peak[a]
    BY <1>0 DEF TablesOK, QuotaInv, UsageWithinQuota
  <2>1. ASSUME NEW h \in Handler, call[h].at = "count", Payer(h) = a,
               usage[a][m] < call[h].quota, usage'[a][m] = usage[a][m] + 1
        PROVE  usage'[a][m] <= peak'[a]
    <3>1. call[h].quota \in Nat /\ call[h].quota <= peak[a]
      BY <1>0, <2>1, InputType DEF QuotaInv, QuotaWasHad
    <3> QED
      BY <1>p, <2>0, <2>1, <3>1
  <2> QED
    BY <1>p, <2>0, <2>1, UsageStep
<1> QED
  BY <1>1, <1>2, <1>p DEF QuotaInv

\* Concurrent submissions never add up to more than the largest quota their
\* account has had (account_store.go ConsumeResolutionQuota).
THEOREM QuotaRespected == Spec => []UsageWithinQuota
<1>1. TypeOK /\ ChargeInv /\ QuotaInv /\ [Next]_vars => QuotaInv'
  BY QuotaNext
<1>2. QuotaInv => UsageWithinQuota
  BY DEF QuotaInv
<1> QED
  BY <1>1, <1>2, QuotaInit, ChargeInductive, PTL DEF Spec

\* One consumption per count, and one count per consumption.
CountInv ==
    /\ \A a \in Account, m \in Month : IsFiniteSet(ChargesOf(a, m))
    /\ UsageCountsCharges

LEMMA CountInit == Init => CountInv
<1> SUFFICES ASSUME Init PROVE CountInv
  OBVIOUS
<1>1. \A a \in Account, m \in Month : ChargesOf(a, m) = {}
  BY DEF Init, ChargesOf, Month
<1>2. \A a \in Account, m \in Month : usage[a][m] = 0
  BY DEF Init
<1>3. \A a \in Account, m \in Month :
         /\ IsFiniteSet(ChargesOf(a, m))
         /\ Cardinality(ChargesOf(a, m)) = 0 /\ usage[a][m] = 0
  BY <1>1, <1>2, FS_EmptySet
<1> HIDE DEF Init
<1> QED
  BY <1>3 DEF CountInv, UsageCountsCharges

LEMMA CountNext ==
  ASSUME TypeOK, ChargeInv, CountInv, [Next]_vars
  PROVE  CountInv'
<1> SUFFICES ASSUME NEW a \in Account, NEW m \in Month
             PROVE  /\ IsFiniteSet(ChargesOf(a, m)')
                    /\ Cardinality(ChargesOf(a, m)') <= usage'[a][m]
                    /\ (\A c \in Client : AccountOf[c] = a => c \in installed')
                          => Cardinality(ChargesOf(a, m)') = usage'[a][m]
  BY DEF CountInv, UsageCountsCharges, Month
<1>0. TablesOK /\ CallsOK
  BY TypeParts
<1>1. /\ IsFiniteSet(ChargesOf(a, m)) /\ Cardinality(ChargesOf(a, m)) \in Nat
      /\ Cardinality(ChargesOf(a, m)) <= usage[a][m] /\ usage[a][m] \in Nat
      /\ (\A c \in Client : AccountOf[c] = a => c \in installed)
            => Cardinality(ChargesOf(a, m)) = usage[a][m]
  BY <1>0, FS_CardinalityType DEF CountInv, UsageCountsCharges, TablesOK
<1>m. m # 0
  BY DEF Month
<1>2. ASSUME NEW h \in Handler, call[h].at = "count", Payer(h) = a, call[h].period = m,
             usage'[a][m] = usage[a][m] + 1,
             charged' = [charged EXCEPT ![SlotOf(h)] = m], UNCHANGED installed
      PROVE  /\ IsFiniteSet(ChargesOf(a, m)')
             /\ Cardinality(ChargesOf(a, m)') <= usage'[a][m]
             /\ (\A c \in Client : AccountOf[c] = a => c \in installed')
                   => Cardinality(ChargesOf(a, m)') = usage'[a][m]
  <2>1. SlotOf(h) \in Slot /\ SlotOf(h)[1] = ClientOf(h) /\ charged[SlotOf(h)] = 0
    BY <1>0, <1>2, InputType DEF ChargeInv, CountHolds
  <2>2. AccountOf[SlotOf(h)[1]] = a
    BY <1>2, <2>1 DEF Payer
  <2>3. ChargesOf(a, m)' = ChargesOf(a, m) \cup {SlotOf(h)}
    BY <1>0, <1>2, <2>1, <2>2 DEF ChargesOf, TablesOK
  <2>4. SlotOf(h) \notin ChargesOf(a, m)
    BY <1>m, <2>1 DEF ChargesOf
  <2>5. /\ IsFiniteSet(ChargesOf(a, m)')
        /\ Cardinality(ChargesOf(a, m)') = Cardinality(ChargesOf(a, m)) + 1
    BY <1>1, <2>3, <2>4, FS_AddElement
  <2> QED
    BY <1>1, <1>2, <2>5
<1>3. CASE usage'[a][m] = usage[a][m]
  <2>1. ChargesOf(a, m)' \subseteq ChargesOf(a, m)
    <3> SUFFICES ASSUME NEW s \in Slot, charged'[s] = m, AccountOf[s[1]] = a, charged[s] # m
                 PROVE  FALSE
      BY DEF ChargesOf
    <3>1. PICK h \in Handler : CountAndCommit(h) /\ SlotOf(h) = s /\ charged'[s] = call[h].period
      BY <1>m, ChargedStep
    <3>2. /\ call[h].at = "count" /\ charged[s] = 0 /\ call[h].period = m /\ Payer(h) = a
      BY <1>0, <3>1, InputType DEF CountAndCommit, ChargeInv, CountHolds, Payer
    <3>3. CASE usage[Payer(h)][call[h].period] < call[h].quota
      <4>1. usage' = [usage EXCEPT ![a][m] = @ + 1]
        BY <3>1, <3>2, <3>3 DEF CountAndCommit
      <4>2. usage'[a][m] = usage[a][m] + 1
        BY <1>0, <4>1 DEF TablesOK
      <4> QED
        BY <1>1, <1>3, <4>2
    <3>4. CASE ~(usage[Payer(h)][call[h].period] < call[h].quota)
      BY <3>1, <3>2, <3>4, <1>m DEF CountAndCommit
    <3> QED
      BY <3>3, <3>4
  <2>2. IsFiniteSet(ChargesOf(a, m)') /\ Cardinality(ChargesOf(a, m)') \in Nat
        /\ Cardinality(ChargesOf(a, m)') <= Cardinality(ChargesOf(a, m))
    BY <1>1, <2>1, FS_Subset, FS_CardinalityType
  <2>3. ASSUME \A c \in Client : AccountOf[c] = a => c \in installed'
        PROVE  ChargesOf(a, m)' = ChargesOf(a, m)
    <3>1. \A s \in Slot : AccountOf[s[1]] = a => s[1] \in installed'
      BY <2>3 DEF Slot
    <3>2. \A s \in ChargesOf(a, m) : charged'[s] = m
      <4> SUFFICES ASSUME NEW s \in ChargesOf(a, m), charged'[s] # m PROVE FALSE
        OBVIOUS
      <4>1. s \in Slot /\ charged[s] = m /\ s[1] \in installed'
        BY <3>1 DEF ChargesOf
      <4>2. PICK h \in Handler : CountAndCommit(h) /\ SlotOf(h) = s
        BY <4>1, ChargedStep
      <4> QED
        BY <1>m, <4>1, <4>2 DEF CountAndCommit, ChargeInv, CountHolds
    <3> QED
      BY <2>1, <3>2 DEF ChargesOf
  <2>4. ASSUME \A c \in Client : AccountOf[c] = a => c \in installed'
        PROVE  \A c \in Client : AccountOf[c] = a => c \in installed
    BY <2>4, InstalledStep
  <2> QED
    BY <1>1, <1>3, <2>2, <2>3, <2>4
<1> QED
  BY <1>2, <1>3, UsageStep

\* The counter of a month is the number of its consumptions, for any number of
\* concurrent submissions (account_store.go ConsumeResolutionQuota).
THEOREM ChargesCounted == Spec => []UsageCountsCharges
<1>1. TypeOK /\ ChargeInv /\ CountInv /\ [Next]_vars => CountInv'
  BY CountNext
<1>2. CountInv => UsageCountsCharges
  BY DEF CountInv
<1> QED
  BY <1>1, <1>2, CountInit, ChargeInductive, PTL DEF Spec

-------------------------------------------------------------------------------
(* The observation of a request.                                           *)

\* The observation that a handler has upserted is not old.
InUseIsFresh ==
    \A h \in Handler : call[h].at # "idle" => <<ClientOf(h), TrackOf(h)>> \notin aged

TrackInv == RequestHasTrack /\ InUseIsFresh

LEMMA TrackInit == Init => TrackInv
<1>1. Idle.at = "idle"
  BY IdleType
<1> QED
  BY <1>1, DistinctAssumption DEF Init, TrackInv, RequestHasTrack, InUseIsFresh

LEMMA TrackNext ==
  ASSUME TypeOK, ChargeInv, TrackInv, [Next]_vars
  PROVE  TrackInv'
<1>0. TablesOK /\ CallsOK /\ PayerKnown /\ None \notin Track /\ Purged \notin Track
  BY TypeParts, DistinctAssumption DEF ChargeInv
<1>s. \A h \in Handler : call'[h].input = call[h].input =>
         /\ ClientOf(h)' = ClientOf(h) /\ TrackOf(h)' = TrackOf(h)
  BY DEF ClientOf, TrackOf
<1>i. \A h \in Handler : call[h].at # "idle" =>
         /\ ClientOf(h) \in Client /\ TrackOf(h) \in Track
         /\ SlotOf(h) \in Slot /\ SlotOf(h)[1] = ClientOf(h)
  BY <1>0, InputType
<1>r. \A s \in Slot : request[s] \in Track => <<s[1], request[s]>> \in tracks
  BY DEF TrackInv, RequestHasTrack
<1>h. \A h \in Handler :
         call[h].at # "idle" /\ ClientOf(h) \in installed => <<ClientOf(h), TrackOf(h)>> \in tracks
  BY DEF TrackInv, RequestHasTrack
<1>f. \A h \in Handler : call[h].at # "idle" => <<ClientOf(h), TrackOf(h)>> \notin aged
  BY DEF TrackInv, InUseIsFresh
\* A handler that was under way needs what it needed.
<1>k. ASSUME NEW h \in Handler, call'[h].at # "idle",
             \A c \in Client, k \in Key, t \in Track : ~Begin(h, c, k, t)
      PROVE  call[h].at # "idle" /\ call'[h].input = call[h].input
  BY <1>0, <1>k, HandlerStep
<1>1. CASE Purge
  <2>1. PICK R \in SUBSET {s \in Slot : request[s] \in Track} :
              /\ request' = [s \in Slot |-> IF s \in R THEN Purged ELSE request[s]]
              /\ tracks' = tracks \ Orphans(R) /\ aged' = aged \ Orphans(R)
              /\ UNCHANGED <<installed, call>>
    BY <1>1 DEF Purge
  <2>2. ASSUME NEW s \in Slot, request'[s] \in Track
        PROVE  <<s[1], request'[s]>> \in tracks'
    <3>1. s \notin R /\ request'[s] = request[s]
      BY <1>0, <2>1, <2>2
    <3>2. <<s[1], request[s]>> \notin Orphans(R)
      BY <3>1 DEF Orphans
    <3> QED
      BY <1>r, <2>1, <2>2, <3>1, <3>2
  <2>3. ASSUME NEW h \in Handler, call[h].at # "idle", ClientOf(h) \in installed
        PROVE  <<ClientOf(h), TrackOf(h)>> \in tracks'
    <3>1. <<ClientOf(h), TrackOf(h)>> \notin Orphans(R)
      BY <1>f, <2>3 DEF Orphans
    <3> QED
      BY <1>h, <2>1, <2>3, <3>1
  <2> QED
    BY <1>f, <1>s, <2>1, <2>2, <2>3 DEF TrackInv, RequestHasTrack, InUseIsFresh
<1>2. ASSUME NEW c \in Client, DeleteClient(c)
      PROVE  TrackInv'
  <2>1. ASSUME NEW s \in Slot, request'[s] \in Track
        PROVE  <<s[1], request'[s]>> \in tracks'
    BY <1>0, <1>2, <1>r, <2>1 DEF DeleteClient
  <2>2. ASSUME NEW h \in Handler, call[h].at # "idle", ClientOf(h) \in installed'
        PROVE  <<ClientOf(h), TrackOf(h)>> \in tracks'
    BY <1>2, <1>h, <2>2 DEF DeleteClient
  <2> QED
    BY <1>2, <1>f, <1>s, <2>1, <2>2 DEF TrackInv, RequestHasTrack, InUseIsFresh, DeleteClient
<1>3. ASSUME NEW g \in Handler, Create(g)
      PROVE  TrackInv'
  <2>0. UNCHANGED <<installed, tracks, aged>>
        /\ \A h \in Handler : call'[h] = call[h] \/ call'[h].at = "idle"
    BY <1>0, <1>3, GoesOn DEF Create
  <2>1. ASSUME NEW s \in Slot, request'[s] \in Track
        PROVE  <<s[1], request'[s]>> \in tracks'
    <3>1. \/ request'[s] = request[s]
          \/ s = SlotOf(g) /\ request'[s] = TrackOf(g) /\ ClientOf(g) \in installed
      BY <1>0, <1>3 DEF Create, TablesOK
    <3> QED
      BY <1>3, <1>h, <1>i, <1>r, <2>0, <2>1, <3>1 DEF Create
  <2> QED
    BY <1>f, <1>h, <1>s, <2>0, <2>1 DEF TrackInv, RequestHasTrack, InUseIsFresh
<1>4. ASSUME NEW g \in Handler, NEW c \in Client, NEW k \in Key, NEW t \in Track,
             Begin(g, c, k, t)
      PROVE  TrackInv'
  <2>1. /\ tracks' = tracks \cup {<<c, t>>} /\ aged' = aged \ {<<c, t>>}
        /\ UNCHANGED <<installed, request>>
        /\ call'[g].input = <<c, k, t>>
        /\ \A h \in Handler : h # g => call'[h] = call[h]
    BY <1>0, <1>4, BeginStep DEF Begin, UpsertTrackObservation
  <2>2. ClientOf(g)' = c /\ TrackOf(g)' = t
    BY <2>1 DEF ClientOf, TrackOf
  <2> QED
    BY <1>f, <1>h, <1>r, <1>s, <2>1, <2>2 DEF TrackInv, RequestHasTrack, InUseIsFresh
<1>5. CASE UNCHANGED <<installed, request, tracks, aged>>
           /\ \A h \in Handler, c \in Client, k \in Key, t \in Track : ~Begin(h, c, k, t)
  <2>1. ASSUME NEW h \in Handler, call'[h].at # "idle", ClientOf(h)' \in installed'
        PROVE  <<ClientOf(h)', TrackOf(h)'>> \in tracks'
    BY <1>5, <1>h, <1>k, <1>s, <2>1
  <2>2. ASSUME NEW h \in Handler, call'[h].at # "idle"
        PROVE  <<ClientOf(h)', TrackOf(h)'>> \notin aged'
    BY <1>5, <1>f, <1>k, <1>s, <2>2
  <2> QED
    BY <1>5, <1>r, <2>1, <2>2 DEF TrackInv, RequestHasTrack, InUseIsFresh
<1>6. CASE GrowOld
  BY <1>6, <1>f, <1>h, <1>r DEF GrowOld, TrackInv, RequestHasTrack, InUseIsFresh, ClientOf, TrackOf
<1>7. \/ Purge \/ GrowOld
      \/ \E c \in Client : DeleteClient(c)
      \/ \E g \in Handler : Create(g)
      \/ \E g \in Handler, c \in Client, k \in Key, t \in Track : Begin(g, c, k, t)
      \/ UNCHANGED <<installed, request, tracks, aged>>
  BY DEF Next, Step, vars, tables, ReadConsumed, ReadSubscription, InsertConsumption,
     CountAndCommit, Stop, UpdateSubscription, NextMonth
<1> QED
  BY <1>1, <1>2, <1>3, <1>4, <1>5, <1>6, <1>7

\* Neither a purge nor a deletion takes the observation that a request or a
\* handler needs, however old it was before (observation_store.go, operations_store.go).
THEOREM TrackKept == Spec => []RequestHasTrack
<1>1. TypeOK /\ ChargeInv /\ TrackInv /\ [Next]_vars => TrackInv'
  BY TrackNext
<1>2. TrackInv => RequestHasTrack
  BY DEF TrackInv
<1> QED
  BY <1>1, <1>2, TrackInit, ChargeInductive, PTL DEF Spec

-------------------------------------------------------------------------------
(* Wasted charges are paid for by faults.                                  *)

\* A step wastes a charge only when it is a fault, and then that of its handler.
LEMMA WasteStep ==
  ASSUME TypeOK, ChargeInv, [Next]_vars
  PROVE  \/ Wasted' \subseteq Wasted /\ faults' = faults
         \/ faults' = faults + 1 /\ \E s : Wasted' \subseteq Wasted \cup {s}
<1>0. TablesOK /\ CallsOK /\ PayerKnown /\ None \notin Track /\ Purged # None
  BY TypeParts, DistinctAssumption DEF ChargeInv
<1>s. \A h \in Handler : call'[h].input = call[h].input => SlotOf(h)' = SlotOf(h)
  BY DEF SlotOf
<1>i. \A h \in Handler : call[h].at # "idle" =>
         SlotOf(h) \in Slot /\ SlotOf(h)[1] = ClientOf(h) /\ TrackOf(h) \in Track
  BY <1>0, InputType
<1> DEFINE At(h, s) == call[h].at = "create" /\ SlotOf(h) = s
\* A slot that is newly wasted had a handler about to create its request.
<1>1. ASSUME NEW s \in Wasted', s \notin Wasted
      PROVE  \E h \in Handler : At(h, s) /\ ~At(h, s)' /\ (Stop(h) \/ Create(h))
  <2>0. s \in Slot /\ charged'[s] # 0 /\ request'[s] = None
        /\ \A h \in Handler : ~At(h, s)'
    BY <1>1 DEF Wasted
  <2>1. request[s] = None
    BY <1>0, <1>i, <2>0, RequestStep
  <2>2. ASSUME NEW h \in Handler, CountAndCommit(h), SlotOf(h) = s, charged[s] = 0
        PROVE  FALSE
    <3>1. call[h].at = "count" /\ call'[h].at \in {"create", "idle"}
          /\ (call'[h].at = "create" => call'[h].input = call[h].input)
      BY <1>0, <2>2, GoesOn DEF CountAndCommit
    <3>2. CASE call'[h].at = "create"
      BY <1>s, <2>0, <2>2, <3>1, <3>2
    <3>3. CASE call'[h].at = "idle"
      <4>1. Goto(h, "idle") \/ Goto(h, "create")
        BY <2>2 DEF CountAndCommit
      <4>2. ~Goto(h, "create")
        BY <1>0, <3>1, <3>3, GotoStep DEF Stage
      <4>3. UNCHANGED charged
        BY <2>2, <4>2 DEF CountAndCommit
      <4> QED
        BY <2>0, <2>2, <4>3
    <3> QED
      BY <3>1, <3>2, <3>3
  <2>3. charged[s] # 0
    BY <2>0, <2>2, ChargedStep
  <2>4. PICK h \in Handler : At(h, s)
    BY <1>1, <2>0, <2>1, <2>3 DEF Wasted
  <2>5. ~At(h, s)'
    BY <2>0
  <2>6. ~(call'[h].at = "create" /\ call'[h].input = call[h].input)
    BY <1>s, <2>4, <2>5
  <2>7. Stop(h) \/ Create(h)
    <3>1. ASSUME NEW g \in Handler,
                 \/ \E c \in Client, k \in Key, t \in Track : Begin(g, c, k, t)
                 \/ ReadConsumed(g) \/ ReadSubscription(g) \/ InsertConsumption(g)
                 \/ CountAndCommit(g)
          PROVE  FALSE
      <4>1. g # h
        BY <2>4, <3>1 DEF Begin, ReadConsumed, ReadSubscription, InsertConsumption,
           CountAndCommit
      <4>2. call'[h] = call[h]
        <5>1. ASSUME NEW c \in Client, NEW k \in Key, NEW t \in Track, Begin(g, c, k, t)
              PROVE  call'[h] = call[h]
          BY <1>0, <4>1, <5>1, BeginStep
        <5>2. CASE ReadConsumed(g)
          BY <1>0, <4>1, <5>2, ReadConsumedStep DEF RestOK, TypeOK
        <5>3. CASE ReadSubscription(g)
          BY <1>0, <4>1, <5>3, ReadSubscriptionStep
        <5>4. CASE InsertConsumption(g) \/ CountAndCommit(g)
          BY <1>0, <4>1, <5>4, GoesOn
        <5> QED
          BY <3>1, <5>1, <5>2, <5>3, <5>4
      <4> QED
        BY <2>4, <2>6, <4>2
    <3>2. ASSUME NEW g \in Handler, g # h, Create(g) \/ Stop(g)
          PROVE  FALSE
      BY <1>0, <2>4, <2>6, <3>2, GoesOn
    <3>3. ASSUME NEW a \in Account, NEW active \in BOOLEAN, NEW q \in 0..MaxQuota,
                 UpdateSubscription(a, active, q)
          PROVE  FALSE
      BY <1>0, <2>4, <2>6, <3>3, UpdateStep
    <3>4. ~UNCHANGED call
      BY <2>4, <2>6
    <3> QED
      BY <3>1, <3>2, <3>3, <3>4 DEF Next, Step, DeleteClient, GrowOld, Purge, NextMonth, vars
  <2> QED
    BY <2>4, <2>5, <2>7
<1>2. ASSUME NEW s \in Wasted', NEW h \in Handler, Create(h), At(h, s)
      PROVE  FALSE
  <2>1. s \in Slot /\ charged'[s] # 0 /\ request'[s] = None
    BY <1>2 DEF Wasted
  <2>2. charged[s] # 0
    BY <1>2, <2>1 DEF Create
  <2>3. ClientOf(h) \in installed
    BY <1>2, <1>i, <2>1, <2>2 DEF ChargeInv, GoneIsForgotten
  <2>4. request'[s] \in Track
    BY <1>0, <1>2, <1>i, <2>1, <2>3 DEF Create, TablesOK
  <2> QED
    BY <1>0, <2>1, <2>4
<1>3. ASSUME NEW h \in Handler, Stop(h)
      PROVE  faults' = faults + 1 /\ Wasted' \subseteq Wasted \cup {SlotOf(h)}
  <2>1. ASSUME NEW s \in Wasted', s \notin Wasted
        PROVE  s = SlotOf(h)
    <3>1. PICK g \in Handler : At(g, s) /\ ~At(g, s)'
      BY <1>1, <2>1
    <3>2. g = h
      <4>1. g # h => call'[g] = call[g]
        BY <1>0, <1>3, GoesOn
      <4> QED
        BY <1>s, <3>1, <4>1
    <3> QED
      BY <3>1, <3>2
  <2> QED
    BY <1>3, <2>1 DEF Stop
<1>4. ASSUME \A h \in Handler : ~Stop(h)
      PROVE  Wasted' \subseteq Wasted /\ faults' = faults
  <2>1. Wasted' \subseteq Wasted
    BY <1>1, <1>2, <1>4
  <2>2. faults' = faults
    BY <1>4 DEF Next, Step, vars, Begin, ReadConsumed, ReadSubscription, InsertConsumption,
       CountAndCommit, Create, UpdateSubscription, DeleteClient, GrowOld, Purge, NextMonth
  <2> QED
    BY <2>1, <2>2
<1> QED
  BY <1>3, <1>4

\* A charge without a request is one of a handler that stopped half way
\* (resolutions.go, the POST handler).
THEOREM WasteBound == Spec => []WasteIsBounded
<1> DEFINE Bound == IsFiniteSet(Wasted) /\ Cardinality(Wasted) <= faults
<1>1. Init => Bound
  <2>1. ASSUME Init PROVE Wasted = {} /\ faults = 0
    BY <2>1 DEF Init, Wasted
  <2> QED
    BY <2>1, FS_EmptySet
<1>2. ASSUME TypeOK, ChargeInv, Bound, [Next]_vars
      PROVE  Bound'
  <2>0. faults \in Nat
    BY <1>2 DEF TypeOK
  <2>1. CASE Wasted' \subseteq Wasted /\ faults' = faults
    BY <1>2, <2>0, <2>1, FS_Subset, FS_CardinalityType
  <2>2. ASSUME NEW s, faults' = faults + 1, Wasted' \subseteq Wasted \cup {s}
        PROVE  Bound'
    <3>1. Cardinality(Wasted) \in Nat
      BY <1>2, FS_CardinalityType
    <3>2. /\ IsFiniteSet(Wasted \cup {s})
          /\ Cardinality(Wasted \cup {s}) \in
                {Cardinality(Wasted), Cardinality(Wasted) + 1}
      <4>1. CASE s \in Wasted
        <5>1. Wasted \cup {s} = Wasted
          BY <4>1
        <5> QED
          BY <1>2, <5>1
      <4>2. CASE s \notin Wasted
        BY <1>2, <4>2, FS_AddElement
      <4> QED
        BY <4>1, <4>2
    <3> QED
      BY <1>2, <2>0, <2>2, <3>1, <3>2, FS_Subset, FS_CardinalityType
  <2> QED
    BY <1>2, <2>1, <2>2, WasteStep
<1>3. Bound => WasteIsBounded
  BY DEF WasteIsBounded
<1> QED
  BY <1>1, <1>2, <1>3, ChargeInductive, PTL DEF Spec
===============================================================================
