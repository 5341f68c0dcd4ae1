-------------------------- MODULE OperatorAuthProofs ---------------------------
(***************************************************************************)
(* Theorems about OperatorAuth for every set of sessions and calls and all *)
(* lifetimes.                                                              *)
(***************************************************************************)
EXTENDS OperatorAuth, TLAPS

\* A session's recorded sight is one of its uses, and no use is in the future.
UsesArePast ==
    \A x \in opened : lastSeen[x] <= lastUse[x] /\ lastUse[x] <= clock

\* What a call carries of its session is of its past; only a use that was found
\* valid is going to be written.
CarriedIsPast ==
    \A h \in Call : call[h].at # "idle" =>
        /\ call[h].expires = expires[call[h].session]
        /\ call[h].seen <= lastUse[call[h].session]
        /\ call[h].at = "touching" => call[h].now <= lastUse[call[h].session]

SessionInv == UsesArePast /\ CarriedIsPast

-------------------------------------------------------------------------------
(* Types.                                                                  *)

LEMMA IdleType == Idle \in CallState /\ Idle.at = "idle"
  BY DEF Idle, CallState

LEMMA InitType == Init => TypeOK
  BY IdleType DEF Init, TypeOK

TablesOK ==
    /\ users \subseteq User
    /\ setup \in [Setup -> User \cup {None}]
    /\ opened \subseteq Session
    /\ revoked \subseteq opened
    /\ expires \in [Session -> Nat]
    /\ lastSeen \in [Session -> Nat]
    /\ lastUse \in [Session -> Nat]

CallsOK ==
    /\ call \in [Call -> CallState]
    /\ \A h \in Call : call[h].at # "idle" => call[h].session \in opened

LEMMA TypeParts == TypeOK => clock \in Nat /\ TablesOK /\ CallsOK
  BY DEF TypeOK, TablesOK, CallsOK

LEMMA TypePartsNext ==
  ASSUME clock' \in Nat, TablesOK', CallsOK'
  PROVE  TypeOK'
  BY DEF TypeOK, TablesOK, CallsOK

LEMMA CallStep ==
  ASSUME CallsOK, NEW h \in Call, NEW r \in CallState, r.at # "idle" => r.session \in opened,
         call' = [call EXCEPT ![h] = r], opened' = opened
  PROVE  CallsOK'
  BY DEF CallsOK

LEMMA EndedType ==
  ASSUME CallsOK, NEW h \in Call, Ended(h), opened' = opened
  PROVE  CallsOK'
  BY IdleType, CallStep DEF Ended

LEMMA NextType ==
  ASSUME TypeOK, [Next]_vars
  PROVE  TypeOK'
<1>0. clock \in Nat /\ TablesOK /\ CallsOK
  BY TypeParts
<1>a. UNCHANGED <<users, setup, opened, revoked, expires, lastSeen, lastUse>> => TablesOK'
  BY <1>0 DEF TablesOK
<1>b. UNCHANGED <<opened, call>> => CallsOK'
  BY <1>0 DEF CallsOK
<1>c. UNCHANGED clock => clock' \in Nat
  BY <1>0
<1>d. \A h \in Call : call[h] \in CallState /\ (call[h].at # "idle" => call[h].session \in opened)
  BY <1>0 DEF CallsOK
<1> USE TypePartsNext, <1>0, <1>a, <1>b, <1>c DEF rows
<1>1. CASE Tick
  <2>1. clock' \in Nat
    BY <1>1 DEF Tick
  <2> QED
    BY <1>1, <2>1 DEF Tick
<1>2. ASSUME NEW s \in Setup,
             (\E u \in User : CheckSetup(s, u)) \/ InsertAdmin(s) \/ SetupFails(s)
      PROVE  TypeOK'
  <2>1. TablesOK'
    BY <1>2 DEF CheckSetup, InsertAdmin, SetupFails, TablesOK
  <2> QED
    BY <1>2, <2>1 DEF CheckSetup, InsertAdmin, SetupFails
<1>3. ASSUME NEW x \in Session, Login(x) \/ Logout(x)
      PROVE  TypeOK'
  <2>1. TablesOK'
    <3>1. CASE Login(x)
      <4>1. clock + AbsoluteLife \in Nat
        BY TimeAssumption
      <4> QED
        BY <3>1, <4>1 DEF Login, TablesOK
    <3>2. CASE Logout(x)
      BY <3>2 DEF Logout, TablesOK
    <3> QED
      BY <1>3, <3>1, <3>2
  <2>2. CallsOK'
    BY <1>3 DEF Login, Logout, CallsOK
  <2> QED
    BY <1>3, <2>1, <2>2 DEF Login, Logout
<1>4. ASSUME NEW h \in Call, NEW x \in Session, FindSession(h, x)
      PROVE  TypeOK'
  <2> DEFINE r == [at |-> "deciding", session |-> x, now |-> 0,
                   expires |-> expires[x], seen |-> lastSeen[x]]
  <2>1. r \in CallState /\ r.session \in opened
    BY <1>4 DEF FindSession, Usable, CallState, TablesOK
  <2>2. call' = [call EXCEPT ![h] = r] /\ opened' = opened
    BY <1>4 DEF FindSession
  <2> HIDE DEF r
  <2>3. CallsOK'
    BY <2>1, <2>2, CallStep
  <2> QED
    BY <1>4, <2>3 DEF FindSession
<1>5. ASSUME NEW h \in Call, Decide(h)
      PROVE  TypeOK'
  <2>0. call[h] \in CallState /\ call[h].session \in opened /\ opened' = opened
    BY <1>5, <1>d DEF Decide
  <2>1. TablesOK'
    BY <1>5, <2>0 DEF Decide, TablesOK
  <2>2. CASE call' = [call EXCEPT ![h].at = "ending"]
    <3> DEFINE r == [call[h] EXCEPT !.at = "ending"]
    <3>1. r \in CallState /\ r.session = call[h].session
      BY <2>0 DEF CallState
    <3>2. call' = [call EXCEPT ![h] = r]
      BY <2>2 DEF CallsOK
    <3> HIDE DEF r
    <3>3. CallsOK'
      BY <2>0, <3>1, <3>2, CallStep
    <3> QED
      BY <1>5, <2>1, <3>3 DEF Decide
  <2>3. CASE call' = [call EXCEPT ![h].at = "touching", ![h].now = clock]
    <3> DEFINE r == [call[h] EXCEPT !.at = "touching", !.now = clock]
    <3>1. r \in CallState /\ r.session = call[h].session
      BY <2>0 DEF CallState
    <3>2. call' = [call EXCEPT ![h] = r]
      BY <2>3 DEF CallsOK
    <3> HIDE DEF r
    <3>3. CallsOK'
      BY <2>0, <3>1, <3>2, CallStep
    <3> QED
      BY <1>5, <2>1, <3>3 DEF Decide
  <2>4. CASE Ended(h)
    <3>1. CallsOK'
      BY <2>0, <2>4, EndedType
    <3> QED
      BY <1>5, <2>1, <3>1 DEF Decide
  <2> QED
    BY <1>5, <2>2, <2>3, <2>4 DEF Decide
<1>6. ASSUME NEW h \in Call, TouchSession(h) \/ EndSession(h) \/ CallFails(h)
      PROVE  TypeOK'
  <2>0. call[h] \in CallState /\ call[h].session \in opened /\ opened' = opened
    BY <1>6, <1>d DEF TouchSession, TouchRow, EndSession, CallFails
  <2>1. TablesOK'
    BY <1>6, <2>0 DEF TouchSession, TouchRow, EndSession, CallFails, TablesOK, CallState
  <2>2. CallsOK'
    BY <1>6, <2>0, EndedType DEF TouchSession, EndSession, CallFails
  <2> QED
    BY <1>6, <2>1, <2>2 DEF TouchSession, EndSession, CallFails
<1>7. CASE UNCHANGED vars
  BY <1>7 DEF vars
<1> QED
  BY <1>1, <1>2, <1>3, <1>4, <1>5, <1>6, <1>7 DEF Next

\* The rows of sessions and what calls carry of them are well formed
\* (auth_store.go, session.go).
THEOREM TypeCorrect == Spec => []TypeOK
<1>1. Init => TypeOK
  BY InitType
<1>2. TypeOK /\ [Next]_vars => TypeOK'
  BY NextType
<1> QED
  BY <1>1, <1>2, PTL DEF Spec

-------------------------------------------------------------------------------
(* Revocation.                                                             *)

LEMMA RevocationStep ==
  ASSUME TypeOK, [Next]_vars, NEW x \in revoked
  PROVE  x \in revoked' /\ lastSeen'[x] = lastSeen[x]
<1>0. x \in opened /\ x \in Session /\ lastSeen \in [Session -> Nat]
  BY DEF TypeOK
<1>1. ASSUME NEW y \in Session, Login(y)
      PROVE  x \in revoked' /\ lastSeen'[x] = lastSeen[x]
  BY <1>0, <1>1 DEF Login
<1>2. ASSUME NEW h \in Call, TouchSession(h)
      PROVE  x \in revoked' /\ lastSeen'[x] = lastSeen[x]
  BY <1>0, <1>2 DEF TouchSession, TouchRow
<1>3. ASSUME NEW h \in Call, EndSession(h)
      PROVE  x \in revoked' /\ lastSeen'[x] = lastSeen[x]
  BY <1>3 DEF EndSession
<1> QED
  BY <1>1, <1>2, <1>3 DEF Next, vars, rows, Tick, CheckSetup, InsertAdmin, SetupFails, Logout,
     FindSession, Decide, CallFails

\* A session that was revoked stays revoked, and no touch decided before
\* changes its row, for any number of calls (auth_store.go TouchSession,
\* RevokeSession).
THEOREM RevocationFinal == Spec => RevocationIsFinal
<1>1. TypeOK /\ [Next]_vars =>
        [\A x \in revoked : x \in revoked' /\ lastSeen'[x] = lastSeen[x]]_vars
  BY RevocationStep
<1> QED
  BY <1>1, TypeCorrect, PTL DEF Spec, RevocationIsFinal

-------------------------------------------------------------------------------
(* Silence.                                                                *)

LEMMA SessionInit == Init => SessionInv
  BY DEF Init, Idle, SessionInv, UsesArePast, CarriedIsPast

\* What a step does to the uses of a session.
LEMMA UseStep ==
  ASSUME TypeOK, SessionInv, [Next]_vars, NEW x \in opened
  PROVE  \/ lastUse'[x] = lastUse[x]
         \/ /\ lastUse'[x] = clock
            /\ clock <= lastUse[x] + IdleLife
            /\ clock < expires[x]
<1>0. /\ x \in Session /\ lastUse \in [Session -> Nat] /\ clock \in Nat
      /\ \A h \in Call : /\ call[h].at # "idle" => call[h].session \in opened
                         /\ call[h].seen \in Nat /\ call[h].expires \in Nat
  BY DEF TypeOK, CallState
<1>1. ASSUME NEW h \in Call, Decide(h)
      PROVE  \/ lastUse'[x] = lastUse[x]
             \/ /\ lastUse'[x] = clock
                /\ clock <= lastUse[x] + IdleLife
                /\ clock < expires[x]
  <2>1. CASE UNCHANGED lastUse
    BY <2>1
  <2>2. CASE ~Over(h) /\ lastUse' = [lastUse EXCEPT ![call[h].session] = clock]
    <3>1. CASE call[h].session # x
      BY <1>0, <2>2, <3>1
    <3>2. CASE call[h].session = x
      <4>1. call[h].expires = expires[x] /\ call[h].seen <= lastUse[x]
        BY <1>1, <3>2 DEF Decide, SessionInv, CarriedIsPast
      <4>2. clock < call[h].expires /\ clock <= call[h].seen + IdleLife
        BY <1>0, <2>2, <4>1, TimeAssumption DEF Over
      <4>3. lastUse'[x] = clock
        BY <1>0, <2>2, <3>2
      <4> QED
        BY <1>0, <4>1, <4>2, <4>3, TimeAssumption
    <3> QED
      BY <3>1, <3>2
  <2> QED
    BY <1>1, <2>1, <2>2 DEF Decide
<1>2. ASSUME NEW y \in Session, Login(y)
      PROVE  lastUse'[x] = lastUse[x]
  BY <1>0, <1>2 DEF Login
<1> QED
  BY <1>1, <1>2 DEF Next, vars, Tick, CheckSetup, InsertAdmin, SetupFails, Logout, FindSession,
     TouchSession, EndSession, CallFails

LEMMA SessionNext ==
  ASSUME TypeOK, SessionInv, [Next]_vars
  PROVE  SessionInv'
<1>0. /\ lastUse \in [Session -> Nat] /\ lastSeen \in [Session -> Nat]
      /\ expires \in [Session -> Nat] /\ opened \subseteq Session
      /\ clock \in Nat /\ call \in [Call -> CallState]
      /\ \A h \in Call : call[h].at # "idle" => call[h].session \in opened
  BY DEF TypeOK
<1>a. \A x \in opened : lastSeen[x] <= lastUse[x] /\ lastUse[x] <= clock
  BY DEF SessionInv, UsesArePast
<1>b. \A h \in Call : call[h].at # "idle" =>
         /\ call[h].expires = expires[call[h].session]
         /\ call[h].seen <= lastUse[call[h].session]
         /\ call[h].at = "touching" => call[h].now <= lastUse[call[h].session]
  BY DEF SessionInv, CarriedIsPast
<1> USE <1>0, IdleType DEF SessionInv, UsesArePast, CarriedIsPast
<1>1. CASE UNCHANGED <<opened, expires, lastSeen, lastUse, clock>>
           /\ \E g \in Call : call' = [call EXCEPT ![g] = Idle]
  <2>1. PICK g \in Call : call' = [call EXCEPT ![g] = Idle]
    BY <1>1
  <2>2. \A h \in Call : call'[h] = call[h] \/ call'[h].at = "idle"
    BY <2>1
  <2> QED
    BY <1>1, <1>a, <1>b, <2>2
<1>2. CASE UNCHANGED <<opened, expires, lastSeen, lastUse, call>>
           /\ clock' \in {clock, clock + 1}
  BY <1>2, <1>a, <1>b
<1>3. ASSUME NEW x \in Session, Login(x)
      PROVE  SessionInv'
  <2>1. \A y \in opened : /\ expires'[y] = expires[y] /\ lastSeen'[y] = lastSeen[y]
                          /\ lastUse'[y] = lastUse[y]
    BY <1>3 DEF Login
  <2>2. lastSeen'[x] = clock /\ lastUse'[x] = clock /\ opened' = opened \cup {x}
        /\ UNCHANGED <<clock, call>>
    BY <1>3 DEF Login
  <2> QED
    BY <1>a, <1>b, <2>1, <2>2
<1>4. ASSUME NEW h \in Call, NEW x \in Session, FindSession(h, x)
      PROVE  SessionInv'
  <2>1. \A g \in Call : \/ call'[g] = call[g]
                        \/ call'[g] = [at |-> "deciding", session |-> x, now |-> 0,
                                       expires |-> expires[x], seen |-> lastSeen[x]]
    BY <1>4 DEF FindSession
  <2>2. x \in opened /\ UNCHANGED <<opened, expires, lastSeen, lastUse, clock>>
    BY <1>4 DEF FindSession, Usable, rows
  <2> QED
    BY <1>a, <1>b, <2>1, <2>2
<1>5. ASSUME NEW h \in Call, Decide(h)
      PROVE  SessionInv'
  <2>0. /\ call[h].at = "deciding" /\ call[h].session \in opened
        /\ UNCHANGED <<clock, opened, expires, lastSeen>>
    BY <1>5 DEF Decide, rows
  <2>1. CASE UNCHANGED lastUse /\ call' = [call EXCEPT ![h].at = "ending"]
    <3>1. \A g \in Call : /\ g # h => call'[g] = call[g]
                          /\ call'[g].session = call[g].session
                          /\ call'[g].expires = call[g].expires
                          /\ call'[g].seen = call[g].seen
      BY <2>1 DEF CallState
    <3>2. call'[h].at = "ending"
      BY <2>1 DEF CallState
    <3> QED
      BY <1>a, <1>b, <2>0, <2>1, <3>1, <3>2
  <2>2. CASE /\ lastUse' = [lastUse EXCEPT ![call[h].session] = clock]
             /\ \/ call' = [call EXCEPT ![h].at = "touching", ![h].now = clock]
                \/ Ended(h)
    <3>1. \A x \in opened : lastUse[x] <= lastUse'[x] /\ lastUse'[x] <= clock
      BY <1>a, <2>2
    <3>2. lastUse'[call[h].session] = clock
      BY <2>0, <2>2
    <3>3. \A x \in opened : lastSeen'[x] <= lastUse'[x] /\ lastUse'[x] <= clock'
      BY <1>a, <2>0, <3>1, <2>2
    <3>4. \A g \in Call : g # h => call'[g] = call[g]
      BY <2>2 DEF Ended
    <3>5. \/ call'[h].at = "idle"
          \/ /\ call'[h].session = call[h].session /\ call'[h].expires = call[h].expires
             /\ call'[h].seen = call[h].seen /\ call'[h].now = clock
      BY <2>2 DEF Ended, CallState
    <3>6. ASSUME NEW g \in Call, call'[g].at # "idle"
          PROVE  /\ call'[g].expires = expires'[call'[g].session]
                 /\ call'[g].seen <= lastUse'[call'[g].session]
                 /\ call'[g].at = "touching" => call'[g].now <= lastUse'[call'[g].session]
      <4>1. CASE g = h
        <5>1. call[h].seen <= clock /\ call[h].expires = expires[call[h].session]
          BY <1>a, <1>b, <2>0 DEF CallState
        <5> QED
          BY <2>0, <3>2, <3>5, <3>6, <4>1, <5>1
      <4>2. CASE g # h
        <5>1. /\ call'[g] = call[g] /\ call[g].session \in opened
              /\ call[g].seen \in Nat /\ call[g].now \in Nat
          BY <3>4, <3>6, <4>2 DEF CallState
        <5>2. /\ lastUse'[call[g].session] \in Nat
              /\ lastUse[call[g].session] <= lastUse'[call[g].session]
          BY <2>2, <3>1, <5>1
        <5> QED
          BY <1>b, <2>0, <3>6, <5>1, <5>2
      <4> QED
        BY <4>1, <4>2
    <3> QED
      BY <2>0, <3>3, <3>6
  <2> QED
    BY <1>5, <2>1, <2>2 DEF Decide
<1>6. ASSUME NEW h \in Call, TouchSession(h)
      PROVE  SessionInv'
  <2>0. /\ call[h].at = "touching" /\ call[h].session \in opened
        /\ UNCHANGED <<clock, opened, expires, lastUse>>
    BY <1>6 DEF TouchSession, TouchRow
  <2>1. call[h].now <= lastUse[call[h].session] /\ call[h].now \in Nat
    BY <1>b, <2>0 DEF CallState
  <2>2. \A x \in opened : lastSeen'[x] <= lastUse'[x] /\ lastUse'[x] <= clock'
    BY <1>6, <1>a, <2>0, <2>1 DEF TouchSession, TouchRow
  <2>3. \A g \in Call : call'[g] = call[g] \/ call'[g].at = "idle"
    BY <1>6 DEF TouchSession, Ended
  <2> QED
    BY <1>b, <2>0, <2>2, <2>3
<1>7. ASSUME NEW h \in Call, EndSession(h) \/ CallFails(h)
      PROVE  SessionInv'
  BY <1>1, <1>7 DEF EndSession, CallFails, Ended, rows
<1> QED
  BY <1>2, <1>3, <1>4, <1>5, <1>6, <1>7 DEF Next, vars, rows, Tick, CheckSetup, InsertAdmin,
     SetupFails, Logout

\* A session that was silent for longer than IdleLife, or is at its absolute
\* end, is never found valid again, whatever the order in which touches of any
\* number of calls land (session.go Authenticate).
THEOREM SilenceEnds == Spec => SilenceEndsSession
<1>1. Init => TypeOK /\ SessionInv
  BY InitType, SessionInit
<1>2. TypeOK /\ SessionInv /\ [Next]_vars => TypeOK' /\ SessionInv'
  BY NextType, SessionNext
<1>3. TypeOK /\ SessionInv /\ [Next]_vars =>
        [\A x \in opened : lastUse'[x] # lastUse[x] =>
            lastUse'[x] <= lastUse[x] + IdleLife /\ lastUse'[x] < expires[x]]_vars
  BY UseStep
<1> QED
  BY <1>1, <1>2, <1>3, PTL DEF Spec, SilenceEndsSession
===============================================================================
