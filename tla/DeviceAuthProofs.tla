--------------------------- MODULE DeviceAuthProofs ----------------------------
(***************************************************************************)
(* Theorems about DeviceAuth for every set of codes, accounts, pollers and *)
(* approvers and all lifetimes.                                            *)
(***************************************************************************)
EXTENDS DeviceAuth, FiniteSetTheorems, TLAPS

\* A code has an account exactly from its approval on.
ApprovedHasAccount ==
    \A d \in Code : approvedBy[d] # None <=> status[d] \in {"approved", "consumed"}

\* The row of a code whose installation is being inserted is as the lock found
\* it, and no other poll holds it.
LockHolds ==
    \A p \in Poller : poll[p].at = "inserting" =>
        /\ status[poll[p].code] = "approved"
        /\ poll[p].now < expires[poll[p].code]
        /\ \A q \in Poller :
              poll[q].at = "inserting" /\ poll[q].code = poll[p].code => q = p

DeviceInv ==
    /\ ApprovedHasAccount
    /\ LockHolds
    /\ OneInstallationPerCode

-------------------------------------------------------------------------------
(* Types.                                                                  *)

LEMMA IdleType == Idle \in PollState /\ Idle.at = "idle"
  BY DEF Idle, PollState

LEMMA InitType == Init => TypeOK
  BY IdleType DEF Init, TypeOK, Status

RowsOK ==
    /\ operator \in BOOLEAN
    /\ session \in [Account -> Nat]
    /\ status \in [Code -> Status]
    /\ approvedBy \in [Code -> Account \cup {None}]
    /\ expires \in [Code -> Nat]
    /\ installed \in [Code -> SUBSET (Account \X Poller)]
    /\ token \in [Code -> BOOLEAN]
    /\ approval \in [Approver -> [code : Code, account : Account, now : Nat] \cup {None}]

PollsOK ==
    /\ poll \in [Poller -> PollState]
    /\ \A p \in Poller : poll[p].at # "idle" => poll[p].code # None

LEMMA TypeParts == TypeOK <=> clock \in Nat /\ RowsOK /\ PollsOK /\ faults \in Nat
  BY DEF TypeOK, RowsOK, PollsOK

LEMMA TypePartsNext ==
  ASSUME clock' \in Nat, RowsOK', PollsOK', faults' \in Nat
  PROVE  TypeOK'
  BY DEF TypeOK, RowsOK, PollsOK

LEMMA PollStepType ==
  ASSUME PollsOK, NEW p \in Poller, NEW r \in PollState, r.at # "idle" => r.code # None,
         poll' = [poll EXCEPT ![p] = r]
  PROVE  PollsOK'
  BY DEF PollsOK

LEMMA AnsweredType ==
  ASSUME PollsOK, NEW p \in Poller, Answered(p)
  PROVE  PollsOK'
  BY IdleType, PollStepType DEF Answered

LEMMA StageType ==
  ASSUME PollsOK, NEW p \in Poller, NEW stage \in {"inserting", "replying"},
         poll[p].at # "idle", poll' = [poll EXCEPT ![p].at = stage]
  PROVE  /\ PollsOK'
         /\ poll'[p].at = stage /\ poll'[p].code = poll[p].code /\ poll'[p].now = poll[p].now
         /\ poll[p].code \in Code
         /\ \A q \in Poller : q # p => poll'[q] = poll[q]
<1> DEFINE r == [poll[p] EXCEPT !.at = stage]
<1>1. poll[p] \in PollState /\ poll[p].code # None
  BY DEF PollsOK
<1>2. /\ r \in PollState /\ r.at = stage
      /\ r.code = poll[p].code /\ r.now = poll[p].now
  BY <1>1 DEF PollState
<1>3. poll' = [poll EXCEPT ![p] = r]
  OBVIOUS
<1>4. poll[p].code \in Code
  BY <1>1 DEF PollState
<1> HIDE DEF r
<1>5. poll'[p] = r /\ \A q \in Poller : q # p => poll'[q] = poll[q]
  BY <1>3 DEF PollsOK
<1> QED
  BY <1>1, <1>2, <1>3, <1>4, <1>5, PollStepType

LEMMA NextType ==
  ASSUME TypeOK, DeviceInv, [Next]_vars
  PROVE  TypeOK'
<1>0. clock \in Nat /\ RowsOK /\ PollsOK /\ faults \in Nat
  BY TypeParts
<1>a. UNCHANGED <<operator, session, status, approvedBy, expires, installed, token, approval>>
        => RowsOK'
  BY <1>0 DEF RowsOK
<1>b. UNCHANGED poll => PollsOK'
  BY <1>0 DEF PollsOK
<1> USE TypePartsNext, <1>0, <1>a, <1>b DEF rows
<1>1. CASE Tick
  BY <1>1 DEF Tick
<1>2. CASE CreateOperator
  <2>1. RowsOK'
    BY <1>2 DEF CreateOperator, RowsOK
  <2> QED
    BY <1>2, <2>1 DEF CreateOperator
<1>9. ASSUME NEW a \in Account, SignIn(a)
      PROVE  TypeOK'
  <2>1. session' \in [Account -> Nat]
    BY <1>9, TimeAssumption DEF SignIn, RowsOK
  <2>2. RowsOK'
    BY <1>9, <2>1 DEF SignIn, RowsOK
  <2> QED
    BY <1>9, <2>2 DEF SignIn
<1>3. ASSUME NEW d \in Code, StartDeviceAuthorization(d)
      PROVE  TypeOK'
  <2>1. RowsOK'
    BY <1>3, TimeAssumption DEF StartDeviceAuthorization, RowsOK, Status
  <2> QED
    BY <1>3, <2>1 DEF StartDeviceAuthorization
<1>4. ASSUME NEW v \in Approver, NEW a \in Account, NEW d \in Code, ApproveDevice(v, a, d)
      PROVE  TypeOK'
  <2>1. RowsOK'
    BY <1>4 DEF ApproveDevice, RowsOK
  <2> QED
    BY <1>4, <2>1 DEF ApproveDevice
<1>5. ASSUME NEW v \in Approver, ApproveDeviceAuthorization(v)
      PROVE  TypeOK'
  <2>1. approval[v].code \in Code /\ approval[v].account \in Account
    BY <1>5 DEF ApproveDeviceAuthorization, RowsOK
  <2>2. /\ status' \in [Code -> Status]
        /\ approvedBy' \in [Code -> Account \cup {None}]
        /\ approval' \in [Approver -> [code : Code, account : Account, now : Nat] \cup {None}]
    BY <1>5, <2>1 DEF ApproveDeviceAuthorization, RowsOK, Status
  <2>3. RowsOK'
    BY <1>5, <2>2 DEF ApproveDeviceAuthorization, RowsOK
  <2> QED
    BY <1>5, <2>3 DEF ApproveDeviceAuthorization
<1>6. ASSUME NEW p \in Poller, NEW d \in Code, PollDevice(p, d)
      PROVE  TypeOK'
  <2> DEFINE r == [at |-> "locking", code |-> d, now |-> clock]
  <2>1. r \in PollState /\ r.code # None
    BY NoneAssumption DEF PollState
  <2>2. PollsOK'
    BY <1>6, <2>1, PollStepType DEF PollDevice
  <2> QED
    BY <1>6, <2>2 DEF PollDevice
<1>7. ASSUME NEW p \in Poller, LockAuthorization(p)
      PROVE  TypeOK'
  <2>1. PollsOK'
    BY <1>7, AnsweredType, StageType DEF LockAuthorization
  <2> QED
    BY <1>7, <2>1 DEF LockAuthorization
<1>8. ASSUME NEW p \in Poller, ConsumeDeviceAuthorization(p)
      PROVE  TypeOK'
  <2>1. PollsOK' /\ poll[p].code \in Code
    BY <1>8, StageType DEF ConsumeDeviceAuthorization
  <2>2. approvedBy[poll[p].code] # None
    BY <1>8, <2>1 DEF ConsumeDeviceAuthorization, DeviceInv, LockHolds, ApprovedHasAccount
  <2>3. <<approvedBy[poll[p].code], p>> \in Account \X Poller
    BY <2>1, <2>2 DEF RowsOK
  <2>4. installed' \in [Code -> SUBSET (Account \X Poller)]
    BY <1>8, <2>1, <2>3 DEF ConsumeDeviceAuthorization, RowsOK
  <2>5. RowsOK'
    BY <1>8, <2>1, <2>4 DEF ConsumeDeviceAuthorization, RowsOK, Status
  <2> QED
    BY <1>8, <2>1, <2>5 DEF ConsumeDeviceAuthorization
<1>10. ASSUME NEW p \in Poller, Reply(p) \/ PollFault(p)
       PROVE  TypeOK'
  <2>1. PollsOK'
    BY <1>10, AnsweredType DEF Reply, PollFault
  <2>2. RowsOK'
    BY <1>10 DEF Reply, PollFault, RowsOK
  <2> QED
    BY <1>10, <2>1, <2>2 DEF Reply, PollFault
<1>11. CASE UNCHANGED vars
  BY <1>11 DEF vars
<1> QED
  BY <1>1, <1>2, <1>3, <1>4, <1>5, <1>6, <1>7, <1>8, <1>9, <1>10, <1>11 DEF Next, PollStep

-------------------------------------------------------------------------------
(* What the steps do to a code and to a poll.                              *)

LEMMA DeviceInit == Init => DeviceInv
  BY DEF Init, Idle, DeviceInv, ApprovedHasAccount, LockHolds, OneInstallationPerCode

\* A code is issued, approved and consumed, in this order.
LEMMA CodeStep ==
  ASSUME TypeOK, DeviceInv, [Next]_vars, NEW d \in Code
  PROVE  \/ UNCHANGED <<status[d], approvedBy[d], expires[d], installed[d]>>
         \/ /\ status[d] = "absent" /\ status'[d] = "pending"
            /\ UNCHANGED <<approvedBy[d], installed[d]>>
         \/ /\ status[d] = "pending" /\ status'[d] = "approved"
            /\ approvedBy'[d] \in Account
            /\ UNCHANGED <<expires[d], installed[d]>>
            /\ \E v \in Approver :
                  /\ approval[v] # None /\ approval'[v] = None
                  /\ approval[v].code = d /\ approval[v].now < expires[d]
                  /\ approvedBy'[d] = approval[v].account
         \/ /\ status[d] = "approved" /\ status'[d] = "consumed"
            /\ UNCHANGED <<approvedBy[d], expires[d]>>
            /\ \E p \in Poller :
                  /\ poll[p].at = "inserting" /\ poll[p].code = d
                  /\ poll[p].now < expires[d]
                  /\ poll'[p].at = "replying"
                  /\ installed'[d] = installed[d] \cup {<<approvedBy[d], p>>}
<1>0. RowsOK /\ PollsOK
  BY TypeParts
<1>1. ASSUME NEW e \in Code, StartDeviceAuthorization(e)
      PROVE  \/ UNCHANGED <<status[d], approvedBy[d], expires[d], installed[d]>>
             \/ /\ status[d] = "absent" /\ status'[d] = "pending"
                /\ UNCHANGED <<approvedBy[d], installed[d]>>
  BY <1>0, <1>1 DEF StartDeviceAuthorization, RowsOK
<1>2. ASSUME NEW v \in Approver, ApproveDeviceAuthorization(v)
      PROVE  \/ UNCHANGED <<status[d], approvedBy[d], expires[d], installed[d]>>
             \/ /\ status[d] = "pending" /\ status'[d] = "approved"
                /\ approvedBy'[d] \in Account
                /\ UNCHANGED <<expires[d], installed[d]>>
                /\ approval[v] # None /\ approval'[v] = None
                /\ approval[v].code = d /\ approval[v].now < expires[d]
                /\ approvedBy'[d] = approval[v].account
  <2>1. approval[v].account \in Account
    BY <1>0, <1>2 DEF ApproveDeviceAuthorization, RowsOK
  <2> QED
    BY <1>0, <1>2, <2>1, TimeAssumption DEF ApproveDeviceAuthorization, RowsOK
<1>3. ASSUME NEW p \in Poller, ConsumeDeviceAuthorization(p)
      PROVE  \/ UNCHANGED <<status[d], approvedBy[d], expires[d], installed[d]>>
             \/ /\ status[d] = "approved" /\ status'[d] = "consumed"
                /\ UNCHANGED <<approvedBy[d], expires[d]>>
                /\ poll[p].at = "inserting" /\ poll[p].code = d
                /\ poll[p].now < expires[d]
                /\ poll'[p].at = "replying"
                /\ installed'[d] = installed[d] \cup {<<approvedBy[d], p>>}
  <2>1. CASE poll[p].code # d
    BY <1>0, <1>3, <2>1 DEF ConsumeDeviceAuthorization, RowsOK
  <2>2. CASE poll[p].code = d
    <3>1. poll[p].at = "inserting" /\ status[d] = "approved" /\ poll[p].now < expires[d]
      BY <1>3, <2>2 DEF ConsumeDeviceAuthorization, DeviceInv, LockHolds
    <3> QED
      BY <1>0, <1>3, <2>2, <3>1, StageType DEF ConsumeDeviceAuthorization, RowsOK
  <2> QED
    BY <2>1, <2>2
<1> QED
  BY <1>1, <1>2, <1>3 DEF Next, PollStep, vars, rows, Tick, CreateOperator, SignIn, ApproveDevice,
     PollDevice, LockAuthorization, Reply, PollFault

\* A poll is about to insert only when it was already, or has just locked a
\* code that is approved, in time and not locked.
LEMMA InsertingStep ==
  ASSUME TypeOK, [Next]_vars, NEW p \in Poller, poll'[p].at = "inserting"
  PROVE  \/ poll[p].at = "inserting" /\ poll'[p] = poll[p]
         \/ /\ poll[p].at = "locking" /\ LockAuthorization(p) /\ Claimable(p)
            /\ poll'[p].code = poll[p].code /\ poll'[p].now = poll[p].now
<1>0. PollsOK /\ Idle.at = "idle"
  BY TypeParts, IdleType
<1>1. ASSUME NEW q \in Poller, Answered(q)
      PROVE  poll'[p] = poll[p] \/ poll'[p].at = "idle"
  BY <1>0, <1>1 DEF Answered, PollsOK
<1>2. ASSUME NEW q \in Poller, LockAuthorization(q)
      PROVE  \/ poll'[p] = poll[p]
             \/ poll'[p].at = "idle"
             \/ /\ q = p /\ poll[p].at = "locking" /\ Claimable(p)
                /\ poll'[p].code = poll[p].code /\ poll'[p].now = poll[p].now
  <2>1. CASE Answered(q)
    BY <1>1, <2>1
  <2>2. CASE Claimable(q) /\ poll' = [poll EXCEPT ![q].at = "inserting"]
    BY <1>0, <1>2, <2>2, StageType DEF LockAuthorization
  <2> QED
    BY <1>2, <2>1, <2>2 DEF LockAuthorization
<1>3. ASSUME NEW q \in Poller, ConsumeDeviceAuthorization(q)
      PROVE  poll'[p] = poll[p] \/ poll'[p].at = "replying"
  BY <1>0, <1>3, StageType DEF ConsumeDeviceAuthorization
<1>4. ASSUME NEW q \in Poller, NEW d \in Code, PollDevice(q, d)
      PROVE  poll'[p] = poll[p] \/ poll'[p].at = "locking"
  BY <1>0, <1>4 DEF PollDevice, PollsOK
<1>5. ASSUME NEW q \in Poller, Reply(q) \/ PollFault(q)
      PROVE  poll'[p] = poll[p] \/ poll'[p].at = "idle"
  BY <1>1, <1>5 DEF Reply, PollFault
<1> QED
  BY <1>2, <1>3, <1>4, <1>5 DEF Next, PollStep, vars, Tick, CreateOperator, SignIn,
     StartDeviceAuthorization, ApproveDevice, ApproveDeviceAuthorization

LEMMA DeviceNext ==
  ASSUME TypeOK, DeviceInv, [Next]_vars
  PROVE  DeviceInv'
<1>0. /\ status \in [Code -> Status] /\ approvedBy \in [Code -> Account \cup {None}]
      /\ PollsOK
  BY TypeParts DEF RowsOK
<1>1. ApprovedHasAccount'
  <2> SUFFICES ASSUME NEW d \in Code
               PROVE  approvedBy'[d] # None <=> status'[d] \in {"approved", "consumed"}
    BY DEF ApprovedHasAccount
  <2>1. approvedBy[d] # None <=> status[d] \in {"approved", "consumed"}
    BY DEF DeviceInv, ApprovedHasAccount
  <2> QED
    BY <2>1, CodeStep, NoneAssumption
<1>2. LockHolds'
  <2> SUFFICES ASSUME NEW p \in Poller, poll'[p].at = "inserting"
               PROVE  /\ status'[poll'[p].code] = "approved"
                      /\ poll'[p].now < expires'[poll'[p].code]
                      /\ \A q \in Poller :
                            poll'[q].at = "inserting" /\ poll'[q].code = poll'[p].code => q = p
    BY DEF LockHolds
  <2>1. CASE /\ LockAuthorization(p) /\ Claimable(p)
             /\ poll'[p].code = poll[p].code /\ poll'[p].now = poll[p].now
    <3>1. \A q \in Poller : q # p => poll'[q] = poll[q]
      BY <1>0, <2>1 DEF LockAuthorization, Answered, PollsOK
    <3> QED
      BY <2>1, <3>1 DEF LockAuthorization, RowFree, Claimable, rows
  <2>2. CASE poll[p].at = "inserting" /\ poll'[p] = poll[p]
    <3>1. /\ status[poll[p].code] = "approved" /\ poll[p].now < expires[poll[p].code]
          /\ poll[p].code \in Code
      BY <1>0, <2>2 DEF DeviceInv, LockHolds, PollsOK, PollState
    <3>2. /\ status'[poll[p].code] = "approved"
          /\ poll'[p].now < expires'[poll[p].code]
      BY <2>2, <3>1, CodeStep DEF DeviceInv, LockHolds
    <3>3. ASSUME NEW q \in Poller, poll'[q].at = "inserting", poll'[q].code = poll'[p].code
          PROVE  q = p
      <4>1. CASE poll[q].at = "inserting" /\ poll'[q] = poll[q]
        BY <2>2, <3>3, <4>1 DEF DeviceInv, LockHolds
      <4>2. CASE LockAuthorization(q) /\ poll'[q].code = poll[q].code
        BY <2>2, <3>3, <4>2 DEF LockAuthorization, RowFree
      <4> QED
        BY <3>3, <4>1, <4>2, InsertingStep
    <3> QED
      BY <2>2, <3>2, <3>3
  <2> QED
    BY <2>1, <2>2, InsertingStep
<1>3. OneInstallationPerCode'
  <2> SUFFICES ASSUME NEW d \in Code
               PROVE  /\ status'[d] = "consumed" <=> installed'[d] # {}
                      /\ \A x, y \in installed'[d] : x = y
                      /\ \A x \in installed'[d] : x[1] = approvedBy'[d] /\ x[1] # None
    BY DEF OneInstallationPerCode
  <2>1. /\ status[d] = "consumed" <=> installed[d] # {}
        /\ \A x, y \in installed[d] : x = y
        /\ \A x \in installed[d] : x[1] = approvedBy[d] /\ x[1] # None
        /\ approvedBy[d] # None <=> status[d] \in {"approved", "consumed"}
    BY DEF DeviceInv, OneInstallationPerCode, ApprovedHasAccount
  <2>2. CASE status[d] = "approved" /\ status'[d] = "consumed" /\ UNCHANGED approvedBy[d]
             /\ \E p \in Poller : installed'[d] = installed[d] \cup {<<approvedBy[d], p>>}
    <3>1. installed[d] = {} /\ approvedBy[d] # None
      BY <2>1, <2>2
    <3>2. PICK p \in Poller : installed'[d] = {<<approvedBy[d], p>>}
      BY <2>2, <3>1
    <3> QED
      BY <2>2, <3>1, <3>2
  <2>3. CASE UNCHANGED installed[d] /\ ~(status[d] = "approved" /\ status'[d] = "consumed")
    BY <2>1, <2>3, CodeStep
  <2> QED
    BY <2>2, <2>3, CodeStep
<1> QED
  BY <1>1, <1>2, <1>3 DEF DeviceInv

LEMMA Inductive == Spec => [](TypeOK /\ DeviceInv)
<1>1. Init => TypeOK /\ DeviceInv
  BY InitType, DeviceInit
<1>2. TypeOK /\ DeviceInv /\ [Next]_vars => TypeOK' /\ DeviceInv'
  BY NextType, DeviceNext
<1> QED
  BY <1>1, <1>2, PTL DEF Spec

-------------------------------------------------------------------------------

\* The rows and the calls under way are well formed (account_store.go).
THEOREM TypeCorrect == Spec => []TypeOK
  BY Inductive, PTL

\* However many polls race for an approval, one installation comes of it, for
\* the account that approved (account_store.go ConsumeDeviceAuthorization).
THEOREM OneInstallation == Spec => []OneInstallationPerCode
<1>1. DeviceInv => OneInstallationPerCode
  BY DEF DeviceInv
<1> QED
  BY <1>1, Inductive, PTL

\* The call that approves a code or takes its token began before the code
\* expired, and an approval is never replaced (account_store.go).
THEOREM ExpiryRespected == Spec => ExpiryIsRespected
<1> DEFINE Approved(d) ==
      status[d] = "pending" /\ status'[d] = "approved" =>
         \E v \in Approver :
            /\ approval[v] # None /\ approval'[v] = None
            /\ approval[v].code = d /\ approval[v].now < expires[d]
            /\ approvedBy'[d] = approval[v].account
           Taken(d) ==
      \A x \in installed'[d] \ installed[d] :
         poll[x[2]].code = d /\ poll[x[2]].now < expires[d]
           Respected ==
      \A d \in Code :
         /\ Approved(d)
         /\ Taken(d)
         /\ approvedBy[d] # None => approvedBy'[d] = approvedBy[d]
<1>1. ASSUME TypeOK, DeviceInv, [Next]_vars, NEW d \in Code
      PROVE  Approved(d) /\ Taken(d) /\ (approvedBy[d] # None => approvedBy'[d] = approvedBy[d])
  <2>1. approvedBy[d] # None <=> status[d] \in {"approved", "consumed"}
    BY <1>1 DEF DeviceInv, ApprovedHasAccount
  <2>2. Approved(d) /\ (approvedBy[d] # None => approvedBy'[d] = approvedBy[d])
    BY <1>1, <2>1, CodeStep
  <2>3. Taken(d)
    BY <1>1, CodeStep
  <2> QED
    BY <2>2, <2>3
<1>2. TypeOK /\ DeviceInv /\ [Next]_vars => [Respected]_vars
  BY <1>1
<1> QED
  BY <1>2, Inductive, PTL DEF Spec, ExpiryIsRespected

-------------------------------------------------------------------------------
(* Lost tokens are paid for by faults.                                     *)

\* A step loses a token only when it is a fault, and then that of its poll.
LEMMA LostStep ==
  ASSUME TypeOK, DeviceInv, [Next]_vars
  PROVE  \/ Lost' \subseteq Lost /\ faults' \in {faults, faults + 1}
         \/ faults' = faults + 1 /\ \E d \in Code \cup {None} : Lost' \subseteq Lost \cup {d}
<1>0. RowsOK /\ PollsOK /\ Idle.at = "idle"
  BY TypeParts, IdleType
<1>1. ASSUME NEW p \in Poller, PollFault(p)
      PROVE  faults' = faults + 1 /\ Lost' \subseteq Lost \cup {poll[p].code}
             /\ poll[p].code \in Code \cup {None}
  <2>1. \A q \in Poller : q # p => poll'[q] = poll[q]
    BY <1>0, <1>1 DEF PollFault, Answered, PollsOK
  <2> QED
    BY <1>0, <1>1, <2>1 DEF PollFault, Lost, rows, PollsOK, PollState
<1>2. ASSUME NEW p \in Poller, Reply(p)
      PROVE  Lost' \subseteq Lost /\ faults' = faults
  <2>1. \A q \in Poller : q # p => poll'[q] = poll[q]
    BY <1>0, <1>2 DEF Reply, Answered, PollsOK
  <2>2. poll[p].code \in Code /\ token'[poll[p].code] = TRUE
    BY <1>0, <1>2 DEF Reply, RowsOK, PollsOK, PollState
  <2>3. \A d \in Code : token[d] => token'[d]
    BY <1>0, <1>2 DEF Reply, RowsOK
  <2> QED
    BY <1>2, <2>1, <2>2, <2>3 DEF Reply, Lost, rows
<1>3. ASSUME NEW p \in Poller, ConsumeDeviceAuthorization(p)
      PROVE  Lost' \subseteq Lost /\ faults' = faults
  <2>1. /\ poll'[p].at = "replying" /\ poll'[p].code = poll[p].code
        /\ \A q \in Poller : q # p => poll'[q] = poll[q]
        /\ poll[p].at = "inserting"
    BY <1>0, <1>3, StageType DEF ConsumeDeviceAuthorization
  <2>2. \A d \in Code : d # poll[p].code => installed'[d] = installed[d]
    BY <1>0, <1>3 DEF ConsumeDeviceAuthorization, RowsOK
  <2> QED
    BY <1>3, <2>1, <2>2 DEF ConsumeDeviceAuthorization, Lost
<1>4. ASSUME NEW p \in Poller, LockAuthorization(p)
      PROVE  Lost' \subseteq Lost /\ faults' = faults
  <2>1. /\ poll[p].at = "locking"
        /\ \A q \in Poller : q # p => poll'[q] = poll[q]
    BY <1>0, <1>4 DEF LockAuthorization, Answered, PollsOK
  <2> QED
    BY <1>4, <2>1 DEF LockAuthorization, Lost, rows
<1>5. ASSUME NEW p \in Poller, NEW d \in Code, PollDevice(p, d)
      PROVE  Lost' \subseteq Lost /\ faults' = faults
  <2>1. /\ poll[p].at = "idle"
        /\ \A q \in Poller : q # p => poll'[q] = poll[q]
    BY <1>0, <1>5 DEF PollDevice, PollsOK
  <2> QED
    BY <1>5, <2>1 DEF PollDevice, Lost, rows
<1>6. CASE UNCHANGED <<installed, token, poll, faults>>
  BY <1>6 DEF Lost
<1> QED
  BY <1>1, <1>2, <1>3, <1>4, <1>5, <1>6 DEF Next, PollStep, vars, rows, Tick, CreateOperator,
     SignIn, StartDeviceAuthorization, ApproveDevice, ApproveDeviceAuthorization

\* Each token that never reaches its device is one fault's
\* (account/service.go PollDevice).
THEOREM LostBound == Spec => []LostTokensByFaultsOnly
<1> DEFINE Bound == IsFiniteSet(Lost) /\ Cardinality(Lost) <= faults
<1>1. Init => Bound
  <2>1. ASSUME Init PROVE Lost = {} /\ faults = 0
    BY <2>1 DEF Init, Lost
  <2> QED
    BY <2>1, FS_EmptySet
<1>2. ASSUME TypeOK, DeviceInv, Bound, [Next]_vars
      PROVE  Bound'
  <2>0. faults \in Nat
    BY <1>2 DEF TypeOK
  <2>1. CASE Lost' \subseteq Lost /\ faults' \in {faults, faults + 1}
    BY <1>2, <2>0, <2>1, FS_Subset, FS_CardinalityType
  <2>2. ASSUME NEW d, faults' = faults + 1, Lost' \subseteq Lost \cup {d}
        PROVE  Bound'
    <3>1. /\ IsFiniteSet(Lost \cup {d})
          /\ Cardinality(Lost \cup {d}) <= Cardinality(Lost) + 1
      <4>1. Cardinality(Lost) \in Nat
        BY <1>2, FS_CardinalityType
      <4> QED
        BY <1>2, <4>1, FS_AddElement
    <3> QED
      BY <1>2, <2>0, <2>2, <3>1, FS_Subset, FS_CardinalityType
  <2> QED
    BY <1>2, <2>1, <2>2, LostStep
<1>3. Bound => LostTokensByFaultsOnly
  BY DEF LostTokensByFaultsOnly
<1> QED
  BY <1>1, <1>2, <1>3, Inductive, PTL DEF Spec
===============================================================================
