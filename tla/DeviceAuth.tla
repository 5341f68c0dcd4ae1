------------------------------ MODULE DeviceAuth ------------------------------
(***************************************************************************)
(* Device authorization: a device asks for a code pair and polls with the  *)
(* device code; a customer account, in a session of its own, approves the  *)
(* user code; the first poll that finds the approval creates the client    *)
(* installation and gets its token.  Each call takes its own time stamp    *)
(* before it touches the database, so a slow call compares expiry times    *)
(* with a clock that has moved on.                                         *)
(***************************************************************************)
EXTENDS Naturals, FiniteSets

CONSTANTS
    Code,          \* device authorizations: a device code and its user code
    Account,       \* customer accounts, each with its e-mail address
    Poller,        \* polls in progress
    Approver,      \* approvals in progress
    None,          \* "no value"
    CodeLife,      \* expiry of a device code (600 s)
    SessionLife,   \* expiry of an account session (24 h)
    MaxClock,      \* bound: clock values
    MaxFaults      \* bound: polls that abort or whose answer is lost

ASSUME NoneAssumption == None \notin Account /\ None \notin Code
ASSUME TimeAssumption ==
    CodeLife \in Nat /\ SessionLife \in Nat /\ MaxClock \in Nat /\ MaxFaults \in Nat

VARIABLES
    clock,      \* the wall clock
    operator,   \* the users table has the operator that installations name
    session,    \* per account: when its session expires, 0 before it registers
    status,     \* per code: the status column, or "absent"
    approvedBy, \* per code: account_id
    expires,    \* per code: expires_at
    installed,  \* per code: accounts of the client_installations rows made for it
    token,      \* per code: the device has received its client token
    poll,       \* per poller: [at, code, now]
    approval,   \* per approver: [code, account, now], or None
    faults      \* number of faults so far

rows == <<status, approvedBy, expires, installed>>
vars == <<clock, operator, session, rows, token, poll, approval, faults>>

Status == {"absent", "pending", "approved", "consumed"}

PollState ==
    [at : {"idle", "locking", "inserting", "replying"}, code : Code \cup {None}, now : Nat]

TypeOK ==
    /\ clock \in Nat
    /\ operator \in BOOLEAN
    /\ session \in [Account -> Nat]
    /\ status \in [Code -> Status]
    /\ approvedBy \in [Code -> Account \cup {None}]
    /\ expires \in [Code -> Nat]
    /\ installed \in [Code -> SUBSET (Account \X Poller)]
    /\ token \in [Code -> BOOLEAN]
    /\ poll \in [Poller -> PollState]
    /\ \A p \in Poller : poll[p].at # "idle" => poll[p].code # None
    /\ approval \in [Approver -> [code : Code, account : Account, now : Nat] \cup {None}]
    /\ faults \in Nat

Idle == [at |-> "idle", code |-> None, now |-> 0]

Init ==
    /\ clock = 0
    /\ operator \in BOOLEAN
    /\ session = [a \in Account |-> 0]
    /\ status = [d \in Code |-> "absent"]
    /\ approvedBy = [d \in Code |-> None]
    /\ expires = [d \in Code |-> 0]
    /\ installed = [d \in Code |-> {}]
    /\ token = [d \in Code |-> FALSE]
    /\ poll = [p \in Poller |-> Idle]
    /\ approval = [v \in Approver |-> None]
    /\ faults = 0

Tick ==
    /\ clock < MaxClock
    /\ clock' = clock + 1
    /\ UNCHANGED <<operator, session, rows, token, poll, approval, faults>>

CreateOperator ==
    /\ ~operator
    /\ operator' = TRUE
    /\ UNCHANGED <<clock, session, rows, token, poll, approval, faults>>

\* Register or Login: a new session.  An e-mail address registers once.
SignIn(a) ==
    /\ session' = [session EXCEPT ![a] = clock + SessionLife]
    /\ UNCHANGED <<clock, operator, rows, token, poll, approval, faults>>

Authenticated(a) == session[a] > clock

StartDeviceAuthorization(d) ==
    /\ status[d] = "absent"
    /\ status' = [status EXCEPT ![d] = "pending"]
    /\ expires' = [expires EXCEPT ![d] = clock + CodeLife]
    /\ UNCHANGED <<clock, operator, session, approvedBy, installed, token, poll,
                   approval, faults>>

\* The session is checked and the time taken before the update is sent.
ApproveDevice(v, a, d) ==
    /\ approval[v] = None
    /\ Authenticated(a)
    /\ approval' = [approval EXCEPT ![v] = [code |-> d, account |-> a, now |-> clock]]
    /\ UNCHANGED <<clock, operator, session, rows, token, poll, faults>>

\* Mutant of ApproveDeviceAuthorization: an approval can be replaced.
ApproveAgain(v) ==
    /\ approval[v] # None
    /\ LET d == approval[v].code
       IN  IF status[d] \in {"pending", "approved"} /\ expires[d] > approval[v].now
             THEN /\ status' = [status EXCEPT ![d] = "approved"]
                  /\ approvedBy' = [approvedBy EXCEPT ![d] = approval[v].account]
             ELSE UNCHANGED <<status, approvedBy>>
    /\ approval' = [approval EXCEPT ![v] = None]
    /\ UNCHANGED <<clock, operator, session, expires, installed, token, poll, faults>>

\* One guarded update.  A poll that has locked the row has found it approved
\* already, so waiting for it makes no difference.
ApproveDeviceAuthorization(v) ==
    /\ approval[v] # None
    /\ LET d == approval[v].code
       IN  IF status[d] = "pending" /\ expires[d] > approval[v].now
             THEN /\ status' = [status EXCEPT ![d] = "approved"]
                  /\ approvedBy' = [approvedBy EXCEPT ![d] = approval[v].account]
             ELSE UNCHANGED <<status, approvedBy>>
    /\ approval' = [approval EXCEPT ![v] = None]
    /\ UNCHANGED <<clock, operator, session, expires, installed, token, poll, faults>>

-------------------------------------------------------------------------------
(* POST /device/token.                                                     *)

Answered(p) == poll' = [poll EXCEPT ![p] = Idle]

\* A device that has its token stops polling; a second copy of the call may
\* still be under way.
PollDevice(p, d) ==
    /\ poll[p].at = "idle"
    /\ ~token[d]
    /\ poll' = [poll EXCEPT ![p] = [at |-> "locking", code |-> d, now |-> clock]]
    /\ UNCHANGED <<clock, operator, session, rows, token, approval, faults>>

RowFree(d) == \A p \in Poller : ~(poll[p].at = "inserting" /\ poll[p].code = d)

\* An approved code in time, and an operator that its installation can name.
Claimable(p) ==
    /\ status[poll[p].code] = "approved"
    /\ poll[p].now < expires[poll[p].code]
    /\ operator

\* SELECT ... FOR UPDATE.  An approved row stays locked while the installation
\* is inserted; any other is answered at once: unknown or expired, which is
\* looked at first (400), still pending (428), consumed (410), no operator (400).
LockAuthorization(p) ==
    /\ poll[p].at = "locking"
    /\ RowFree(poll[p].code)
    /\ \/ Claimable(p) /\ poll' = [poll EXCEPT ![p].at = "inserting"]
       \/ ~Claimable(p) /\ Answered(p)
    /\ UNCHANGED <<clock, operator, session, rows, token, approval, faults>>

\* Mutants of ConsumeDeviceAuthorization: the code stays approved; an audit
\* event that fails is an error after the commit.
ConsumeNothing(p) ==
    /\ poll[p].at = "inserting"
    /\ LET d == poll[p].code
       IN  /\ installed' = [installed EXCEPT ![d] = @ \cup {<<approvedBy[d], p>>}]
           /\ poll' = [poll EXCEPT ![p].at = "replying"]
    /\ UNCHANGED <<clock, operator, session, status, approvedBy, expires, token,
                   approval, faults>>

ConsumeBeforeAudit(p) ==
    /\ poll[p].at = "inserting"
    /\ LET d == poll[p].code
       IN  /\ installed' = [installed EXCEPT ![d] = @ \cup {<<approvedBy[d], p>>}]
           /\ status' = [status EXCEPT ![d] = "consumed"]
    /\ Answered(p)
    /\ UNCHANGED <<clock, operator, session, approvedBy, expires, token, approval, faults>>

\* The installation, the end of the code and the audit event, committed as one.
ConsumeDeviceAuthorization(p) ==
    /\ poll[p].at = "inserting"
    /\ LET d == poll[p].code
       IN  /\ installed' = [installed EXCEPT ![d] = @ \cup {<<approvedBy[d], p>>}]
           /\ status' = [status EXCEPT ![d] = "consumed"]
    /\ poll' = [poll EXCEPT ![p].at = "replying"]
    /\ UNCHANGED <<clock, operator, session, approvedBy, expires, token, approval, faults>>

Reply(p) ==
    /\ poll[p].at = "replying"
    /\ token' = [token EXCEPT ![poll[p].code] = TRUE]
    /\ Answered(p)
    /\ UNCHANGED <<clock, operator, session, rows, approval, faults>>

\* The transaction is rolled back, or the answer with the token is lost.
PollFault(p) ==
    /\ poll[p].at # "idle"
    /\ faults < MaxFaults
    /\ faults' = faults + 1
    /\ Answered(p)
    /\ UNCHANGED <<clock, operator, session, rows, token, approval>>

PollStep(p) == LockAuthorization(p) \/ ConsumeDeviceAuthorization(p) \/ Reply(p)

Next ==
    \/ Tick
    \/ CreateOperator
    \/ \E a \in Account : SignIn(a)
    \/ \E d \in Code : StartDeviceAuthorization(d)
    \/ \E v \in Approver :
          \/ \E a \in Account, d \in Code : ApproveDevice(v, a, d)
          \/ ApproveDeviceAuthorization(v)
    \/ \E p \in Poller :
          \/ \E d \in Code : PollDevice(p, d)
          \/ PollStep(p)
          \/ PollFault(p)

Spec == Init /\ [][Next]_vars

-------------------------------------------------------------------------------

\* However many copies of a poll race for one approval, at most one client
\* installation comes of it, for the account that approved, and exactly when
\* the code is consumed (account_store.go ConsumeDeviceAuthorization).
OneInstallationPerCode ==
    \A d \in Code :
        /\ status[d] = "consumed" <=> installed[d] # {}
        /\ \A x, y \in installed[d] : x = y
        /\ \A x \in installed[d] : x[1] = approvedBy[d] /\ x[1] # None

\* A token is given out once: each installation's token is still on its way to
\* the device, or has arrived, or was lost with one of the faults.
Lost ==
    {d \in Code :
        /\ installed[d] # {}
        /\ ~token[d]
        /\ \A p \in Poller : ~(poll[p].at = "replying" /\ poll[p].code = d)}

LostTokensByFaultsOnly == Cardinality(Lost) <= faults

\* The very call that approves a code or takes its token began before the code
\* expired, and the account that approved it is never replaced (account_store.go
\* ApproveDeviceAuthorization, ConsumeDeviceAuthorization).
ExpiryIsRespected ==
    [][\A d \in Code :
          /\ status[d] = "pending" /\ status'[d] = "approved" =>
                \E v \in Approver :
                   /\ approval[v] # None /\ approval'[v] = None
                   /\ approval[v].code = d /\ approval[v].now < expires[d]
                   /\ approvedBy'[d] = approval[v].account
          /\ \A x \in installed'[d] \ installed[d] :
                poll[x[2]].code = d /\ poll[x[2]].now < expires[d]
          /\ approvedBy[d] # None => approvedBy'[d] = approvedBy[d]]_vars
===============================================================================
