----------------------------- MODULE ClientAccess ------------------------------
(***************************************************************************)
(* Client installations and the calls their tokens authenticate.  A call   *)
(* reads the installation, decides, and then, when the last recorded sight *)
(* of the client is old enough, writes the new one, and at last asks the   *)
(* rate limiter; the operator revokes and deletes installations meanwhile, *)
(* and leaves an audit trail.  Only the row locks of single statements and *)
(* the limiter's mutex order these steps.                                  *)
(*                                                                         *)
(* One clock unit stands for a second or more: the times in the table are  *)
(* compared as texts, whose order is that of the times from there on.      *)
(***************************************************************************)
EXTENDS RateLimiter, Integers, Sequences

CONSTANTS
    Call,           \* HTTP requests with a client token in progress
    Deletion,       \* operator requests that delete a client in progress
    TouchInterval,  \* lastSeenTouchInterval (5 min)
    MaxClock        \* bound: clock values

ASSUME NoneAssumption == None \notin Nat /\ None \notin Client
ASSUME TimeAssumption == TouchInterval \in Nat \ {0} /\ MaxClock \in Nat

VARIABLES
    clock,     \* the wall clock
    status,    \* per client: its row's status, or that there is no row
    lastSeen,  \* per client: last_seen_at
    audit,     \* per client: how many audit events of each action name it
    call,      \* per call: [at, client, seen, now]
    deleting,  \* per deletion: the client it found revoked, or None
    began,     \* history, per call: the client's status when the call began
    served,    \* history, per client: the latest now of a call authenticated
    passed,    \* history, per client: the times at which the limiter let calls through
    late       \* history, per client: the times at which it let one through
               \* that had taken its own time earlier

rows    == <<status, lastSeen, audit>>
history == <<began, served, passed, late>>
vars    == <<clock, rows, limiter, call, deleting, history>>

Status == {"absent", "active", "revoked", "deleted"}
Action == {"created", "revoked", "deleted"}

CallState ==
    [at : {"idle", "finding", "deciding", "touching", "authenticated", "limiting"},
     client : Client \cup {None}, seen : Nat \cup {None}, now : Nat]
Idle == [at |-> "idle", client |-> None, seen |-> None, now |-> 0]

TypeOK ==
    /\ clock \in 0..MaxClock
    /\ status \in [Client -> Status]
    /\ lastSeen \in [Client -> Nat \cup {None}]
    /\ audit \in [Client -> [Action -> Nat]]
    /\ LimiterTypeOK
    /\ call \in [Call -> CallState]
    /\ \A h \in Call : call[h].at # "idle" => call[h].client # None
    /\ deleting \in [Deletion -> Client \cup {None}]
    /\ began \in [Call -> Status]
    /\ served \in [Client -> Nat \cup {None}]
    /\ passed \in [Client -> Seq(0..MaxClock)]
    /\ late \in [Client -> SUBSET (0..MaxClock)]

Init ==
    /\ clock = 0
    /\ status = [c \in Client |-> "absent"]
    /\ lastSeen = [c \in Client |-> None]
    /\ audit = [c \in Client |-> [a \in Action |-> 0]]
    /\ call = [h \in Call |-> Idle]
    /\ deleting = [d \in Deletion |-> None]
    /\ began = [h \in Call |-> "absent"]
    /\ served = [c \in Client |-> None]
    /\ passed = [c \in Client |-> << >>]
    /\ late = [c \in Client |-> {}]
    /\ LimiterInit

Tick ==
    /\ clock < MaxClock
    /\ clock' = clock + 1
    /\ UNCHANGED <<rows, limiter, call, deleting, history>>

-------------------------------------------------------------------------------
(* The operator.                                                           *)

\* An audit event is written in the transaction of what it reports.
Audited(c, action) == audit' = [audit EXCEPT ![c][action] = @ + 1]

CreateClientInstallation(c) ==
    /\ status[c] = "absent"
    /\ status' = [status EXCEPT ![c] = "active"]
    /\ Audited(c, "created")
    /\ UNCHANGED <<clock, lastSeen, limiter, call, deleting, history>>

\* One guarded update; revoking a revoked client answers with its row.
RevokeClientInstallation(c) ==
    /\ status[c] = "active"
    /\ status' = [status EXCEPT ![c] = "revoked"]
    /\ Audited(c, "revoked")
    /\ UNCHANGED <<clock, lastSeen, limiter, call, deleting, history>>

\* Name and status are read without a lock ...
CheckDeletion(d, c) ==
    /\ deleting[d] = None
    /\ status[c] = "revoked"
    /\ deleting' = [deleting EXCEPT ![d] = c]
    /\ UNCHANGED <<clock, rows, limiter, call, history>>

\* ... and the rows deleted and the event written whatever another deletion of
\* the same client has done in between.
DeleteClientInstallation(d) ==
    /\ deleting[d] # None
    /\ status' = [status EXCEPT ![deleting[d]] = "deleted"]
    /\ lastSeen' = [lastSeen EXCEPT ![deleting[d]] = None]
    /\ Audited(deleting[d], "deleted")
    /\ deleting' = [deleting EXCEPT ![d] = None]
    /\ UNCHANGED <<clock, limiter, call, history>>

DeletionFails(d) ==
    /\ deleting[d] # None
    /\ deleting' = [deleting EXCEPT ![d] = None]
    /\ UNCHANGED <<clock, rows, limiter, call, history>>

-------------------------------------------------------------------------------
(* The client middleware.                                                  *)

Answered(h) == call' = [call EXCEPT ![h] = Idle]

\* The call is its client's; the limiter comes next.
Authenticated(h, now) ==
    /\ served' = [served EXCEPT ![call[h].client] =
                     IF @ = None \/ @ < now THEN now ELSE @]
    /\ call' = [call EXCEPT ![h] =
                   [Idle EXCEPT !.at = "authenticated", !.client = call[h].client]]

\* The client got its token when it was created.
Request(h, c) ==
    /\ call[h].at = "idle"
    /\ status[c] # "absent"
    /\ call' = [call EXCEPT ![h] = [Idle EXCEPT !.at = "finding", !.client = c]]
    /\ began' = [began EXCEPT ![h] = status[c]]
    /\ UNCHANGED <<clock, rows, limiter, deleting, served, passed, late>>

\* Mutant of FindInstallation: the status is not looked at.
FindAnyInstallation(h) ==
    /\ call[h].at = "finding"
    /\ IF status[call[h].client] \in {"active", "revoked"}
         THEN call' = [call EXCEPT ![h].at = "deciding",
                                   ![h].seen = lastSeen[call[h].client]]
         ELSE Answered(h)
    /\ UNCHANGED <<clock, rows, limiter, deleting, history>>

\* A token without a row, or whose row is not active, is refused: 401.
FindInstallation(h) ==
    /\ call[h].at = "finding"
    /\ IF status[call[h].client] = "active"
         THEN call' = [call EXCEPT ![h].at = "deciding",
                                   ![h].seen = lastSeen[call[h].client]]
         ELSE Answered(h)
    /\ UNCHANGED <<clock, rows, limiter, deleting, history>>

\* Mutant of Due: the interval's end does not count.
DueLater(seen) == seen = None \/ clock > seen + TouchInterval

\* now.Sub(*installation.LastSeenAt) >= lastSeenTouchInterval
Due(seen) == seen = None \/ clock >= seen + TouchInterval

\* The time is taken after the row was read.  A recent sight needs no write,
\* and the row is not looked at again.
Decide(h) ==
    /\ call[h].at = "deciding"
    /\ IF Due(call[h].seen)
         THEN /\ call' = [call EXCEPT ![h].at = "touching", ![h].now = clock]
              /\ UNCHANGED served
         ELSE Authenticated(h, clock)
    /\ UNCHANGED <<clock, rows, limiter, deleting, began, passed, late>>

\* Mutant of TouchRow: without the CASE that keeps the later time.
TouchRowBack(c, now) ==
    /\ status[c] = "active"
    /\ lastSeen' = [lastSeen EXCEPT ![c] = now]

\* The update of last_seen_at, when it finds an active row.
TouchRow(c, now) ==
    /\ status[c] = "active"
    /\ lastSeen' = [lastSeen EXCEPT ![c] = IF @ = None \/ @ < now THEN now ELSE @]

\* No row affected: the client was revoked in the meantime, 401.
TouchClientInstallation(h) ==
    /\ call[h].at = "touching"
    /\ \/ TouchRow(call[h].client, call[h].now) /\ Authenticated(h, call[h].now)
       \/ /\ status[call[h].client] # "active"
          /\ Answered(h)
          /\ UNCHANGED <<lastSeen, served>>
    /\ UNCHANGED <<clock, status, audit, limiter, deleting, began, passed, late>>

\* A database error ends the call with 500; a touch may have taken effect.
CallFails(h) ==
    /\ call[h].at \in {"finding", "deciding", "touching"}
    /\ \/ UNCHANGED lastSeen
       \/ call[h].at = "touching" /\ TouchRow(call[h].client, call[h].now)
    /\ Answered(h)
    /\ UNCHANGED <<clock, status, audit, limiter, deleting, history>>

\* Allow takes the time ...
AskLimiter(h) ==
    /\ call[h].at = "authenticated"
    /\ call' = [call EXCEPT ![h].at = "limiting", ![h].now = clock]
    /\ UNCHANGED <<clock, rows, limiter, deleting, history>>

\* ... and then gets the mutex.
Allow(h) ==
    /\ call[h].at = "limiting"
    /\ LET c == call[h].client
           now == call[h].now
       IN  \/ /\ Admit(c, now)
              /\ passed' = [passed EXCEPT ![c] = Append(@, clock)]
              /\ late' = [late EXCEPT ![c] = IF now < clock THEN @ \cup {clock} ELSE @]
           \/ Refuse(c, now) /\ UNCHANGED <<passed, late>>
    /\ Answered(h)
    /\ UNCHANGED <<clock, rows, deleting, began, served>>

\* Another client's call, which took its time now or earlier.
OtherAllow ==
    /\ \E now \in 0..clock : PassBy(now)
    /\ UNCHANGED <<clock, rows, call, deleting, history>>

-------------------------------------------------------------------------------

Next ==
    \/ Tick
    \/ OtherAllow
    \/ \E c \in Client : CreateClientInstallation(c) \/ RevokeClientInstallation(c)
    \/ \E d \in Deletion :
          \/ \E c \in Client : CheckDeletion(d, c)
          \/ DeleteClientInstallation(d) \/ DeletionFails(d)
    \/ \E h \in Call :
          \/ \E c \in Client : Request(h, c)
          \/ FindInstallation(h) \/ Decide(h)
          \/ TouchClientInstallation(h) \/ CallFails(h)
          \/ AskLimiter(h) \/ Allow(h)

Spec == Init /\ [][Next]_vars

-------------------------------------------------------------------------------

\* docs/MVP.md:72, as far as it can be had without a lock: a call that begins
\* after its client was revoked is never let through, and never even reaches
\* the decision; one that began before may still be (client_auth.go
\* Authenticate, app/client/service.go Authenticate).
RevokedIsRefused ==
    \A h \in Call : began[h] # "active" => call[h].at \in {"idle", "finding"}

\* However late a touch lands, the recorded sight never goes back, and that of
\* a revoked client is frozen (client_store.go TouchClientInstallation).
LastSeenMovesOn ==
    [][\A c \in Client : lastSeen'[c] # lastSeen[c] =>
          \/ status'[c] = "deleted"
          \/ /\ status[c] = "active"
             /\ lastSeen[c] = None \/ lastSeen[c] < lastSeen'[c]]_vars

\* What the table shows of a client's last use is never a whole interval behind
\* the calls that were let through, although most of them write nothing.
LastSeenIsRecent ==
    \A c \in Client :
        status[c] \in {"active", "revoked"} /\ served[c] # None =>
            lastSeen[c] # None /\ served[c] < lastSeen[c] + TouchInterval

\* The audit trail tells what happened: one creation, one revocation exactly
\* when the client was revoked, a deletion exactly when it is gone.  Two
\* deletions at once may each write theirs.
AuditAgrees ==
    \A c \in Client :
        /\ audit[c]["created"] = IF status[c] = "absent" THEN 0 ELSE 1
        /\ audit[c]["revoked"] = IF status[c] \in {"revoked", "deleted"} THEN 1 ELSE 0
        /\ audit[c]["deleted"] > 0 <=> status[c] = "deleted"

PassedIn(c, times) == Cardinality({n \in DOMAIN passed[c] : passed[c][n] \in times})

\* docs/API.md:217, a fixed window: however calls, clean-ups and clients
\* interleave, an interval of a window's length lets at most twice the limit
\* through, unless it lets one through that got the mutex in another clock unit
\* than its time: such a call may open a window that is half over.
TwiceTheLimit ==
    \A c \in Client, t \in 0..MaxClock :
        t..(t + Window - 1) \cap late[c] = {} =>
            PassedIn(c, t..(t + Window - 1)) <= 2 * Limit

\* A refusal is earned: whatever other clients did, the limit's number of calls
\* of this client was let through later than a window before the call's time.
RefusalIsEarned ==
    [][\A h \in Call :
          call[h].at = "limiting" /\ call'[h].at = "idle" /\ passed' = passed =>
              PassedIn(call[h].client, (call[h].now + 1 - Window)..clock) >= Limit]_vars
===============================================================================
