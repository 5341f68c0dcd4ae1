----------------------------- MODULE OperatorAuth ------------------------------
(***************************************************************************)
(* The operators of the service: the creation of the first administrator,  *)
(* and the sessions that operators log in to.  A call with a session       *)
(* cookie reads the session, decides with a time it takes afterwards, and  *)
(* then touches or revokes the row, or leaves it alone.  No transaction    *)
(* holds the steps of a call together, and READ COMMITTED does not keep    *)
(* two set-up transactions apart.                                          *)
(***************************************************************************)
EXTENDS Naturals, FiniteSets

CONSTANTS
    User,           \* user names
    Setup,          \* calls of POST /setup/admin in progress
    Session,        \* sessions, each with its token
    Call,           \* calls with a session cookie in progress
    None,           \* "no value"
    AbsoluteLife,   \* sessionAbsoluteLifetime (7 days)
    IdleLife,       \* sessionIdleLifetime (24 h)
    TouchInterval,  \* sessionTouchInterval (5 min)
    MaxClock        \* bound: clock values

ASSUME NoneAssumption == None \notin User /\ None \notin Session
ASSUME TimeAssumption ==
    /\ AbsoluteLife \in Nat /\ IdleLife \in Nat /\ TouchInterval \in Nat
    /\ MaxClock \in Nat

VARIABLES
    clock,    \* the wall clock
    users,    \* the users table; nothing ever disables or removes a user
    setup,    \* per set-up call: the name it is about to insert, or None
    opened,   \* sessions that have a row
    expires,  \* per session: expires_at
    lastSeen, \* per session: last_seen_at
    revoked,  \* sessions with a revoked_at
    call,     \* per call: [at, session, expires, seen, now]
    lastUse   \* history, per session: the latest time it was found valid

rows == <<opened, expires, lastSeen, revoked>>
vars == <<clock, users, setup, rows, call, lastUse>>

CallState ==
    [at : {"idle", "deciding", "touching", "ending"}, session : Session \cup {None},
     expires : Nat, seen : Nat, now : Nat]
Idle == [at |-> "idle", session |-> None, expires |-> 0, seen |-> 0, now |-> 0]

TypeOK ==
    /\ clock \in Nat
    /\ users \subseteq User
    /\ setup \in [Setup -> User \cup {None}]
    /\ opened \subseteq Session
    /\ revoked \subseteq opened
    /\ expires \in [Session -> Nat]
    /\ lastSeen \in [Session -> Nat]
    /\ call \in [Call -> CallState]
    /\ \A h \in Call : call[h].at # "idle" => call[h].session \in opened
    /\ lastUse \in [Session -> Nat]

Init ==
    /\ clock = 0
    /\ users = {}
    /\ setup = [s \in Setup |-> None]
    /\ opened = {}
    /\ expires = [x \in Session |-> 0]
    /\ lastSeen = [x \in Session |-> 0]
    /\ revoked = {}
    /\ call = [h \in Call |-> Idle]
    /\ lastUse = [x \in Session |-> 0]

Tick ==
    /\ clock < MaxClock
    /\ clock' = clock + 1
    /\ UNCHANGED <<users, setup, rows, call, lastUse>>

-------------------------------------------------------------------------------
(* POST /setup/admin.                                                      *)

\* The transaction sees the users that are committed; with one it answers 409.
CheckSetup(s, u) ==
    /\ setup[s] = None
    /\ users = {}
    /\ setup' = [setup EXCEPT ![s] = u]
    /\ UNCHANGED <<clock, users, rows, call, lastUse>>

\* Insert and commit.  Only an equal name is refused, by its unique constraint.
InsertAdmin(s) ==
    /\ setup[s] # None
    /\ users' = users \cup {setup[s]}
    /\ setup' = [setup EXCEPT ![s] = None]
    /\ UNCHANGED <<clock, rows, call, lastUse>>

SetupFails(s) ==
    /\ setup[s] # None
    /\ setup' = [setup EXCEPT ![s] = None]
    /\ UNCHANGED <<clock, users, rows, call, lastUse>>

-------------------------------------------------------------------------------
(* Sessions.                                                               *)

\* The token is handed out only when the row is there.
Login(x) ==
    /\ users # {}
    /\ x \notin opened
    /\ opened' = opened \cup {x}
    /\ expires' = [expires EXCEPT ![x] = clock + AbsoluteLife]
    /\ lastSeen' = [lastSeen EXCEPT ![x] = clock]
    /\ lastUse' = [lastUse EXCEPT ![x] = clock]
    /\ UNCHANGED <<clock, users, setup, revoked, call>>

Ended(h) == call' = [call EXCEPT ![h] = Idle]

\* A session that is not there, or is revoked, is refused: 401.
Usable(x) == x \in opened \ revoked

\* One query reads the row; what it says of the times is decided on later.
FindSession(h, x) ==
    /\ call[h].at = "idle"
    /\ Usable(x)
    /\ call' = [call EXCEPT ![h] = [at |-> "deciding", session |-> x, now |-> 0,
                                    expires |-> expires[x], seen |-> lastSeen[x]]]
    /\ UNCHANGED <<clock, users, setup, rows, lastUse>>

Over(h) == clock >= call[h].expires \/ clock > call[h].seen + IdleLife

\* A session that is over will be revoked and the call refused; another one is
\* accepted, at once or after its touch.
Decide(h) ==
    /\ call[h].at = "deciding"
    /\ \/ /\ Over(h)
          /\ call' = [call EXCEPT ![h].at = "ending"]
          /\ UNCHANGED lastUse
       \/ /\ ~Over(h)
          /\ lastUse' = [lastUse EXCEPT ![call[h].session] = clock]
          /\ IF clock >= call[h].seen + TouchInterval
               THEN call' = [call EXCEPT ![h].at = "touching", ![h].now = clock]
               ELSE Ended(h)
    /\ UNCHANGED <<clock, users, setup, rows>>

\* Mutants of TouchRow: the row gets the time of the write; the whole row that
\* was read is written back.
TouchRowNow(h) ==
    /\ lastSeen' = [lastSeen EXCEPT ![call[h].session] =
                       IF call[h].session \in revoked THEN @ ELSE clock]
    /\ UNCHANGED <<opened, expires, revoked>>

TouchWholeRow(h) ==
    /\ lastSeen' = [lastSeen EXCEPT ![call[h].session] = call[h].now]
    /\ revoked' = revoked \ {call[h].session}
    /\ UNCHANGED <<opened, expires>>

\* The time is the call's, even when a later touch was there first.
TouchRow(h) ==
    /\ lastSeen' = [lastSeen EXCEPT ![call[h].session] =
                       IF call[h].session \in revoked THEN @ ELSE call[h].now]
    /\ UNCHANGED <<opened, expires, revoked>>

\* Whether a row was there to touch makes no difference to the call.
TouchSession(h) ==
    /\ call[h].at = "touching"
    /\ TouchRow(h)
    /\ Ended(h)
    /\ UNCHANGED <<clock, users, setup, lastUse>>

\* The error of this update is ignored.
EndSession(h) ==
    /\ call[h].at = "ending"
    /\ revoked' \in {revoked, revoked \cup {call[h].session}}
    /\ Ended(h)
    /\ UNCHANGED <<clock, users, setup, opened, expires, lastSeen, lastUse>>

Logout(x) ==
    /\ x \in opened
    /\ revoked' = revoked \cup {x}
    /\ UNCHANGED <<clock, users, setup, opened, expires, lastSeen, call, lastUse>>

\* A database error: 500.  The touch it hides may have taken effect, which
\* TouchSession covers.
CallFails(h) ==
    /\ call[h].at # "idle"
    /\ Ended(h)
    /\ UNCHANGED <<clock, users, setup, rows, lastUse>>

-------------------------------------------------------------------------------

Next ==
    \/ Tick
    \/ \E s \in Setup :
          \/ \E u \in User : CheckSetup(s, u)
          \/ InsertAdmin(s) \/ SetupFails(s)
    \/ \E x \in Session : Login(x) \/ Logout(x)
    \/ \E h \in Call :
          \/ \E x \in Session : FindSession(h, x)
          \/ Decide(h) \/ TouchSession(h) \/ EndSession(h) \/ CallFails(h)

Spec == Init /\ [][Next]_vars

-------------------------------------------------------------------------------

\* A session that nobody used for longer than IdleLife, or that has reached its
\* absolute end, is never found valid again, although touches may land late and
\* out of order (session.go Authenticate).
SilenceEndsSession ==
    [][\A x \in opened : lastUse'[x] # lastUse[x] =>
          lastUse'[x] <= lastUse[x] + IdleLife /\ lastUse'[x] < expires[x]]_vars

\* A logout, or the revocation of a session that is over, is never undone or
\* followed by a change of the row, by touches that were decided before it.
RevocationIsFinal ==
    [][\A x \in revoked : x \in revoked' /\ lastSeen'[x] = lastSeen[x]]_vars

\* docs/SECURITY.md:21: the creation of the first administrator is atomic.
OneInitialAdmin == Cardinality(users) <= 1
===============================================================================
