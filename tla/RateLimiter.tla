------------------------------ MODULE RateLimiter ------------------------------
(***************************************************************************)
(* The fixed-window limiter of the Web process: per client a window with   *)
(* the number of calls it has let through.  A section under the mutex is   *)
(* one action; the time a call decides by is one it took before it asked   *)
(* for the mutex, so that the sections of two calls may come in the other  *)
(* order than their times.  The limiter of the log-in handlers is the same *)
(* code with an address for the client, and other constants.               *)
(***************************************************************************)
EXTENDS Naturals, FiniteSets

CONSTANTS
    Client,  \* client installations, or those of them that are followed
    None,    \* "no value"
    Limit,   \* clientRateLimit (120)
    Window   \* clientRateWindow (1 min)

ASSUME LimitAssumption == Limit \in Nat \ {0} /\ Window \in Nat \ {0}

VARIABLES
    entries,     \* per client: [requests, resetAt], or None
    lastCleanup  \* when ended windows were last dropped

limiter == <<entries, lastCleanup>>

Entry == [requests : 1..Limit, resetAt : Nat]

ASSUME EntryAssumption == None \notin Entry

LimiterTypeOK ==
    /\ entries \in [Client -> Entry \cup {None}]
    /\ lastCleanup \in Nat

LimiterInit ==
    /\ entries = [c \in Client |-> None]
    /\ lastCleanup = 0

\* !now.Before(entry.resetAt): by the time now, the window e is over.
Ended(e, now) == e # None => now >= e.resetAt

CleanupDue(now) == now >= lastCleanup + Window

\* The map as the call finds it, after a clean-up that is due.
Kept(now) ==
    [c \in Client |->
        IF CleanupDue(now) /\ Ended(entries[c], now) THEN None ELSE entries[c]]

CleanUp(now) == lastCleanup' = IF CleanupDue(now) THEN now ELSE lastCleanup

\* What a call does to the windows of the other clients: all that is seen here
\* of one whose client is not followed.
PassBy(now) == entries' = Kept(now) /\ CleanUp(now)

\* Mutant of Full: one call too many.
FullLater(e) == e.requests > Limit

Full(e) == e.requests >= Limit

\* The first call of a window, or one more of it.
Admit(c, now) ==
    /\ \/ /\ Ended(Kept(now)[c], now)
          /\ entries' = [Kept(now) EXCEPT ![c] = [requests |-> 1, resetAt |-> now + Window]]
       \/ /\ ~Ended(Kept(now)[c], now)
          /\ ~Full(entries[c])
          /\ entries' = [Kept(now) EXCEPT ![c].requests = @ + 1]
    /\ CleanUp(now)

\* Mutant of Refuse: a call that is refused prolongs the window.
RefuseLonger(c, now) ==
    /\ ~Ended(entries[c], now)
    /\ Full(entries[c])
    /\ entries' = [Kept(now) EXCEPT ![c].resetAt = now + Window]
    /\ CleanUp(now)

\* 429, with a hint when to come back.
Refuse(c, now) ==
    /\ ~Ended(entries[c], now)
    /\ Full(entries[c])
    /\ PassBy(now)
===============================================================================
