---------------------------- MODULE ResolutionJob -----------------------------
(***************************************************************************)
(* What the resolution queue promises for each request, whatever the       *)
(* tables, locks and transactions behind it do: a request is submitted     *)
(* once, handed to at most one worker and at most once, and gets at most   *)
(* one answer, and that from the worker it was handed to.                  *)
(***************************************************************************)
CONSTANTS Request, Worker, None

VARIABLES
    stage,     \* per request: how far it is
    assignee   \* per request: the worker that is working on it, or None

jobVars == <<stage, assignee>>

Answer == {"matched", "no_match", "failed"}
Stage  == {"unused", "queued", "matching", "deleted"} \cup Answer

JobTypeOK ==
    /\ stage \in [Request -> Stage]
    /\ assignee \in [Request -> Worker \cup {None}]

JobInit ==
    /\ stage = [r \in Request |-> "unused"]
    /\ assignee = [r \in Request |-> None]

Submit(r) ==
    /\ stage[r] = "unused"
    /\ stage' = [stage EXCEPT ![r] = "queued"]
    /\ UNCHANGED assignee

\* The worker that should have taken the request may never learn of it.
Take(r, w) ==
    /\ stage[r] = "queued"
    /\ stage' = [stage EXCEPT ![r] = "matching"]
    /\ assignee' = [assignee EXCEPT ![r] = w]

\* Only the request's own worker answers it.
Finish(r, answer) ==
    /\ stage[r] = "matching"
    /\ assignee[r] # None
    /\ stage' = [stage EXCEPT ![r] = answer]
    /\ assignee' = [assignee EXCEPT ![r] = None]

\* The worker is gone, and no other worker takes its place.
Abandon(r) ==
    /\ stage[r] = "matching"
    /\ assignee[r] # None
    /\ assignee' = [assignee EXCEPT ![r] = None]
    /\ UNCHANGED stage

\* Open requests go when their client does, answered ones may be purged too.
Withdraw(R) ==
    /\ \A r \in R : stage[r] # "unused"
    /\ stage' = [r \in Request |-> IF r \in R THEN "deleted" ELSE stage[r]]
    /\ assignee' = [r \in Request |-> IF r \in R THEN None ELSE assignee[r]]

JobNext ==
    \/ \E r \in Request :
          \/ Submit(r)
          \/ \E w \in Worker \cup {None} : Take(r, w)
          \/ \E answer \in Answer : Finish(r, answer)
          \/ Abandon(r)
    \/ \E R \in SUBSET Request : Withdraw(R)

JobSpec == JobInit /\ [][JobNext]_jobVars
===============================================================================
