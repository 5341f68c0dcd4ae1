------------------------- MODULE ResolutionRefinement -------------------------
(***************************************************************************)
(* The refinement mapping from the detailed queue to ResolutionJob.        *)
(***************************************************************************)
EXTENDS Resolution

\* The worker that holds a request which is still matching.  After the answer
\* is committed a worker may still hold the request, but has no say in it.
Assignee(r) ==
    IF status[r] = "matching" /\ \E w \in Worker : job[w] = r
      THEN CHOOSE w \in Worker : job[w] = r
      ELSE None

Job == INSTANCE ResolutionJob
         WITH stage <- status, assignee <- [r \in Request |-> Assignee(r)]

\* The tables, locks and worker processes implement the abstract queue: at most
\* one hand-over and at most one answer per request, given by the worker that
\* took it (worker_store.go, candidate_store.go, worker/service.go RunOnce).
ImplementsJob == Job!JobSpec
===============================================================================
