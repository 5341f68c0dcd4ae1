----------------------------- MODULE MCResolution -----------------------------
(***************************************************************************)
(* Small instances of Resolution, and its refinement of ResolutionJob.     *)
(***************************************************************************)
EXTENDS ResolutionRefinement, TLC

CONSTANTS c1, c2, k1, k2, m1, m2, w1, w2

TwoRequests   == {1, 2}
ThreeRequests == {1, 2, 3}
OneClient     == {c1}
TwoClients    == {c1, c2}
OneKey        == {k1}
TwoKeys       == {k1, k2}
OneRecording  == {m1}
TwoRecordings == {m1, m2}
TwoWorkers    == {w1, w2}

\* Workers, recordings and keys are interchangeable; requests are ordered.
Interchangeable == Permutations(Worker) \cup Permutations(Recording)
===============================================================================
