---------------------------- MODULE MCClientAccess -----------------------------
(***************************************************************************)
(* A small instance of ClientAccess.                                       *)
(***************************************************************************)
EXTENDS ClientAccess, TLC

CONSTANTS c1, h1, h2, d1, d2

OneClient    == {c1}
TwoCalls     == {h1, h2}
TwoDeletions == {d1, d2}

Interchangeable == Permutations(Call) \cup Permutations(Deletion)
===============================================================================
