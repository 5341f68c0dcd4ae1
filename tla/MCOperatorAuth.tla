---------------------------- MODULE MCOperatorAuth -----------------------------
(***************************************************************************)
(* A small instance of OperatorAuth.                                       *)
(***************************************************************************)
EXTENDS OperatorAuth, TLC

CONSTANTS u1, u2, u3, s1, s2, x1, h1, h2, h3

ThreeUsers == {u1, u2, u3}
TwoSetups  == {s1, s2}
OneSession == {x1}
TwoCalls   == {h1, h2}
ThreeCalls == {h1, h2, h3}

Interchangeable == Permutations(User) \cup Permutations(Setup) \cup Permutations(Call)
===============================================================================
