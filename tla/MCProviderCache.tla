--------------------------- MODULE MCProviderCache ----------------------------
(***************************************************************************)
(* A small instance of ProviderCache.                                      *)
(***************************************************************************)
EXTENDS ProviderCache

CONSTANTS s1, s2, s3, q1, q2

ThreeSearches == {s1, s2, s3}
TwoQueries    == {q1, q2}

\* Two searches for the same, and one for something else.
OneAlone == [s \in Search |-> IF s = s3 THEN q2 ELSE q1]

Doubling == [n \in 1..MaxAttempts |-> 2 ^ (n - 1)]
===============================================================================
