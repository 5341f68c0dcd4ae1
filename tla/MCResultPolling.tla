---------------------------- MODULE MCResultPolling ----------------------------
(***************************************************************************)
(* A small instance of ResultPolling.                                      *)
(***************************************************************************)
EXTENDS ResultPolling

CONSTANTS c1, k1, m1, m2, w1, p1, p2

TwoRequests   == {1, 2}
OneRequest    == {1}
OneClient     == {c1}
OneKey        == {k1}
TwoRecordings == {m1, m2}
OneWorker     == {w1}
TwoPollers    == {p1, p2}
===============================================================================
