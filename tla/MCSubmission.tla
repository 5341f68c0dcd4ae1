----------------------------- MODULE MCSubmission ------------------------------
(***************************************************************************)
(* Small instances of Submission.                                          *)
(***************************************************************************)
EXTENDS Submission, TLC

CONSTANTS c1, c2, a1, k1, t1, h1, h2

OneClient    == {c1}
TwoClients   == {c1, c2}
OneAccount   == {a1}
OneKey       == {k1}
OneTrack     == {t1}
TwoHandlers  == {h1, h2}

\* Every client belongs to the account.
AllOfAccount == [c \in Client |-> a1]
===============================================================================
