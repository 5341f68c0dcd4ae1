----------------------------- MODULE MCDeviceAuth ------------------------------
(***************************************************************************)
(* Small instances of DeviceAuth.                                          *)
(***************************************************************************)
EXTENDS DeviceAuth, TLC

CONSTANTS d1, d2, a1, a2, p1, p2, v1, v2

OneCode      == {d1}
TwoCodes     == {d1, d2}
OneAccount   == {a1}
TwoAccounts  == {a1, a2}
TwoPollers   == {p1, p2}
OneApprover  == {v1}
TwoApprovers == {v1, v2}

Interchangeable ==
    Permutations(Poller) \cup Permutations(Approver) \cup Permutations(Account)
===============================================================================
