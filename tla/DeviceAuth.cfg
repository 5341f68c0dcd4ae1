SPECIFICATION Spec
CONSTANTS
    d1 = d1
    d2 = d2
    a1 = a1
    a2 = a2
    p1 = p1
    p2 = p2
    v1 = v1
    v2 = v2
    None = None
    Code <- OneCode
    Account <- TwoAccounts
    Poller <- TwoPollers
    Approver <- TwoApprovers
    CodeLife = 1
    SessionLife = 1
    MaxClock = 2
    MaxFaults = 1
INVARIANTS
    OneInstallationPerCode
    LostTokensByFaultsOnly
PROPERTY
    ExpiryIsRespected
SYMMETRY Interchangeable
CHECK_DEADLOCK FALSE
