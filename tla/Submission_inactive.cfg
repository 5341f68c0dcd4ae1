SPECIFICATION Spec
CONSTANTS
    c1 = c1
    c2 = c2
    a1 = a1
    k1 = k1
    t1 = t1
    h1 = h1
    h2 = h2
    None = None
    Purged = Purged
    Account <- OneAccount
    Client <- OneClient
    Key <- OneKey
    Track <- OneTrack
    Handler <- TwoHandlers
    AccountOf <- AllOfAccount
    MaxQuota = 1
    MaxMonth = 1
    MaxFaults = 1
PROPERTY
    InactiveCreatesNothing
CHECK_DEADLOCK FALSE
