SPECIFICATION LiveSpec
CONSTANTS
    c1 = c1
    c2 = c2
    a1 = a1
    k1 = k1
    t1 = t1
    h1 = h1
    h2 = h2
    None = None
    Purged = Purged
    Account <- OneAccount
    Client <- TwoClients
    Key <- OneKey
    Track <- OneTrack
    Handler <- TwoHandlers
    AccountOf <- AllOfAccount
    MaxQuota = 1
    MaxMonth = 2
    MaxFaults = 1
INVARIANTS
    UsageCountsCharges
    UsageWithinQuota
    RequestIsCharged
    WasteIsBounded
    RequestHasTrack
PROPERTY
    EveryCallEnds
CHECK_DEADLOCK FALSE
