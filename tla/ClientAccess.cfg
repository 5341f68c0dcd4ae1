SPECIFICATION Spec
CONSTANTS
    c1 = c1
    h1 = h1
    h2 = h2
    d1 = d1
    d2 = d2
    None = None
    Client <- OneClient
    Call <- TwoCalls
    Deletion <- TwoDeletions
    TouchInterval = 2
    Limit = 2
    Window = 2
    MaxClock = 3
INVARIANTS
    RevokedIsRefused
    LastSeenIsRecent
    TwiceTheLimit
PROPERTIES
    LastSeenMovesOn
    RefusalIsEarned
SYMMETRY Interchangeable
CHECK_DEADLOCK FALSE
