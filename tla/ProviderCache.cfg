SPECIFICATION LiveSpec
CONSTANTS
    s1 = s1
    s2 = s2
    s3 = s3
    q1 = q1
    q2 = q2
    None = None
    Search <- ThreeSearches
    Query <- TwoQueries
    QueryOf <- OneAlone
    PositiveTTL = 2
    NegativeTTL = 1
    Interval = 1
    Backoff <- Doubling
    MaxAttempts = 2
    MaxCancels = 1
    MaxClock = 1
INVARIANTS
    OneCallPerQuery
    SharedAnswer
    IInv
PROPERTIES
    PacedRequests
    NoNeedlessCall
    EverySearchReturns
CHECK_DEADLOCK FALSE
