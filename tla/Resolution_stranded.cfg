SPECIFICATION LiveSpec
CONSTANTS
    c1 = c1
    c2 = c2
    k1 = k1
    k2 = k2
    m1 = m1
    m2 = m2
    w1 = w1
    w2 = w2
    None = None
    Client <- OneClient
    Key <- OneKey
    Request <- TwoRequests
    Recording <- OneRecording
    Worker <- TwoWorkers
    HasProviders = TRUE
    MaxCandidates = 1
    MaxStamp = 1
    MaxFaults = 1
PROPERTY
    EveryRequestFinishes
CHECK_DEADLOCK FALSE
