SPECIFICATION PollSpec
CONSTANTS
    c1 = c1
    k1 = k1
    m1 = m1
    m2 = m2
    w1 = w1
    p1 = p1
    p2 = p2
    None = None
    Client <- OneClient
    Key <- OneKey
    Request <- OneRequest
    Recording <- TwoRecordings
    Worker <- OneWorker
    Poller <- TwoPollers
    HasProviders = FALSE
    MaxCandidates = 1
    MaxStamp = 1
    MaxFaults = 1
INVARIANTS
    FinalResponseComplete
    ResponsesAgree
CHECK_DEADLOCK FALSE
