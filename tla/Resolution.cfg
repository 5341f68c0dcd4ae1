SPECIFICATION LiveSpec
CONSTANTS
    c1 = c1
    c2 = c2
    k1 = k1
    k2 = k2
    m1 = m1
    m2 = m2
    w1 = w1
    w2 = w2
    None = None
    Client <- OneClient
    Key <- TwoKeys
    Request <- TwoRequests
    Recording <- OneRecording
    Worker <- TwoWorkers
    HasProviders = TRUE
    MaxCandidates = 2
    MaxStamp = 2
    MaxFaults = 2
INVARIANTS
    OneWorkerPerRequest
    OutcomeAgrees
    StrandedByFaultsOnly
    IInv
PROPERTIES
    AnswersAreFinal
    OpenRequestsAreKept
    ImplementsJob
    FinishedOrStranded
CHECK_DEADLOCK FALSE
