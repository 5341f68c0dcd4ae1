SPECIFICATION Spec
CONSTANTS
    None = None
    Letter <- Letters
    LowerCase <- CaseOf
    VersionAliases <- Aliases
    Observations <- TwoObservations
    Providers <- InOrder
    Answers <- SomeAnswers
    EntityId <- Ids8
    OldResults <- OldOnes
    Imported <- OneImport
    MaxCandidates = 4
    MaxOthers = 1
    MaxFaults = 1
INVARIANTS
    EvidenceIsStored
    MergeAgrees
    AnswerIsRanked
    PatchSettles
    TextsAgree
PROPERTIES
    HistoryIsKept
    FollowsQueue
    AcceptedForCause
CHECK_DEADLOCK FALSE
