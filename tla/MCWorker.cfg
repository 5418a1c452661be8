CONSTANTS
    Operations <- MCEveryOperation
    Disk0 <- MCDisk0
    Dir = "dir"
    Partial = "partial"
    Irregular = "irregular"
    TempName <- MCTempName
    Faulty <- MCFaulty
    MaxFaults = 2
    MayAppear <- MCMayAppear
    Foreign = "foreign"
SPECIFICATION OthersFairSpec
INVARIANTS
    AllOrNothingAlone
    CompletedIsCompleteAlone
    FailsForAReasonAlone
    NothingLost
    OthersKept
    BystandersUntouched
    PartialOnlyTemporary
    ReplaceIsAtomic
PROPERTIES
    ImplementsBackgroundOperation
