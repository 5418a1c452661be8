CONSTANTS
    Operations <- MCEmptyDirectory
    Disk0 <- MCDisk0
    Dir = "dir"
    Partial = "partial"
    Irregular = "irregular"
    TempName <- MCTempName
    Faulty <- MCNoFault
    MaxFaults = 0
    MayAppear <- MCNobody
    Foreign = "foreign"
SPECIFICATION OthersSpec
INVARIANTS
    MoveKeepsItsSources
