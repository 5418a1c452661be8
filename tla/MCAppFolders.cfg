SPECIFICATION Spec
CONSTANTS
    Disk0 <- MCFolders
    FolderNames = {"d", "e"}
    Locations <- MCLocations
    NewNames = {"e"}
    Universe <- MCUniverse
    MaxHistory = 1
    Places <- MCPlaces
    MaxOperations = 2
    Packages = {}
    Shared = {}
    Uninitialised = {TRUE}
INVARIANTS ReportedOnce PadGoesToTopDialog
PROPERTIES UiWritesAlone ImplementsBrowser EveryOperationReported FramesGoOn
