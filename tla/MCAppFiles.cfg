SPECIFICATION Spec
CONSTANTS
    Disk0 <- MCFiles
    FolderNames = {"d", "e"}
    Locations <- MCLocations
    NewNames = {"e"}
    Universe <- MCUniverse
    MaxHistory = 1
    Places <- MCPlaces
    MaxOperations = 1
    Packages = {"f"}
    Shared <- MCShared
    Uninitialised = {TRUE}
INVARIANTS OutcomeIsHonest OverwritesOnlyConfirmed
PROPERTIES NothingGoesUnasked ClipboardFollows
