SPECIFICATION PkgSpec
CONSTANTS
    FolderNames = {"d"}
    Locations <- MCLocations
    NewNames = {}
    Universe <- MCUniverse
    MaxHistory = 1
    Packages = {"p", "q"}
    Plain <- MCPlain
    Threads = {t1, t2}
INVARIANTS OverlayIsHonest EndIsShown
