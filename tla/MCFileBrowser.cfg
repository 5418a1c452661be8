SPECIFICATION Spec
CONSTANTS
    FolderNames = {"d"}
    Locations <- MCLocations
    NewNames = {"d", "f"}
    Universe <- MCUniverse
    MaxHistory = 2
    Infos <- MCInfos
    NameRank <- MCNameRank
    Jump = 2
INVARIANTS ListIsSorted MarksAreListed BackLeadsToRoot
PROPERTIES ImplementsFileBrowser SortKeepsSelection
