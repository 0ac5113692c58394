SPECIFICATION FairPipe
CONSTANTS
    WinSize = 2
    MaxBkSize = 3
    MaxLocs = 5
    OffWrap = 32768
    Sign = 7
    Omitted = Omitted
    Disk <- MCDisk
    LocsFiles <- MCTables
    Garbage <- MCGarbage
    Inputs <- MCInputs
    MaxFileNo = 5
    MinOffset = 2
    MaxOffset = 20000
    Unreadable = "unreadable"
    Ldb <- MCLdb
    Places <- MCPlaces
    HashFiles <- MCHashFiles
    Options <- MCOptions
INVARIANTS
    ToolTypeOK
    LocsRight
    LoadedAsAsked
    LoaderTypeOK
    WindowOK
    LoadedRight
PROPERTIES
    NeverStopsShort
    LineTakenIffWhole
    LoopEnds
CHECK_DEADLOCK FALSE
