SPECIFICATION OptsSpec
CONSTANTS
    Texts <- MCTexts
    Number <- MCNumber
    IntSpan = 16
    MaxBlocks = 5
    MaxLogStep = 3
    Engines <- MCEngines
    Configs <- MCConfigs
    Commands <- MCCommands
    Worlds <- MCWorlds
    NotGiven = NotGiven
INVARIANTS
    OptsTypeOK
    LastSaidCounts
    OneSource
CHECK_DEADLOCK FALSE
