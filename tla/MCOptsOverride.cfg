SPECIFICATION OptsSpec
CONSTANTS
    Texts <- MCTexts
    Number <- MCNumber
    IntSpan = 16
    MaxBlocks = 5
    MaxLogStep = 3
    Engines <- MCEngines
    Configs <- FewConfigs
    Commands <- MCCommands
    Worlds <- MCWorlds
    NotGiven = NotGiven
INVARIANTS
    CommandLineOverwrites
CHECK_DEADLOCK FALSE
