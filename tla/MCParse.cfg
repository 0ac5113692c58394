SPECIFICATION FairParse
CONSTANTS
    Blocks <- MCBlocks
    Glitches = {9}
    Options <- MCOptions
    Hash160 <- MCHash160
    Hash256 <- MCHash256
    Crc <- MCCrc
INVARIANTS
    ParseTypeOK
    WalkRight
    HashesReady
    HashesRight
    AddrsRight
    PrintedRight
PROPERTIES
    ParseEnds
CHECK_DEADLOCK FALSE
