SPECIFICATION FairSpec
CONSTANTS
    ta = ta  tb = tb  tc = tc  td = td  te = te
    A = A  B = B  C = C  D = D
    Coinbase = Coinbase
    NoAddr = NoAddr
    TxHash <- TheTxHash
    AddrKey <- TheAddrKey
    Chain <- LimitChain
    Glitch = {}
    Faults = {}
    Starts <- Resumed
    MaxU32 = 3
INVARIANTS
    IdsUnique
    NoGaps
    RollbackSucceeds
PROPERTIES
    BlockEnds
CHECK_DEADLOCK FALSE
