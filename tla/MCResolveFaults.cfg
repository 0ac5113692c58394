SPECIFICATION Spec
CONSTANTS
    ta = ta  tb = tb  tc = tc  td = td  te = te
    A = A  B = B  C = C  D = D
    Coinbase = Coinbase
    NoAddr = NoAddr
    TxHash <- TheTxHash
    AddrKey <- TheAddrKey
    Chain <- FaultChain
    Glitch <- FaultGlitch
    Faults = {"add", "get", "del"}
    Starts <- FromScratch
    MaxU32 = 9
INVARIANTS
    TypeOK
    IInv
    NumbersAsSeen
    CountsAgree
    RollbackRestores
    KeepsCommitted
    NoOrphanAddr
    SpendsEarlier
PROPERTIES
    ImplementsLedger
CHECK_DEADLOCK FALSE
