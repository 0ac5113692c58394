SPECIFICATION FairSession
CONSTANTS
    ta = ta  tb = tb  tc = tc  td = td
    A = A  B = B  C = C
    Coinbase = Coinbase
    NoAddr = NoAddr
    Absent = Absent
    TxHash <- TheTxHash
    AddrKey <- TheAddrKey
    Chain <- MCChain
    Glitch <- MCGlitch
    MaxU32 = 9
    Faults = {"add"}
    SessionFaults = {"open", "load"}
    Options <- AllOptions
    Starts = {}
    MaxSessions = 3
    MaxCrashes = 0
INVARIANTS
    SessionTypeOK
    OutInv
    OutputRefers
PROPERTIES
    StopIsResumable
    SessionEnds
CHECK_DEADLOCK FALSE
