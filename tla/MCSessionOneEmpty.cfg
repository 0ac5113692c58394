SPECIFICATION SessionSpec
CONSTANTS
    ta = ta  tb = tb  tc = tc  td = td
    A = A  B = B  C = C
    Coinbase = Coinbase
    NoAddr = NoAddr
    Absent = Absent
    TxHash <- TheTxHash
    AddrKey <- TheAddrKey
    Chain <- MCChain
    Glitch <- MCGlitch
    MaxU32 = 9
    Faults = {}
    SessionFaults = {}
    Options <- FileOptions
    Starts = {}
    MaxSessions = 2
    MaxCrashes = 1
INVARIANTS
    NeverOneEmpty
CHECK_DEADLOCK FALSE
