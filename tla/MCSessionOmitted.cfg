SPECIFICATION SessionSpec
CONSTANTS
    ta = ta  tb = tb  tc = tc  td = td
    A = A  B = B  C = C
    Coinbase = Coinbase
    NoAddr = NoAddr
    Absent = Absent
    TxHash <- TheTxHash
    AddrKey <- TheAddrKey
    Chain <- MCChain
    Glitch <- MCGlitch
    MaxU32 = 9
    Faults = {}
    SessionFaults = {"load"}
    Options <- FileOptions
    Starts = {}
    MaxSessions = 3
    MaxCrashes = 0
INVARIANTS
    OmittedIsAccepted
CHECK_DEADLOCK FALSE
