SPECIFICATION SessionSpec
CONSTANTS
    ta = ta  tb = tb  tc = tc  td = td
    A = A  B = B  C = C
    Coinbase = Coinbase
    NoAddr = NoAddr
    Absent = Absent
    TxHash <- TheTxHash
    AddrKey <- TheAddrKey
    Chain <- TornChain
    Glitch <- TornGlitch
    MaxU32 = 9
    Faults = {"add", "get", "del"}
    SessionFaults = {"open", "clear", "load", "update", "close"}
    Options <- FileOptions
    Starts = {}
    MaxSessions = 3
    MaxCrashes = 1
INVARIANTS
    SInv
    TrustedCanonical
    DamageSparesTxs
CHECK_DEADLOCK FALSE
