SPECIFICATION FairSpec
CONSTANTS
    w1 = w1
    w2 = w2
    closer = closer
    Writers = {w1}
    Closers = {closer}
    ToWrite <- Two
    NoDelay = {}
    Mss = 1
    MaxSize = 1
    Windows = {0, 1}
    MidAcks = FALSE
    PeerCloses = TRUE
    PeerResets = FALSE
    MaxRexmits = 0
    CwndCap = 2
    MaxPuts = 1
    MaxDupAcks = 1
    MaxFinAcks = 1
INVARIANTS
    FinReceived
PROPERTIES
    DataAcked
    WriteReturnsOrOver
    ImplementsByteSource
CHECK_DEADLOCK FALSE
