SPECIFICATION FairSpec
CONSTANTS
    w1 = w1
    w2 = w2
    closer = closer
    Writers = {w1}
    Closers = {}
    ToWrite <- Three
    NoDelay = {}
    Mss = 1
    MaxSize = 1
    Windows = {1}
    MidAcks = FALSE
    PeerCloses = FALSE
    PeerResets = TRUE
    MaxRexmits = 0
    CwndCap = 2
    MaxPuts = 1
    MaxDupAcks = 5
    MaxFinAcks = 0
PROPERTIES
    WriteReturns
CHECK_DEADLOCK FALSE
