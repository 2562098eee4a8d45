SPECIFICATION Spec
CONSTANTS
    w1 = w1
    w2 = w2
    closer = closer
    Writers = {w1, w2}
    Closers = {}
    ToWrite <- TwoOne
    NoDelay = {w2}
    Mss = 2
    MaxSize = 3
    Windows = {1, 4}
    MidAcks = FALSE
    PeerCloses = FALSE
    PeerResets = TRUE
    MaxRexmits = 0
    CwndCap = 4
    MaxPuts = 1
    MaxDupAcks = 5
    MaxFinAcks = 0
INVARIANTS
    SegsTile
    StreamInOrder
    WireAligned
    TimerArmed
    RtoAlive
    ClearSegsIsLoop
CHECK_DEADLOCK FALSE
