SPECIFICATION Spec
CONSTANTS
    HalfRange = 64
    RxIsn = 0
    StreamLen = 2
    PeerSegs <- HalfCloseSegs
    MaxSize = 2
    MinWnd = 1
    Span = 99
    KeepaliveOn = FALSE
    MaxReaders = 1
    MaxPuts = 1
    MaxOutputs = 0
INVARIANTS
    FinTold
CHECK_DEADLOCK FALSE
