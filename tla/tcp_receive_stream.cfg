SPECIFICATION Spec
CONSTANTS
    HalfRange = 64
    RxIsn = 0
    StreamLen = 4
    PeerSegs <- StreamSegs
    MaxSize = 3
    MinWnd = 1
    Span = 99
    KeepaliveOn = TRUE
    MaxReaders = 1
    MaxPuts = 2
    MaxOutputs = 0
INVARIANTS
    StreamIntact
    AdvanceConserved
    FinTold
    InputIsWalk
CHECK_DEADLOCK FALSE
