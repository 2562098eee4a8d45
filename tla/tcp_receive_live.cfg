SPECIFICATION FairSpec
CONSTANTS
    HalfRange = 64
    RxIsn = 0
    StreamLen = 3
    PeerSegs <- AbortSegs
    MaxSize = 2
    MinWnd = 1
    Span = 99
    KeepaliveOn = FALSE
    MaxReaders = 1
    MaxPuts = 1
    MaxOutputs = 1
INVARIANTS
    AckRequested
    ThreadsAgree
    NoStall
PROPERTIES
    StreamDelivered
    AckEventually
    ImplementsByteStream
CHECK_DEADLOCK FALSE
