SPECIFICATION ForkSpec
CONSTANTS
    main = main
    w1 = w1
    w2 = w2
    j1 = j1
    j2 = j2
    Threads = {main, w1}
    InitCount = 1
    Pipe = FALSE
    Main = main
    Jobs = {j1}
    Methods = {"Detach"}
    PoolSizes = {1}
    MayFail = FALSE
    MaxSignals = 1
    MaxWaiting = 1
INVARIANTS
    NotificationsSignalled
CHECK_DEADLOCK FALSE
