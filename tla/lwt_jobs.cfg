SPECIFICATION FairSpec
CONSTANTS
    main = main
    w1 = w1
    w2 = w2
    j1 = j1
    j2 = j2
    Threads = {main, w1, w2}
    InitCount = 1
    Pipe = FALSE
    Main = main
    Jobs = {j1, j2}
    Methods = {"Detach", "Switch"}
    PoolSizes = {1, 2}
    MayFail = TRUE
    MaxSignals = 1
    MaxWaiting = 2
INVARIANTS
    NotificationsSignalled
    JobAlive
    JobHeldOnce
    WaitersCovered
    CheckpointLeft
PROPERTIES
    PoolBounded
    JobRunsOnce
    JobFreed
CHECK_DEADLOCK FALSE
