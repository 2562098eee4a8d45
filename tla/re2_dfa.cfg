SPECIFICATION FairSpec
CONSTANTS
    t1 = t1
    t2 = t2
    t3 = t3
    Threads = {t1, t2, t3}
    States <- MCStates
    MaxByte = 1
    StartOf <- MCStart
    Delta <- MCDelta
    Matching = {"M"}
    Capacity = 3
    BailFactor = 1
    Queries <- MCQueries
    MaxSearches = 3
INVARIANTS
    NoDangling
    CacheSound
    NeverFatal
    AnswerRightIfComplete
PROPERTIES
    SearchEnds
CHECK_DEADLOCK FALSE
