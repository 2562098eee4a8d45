SPECIFICATION FilterSpec
CONSTANTS
    Patterns <- FactorExprs
    Requests <- MCRequests
    MaxRange = 4
    MaxClass = 2
    MaxExact = 2
    MinAtomLen = 2
    MaxParents = 1
    Filtered = {}
    MaxRegexps = 0
    FilterTexts = {}
    FilterLimits <- Tight
INVARIANTS
    MatchIsFirst
CHECK_DEADLOCK FALSE
