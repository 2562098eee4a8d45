SPECIFICATION FilterSpec
CONSTANTS
    Patterns <- MCPatterns
    Requests <- MCRequests
    MaxRange = 4
    MaxClass = 2
    MaxExact = 2
    MinAtomLen = 2
    MaxParents = 1
    Filtered <- MCFiltered
    MaxRegexps = 3
    FilterTexts <- MCFilterTexts
    FilterLimits <- Tight
INVARIANTS
    MatchIsLeftmost
    MatchIsFirst
    SameWhateverEngine
    RangeSound
    FilterMissesNothing
    TreeIsFormulas
    PatternsMeanTheirTrees
CHECK_DEADLOCK FALSE
