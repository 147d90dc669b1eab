CONSTANTS
    r1 = r1
    j1 = j1
    j2 = j2
    Routines = {r1, r2, r3}
    Jets = {j1, j2}
    Target <- Targets
    Root = root
SPECIFICATION FairSpec
INVARIANTS
    FoundIsActual
    NobodyLeftAsleep
    NoDeadEntry
PROPERTIES
    FetchReturns
CHECK_DEADLOCK FALSE
