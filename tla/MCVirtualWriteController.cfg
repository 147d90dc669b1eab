CONSTANTS
    Writers = {w1, w2}
    Waiters = {v1, v2}
    MaxPulse = 4
SPECIFICATION FairSpec
INVARIANTS
    GroupsAreExact
    NobodyLeftAsleep
    StoragesAgree
PROPERTIES
    ImplementsBarrier
    CloseReturns
    WaiterReturns
CHECK_DEADLOCK FALSE
