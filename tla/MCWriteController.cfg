CONSTANTS
    Writers = {w1, w2, w3}
    MaxPulse = 4
SPECIFICATION FairSpec
INVARIANTS
    NoStaleWriter
PROPERTIES
    ImplementsBarrier
    CloseReturns
CHECK_DEADLOCK FALSE
