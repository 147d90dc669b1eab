CONSTANTS
    Nodes = {n1, n2}
    Requests = {r1, r2}
    Immutable = {}
    MaxPulse = 3
    LastInput = 2
    MaxFaults = 0
    Timely = FALSE
    pendingNotifyThreshold = 2
SPECIFICATION Spec
SYMMETRY Sym
INVARIANTS
    OneUpdateAtATime
    
CHECK_DEADLOCK FALSE
