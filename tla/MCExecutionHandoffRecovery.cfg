CONSTANTS
    Nodes = {n1, n2}
    Requests = {r1}
    Immutable = {}
    MaxPulse = 4
    LastInput = 2
    MaxFaults = 1
    Timely = TRUE
    pendingNotifyThreshold = 0
SPECIFICATION FairSpec

    
PROPERTIES
    AcceptedIsClosed
CHECK_DEADLOCK FALSE
