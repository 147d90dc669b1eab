CONSTANTS
    MaxPulse = 3
    MaxDepth = 0
    Handlers = {h1, h2}
    Replicator = rep
    Limit = 4
    MaxCrashes = 0
    Backuper = "postgres"
SPECIFICATION Spec
INVARIANTS
    StepReachesTop
CHECK_DEADLOCK FALSE
