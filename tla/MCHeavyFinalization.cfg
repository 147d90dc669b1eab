CONSTANTS
    MaxPulse = 3
    MaxDepth = 1
    Handlers = {h1, h2}
    Replicator = rep
    Limit = 4
    MaxCrashes = 1
    Backuper = "badger"
SPECIFICATION FairSpec
INVARIANTS
    TypeOK
    NoFatal
    FinalizedComplete
    OneFinalizer
    BackupsAreOrdered
    IndexFollowsTop
PROPERTIES
    ImplementsLedger
    EndedPulseFinalized
CHECK_DEADLOCK FALSE
