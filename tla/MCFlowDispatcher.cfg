CONSTANTS
    Messages = {m1}
    MaxPulse = 4
    ClosesFirst = FALSE
SPECIFICATION FairSpec
INVARIANTS
    NoPanic
    EndedIsCancelled
    FutureWakes
PROPERTIES
    MessageHandled
CHECK_DEADLOCK FALSE
