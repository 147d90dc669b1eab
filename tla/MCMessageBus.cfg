CONSTANTS
    Requests = {q1}
    Routers = {r1, r2}
    Retries = 1
    ResponseCount = 2
    MaxPulse = 2
SPECIFICATION FairSpec
INVARIANTS
    NoSendOnClosed
    NoStaleReply
    NothingLeaks
PROPERTIES
    AttemptEnds
CHECK_DEADLOCK FALSE
