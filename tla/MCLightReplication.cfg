CONSTANTS
    Jets = {j1, j2}
    Handlers = {h1}
    LightChainLimit = 2
    CleanerDelay = 2
    MaxLag = 3
    MaxPulse = 7
SPECIFICATION FairSpec
INVARIANTS
    SentBeforeCleaned
    HandlerFindsData
PROPERTIES
    EverythingIsSent
CHECK_DEADLOCK FALSE
