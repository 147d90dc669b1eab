CONSTANTS
    Nodes = {n1, n2}
    Jets = {j1}
    Requests = {w1, w2}
    JetOf <- OneJet
    MaxPulse = 3
SPECIFICATION Spec
INVARIANTS
    NothingIsLost
    StoredOnce
    HotBeforeWrite
    NobodyWaitsInVain
SYMMETRY RequestSymmetry
CHECK_DEADLOCK FALSE
