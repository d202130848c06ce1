CONSTANTS
    MaxTxns = 2
    Keys = {k1, k2}
    Sessions = {1, 2}
    MaxFaults = 1
    Overlap = FALSE
SPECIFICATION Spec
INVARIANTS NoncesWatched NeitherLostNorDoubled
PROPERTY Unblocked
CHECK_DEADLOCK FALSE
