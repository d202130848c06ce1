CONSTANTS
    MaxTxns = 2
    Keys = {k1, k2}
    Sessions = {1, 2}
    MaxFaults = 1
    Overlap = TRUE
SPECIFICATION Spec
INVARIANT NonceOfSigner
CHECK_DEADLOCK FALSE
