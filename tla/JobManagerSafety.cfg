SPECIFICATION Spec
CONSTANTS
  Instances = {1, 2}
  NoInstance = 0
  Urls = {u1, u2}
  NoUrl = NoUrl
  Rates = {0, 2}
  MinRate = 1
  U256Max = 3
  Kinds = {"OPENED", "OPENED_DENIED", "OPENED_BAD", "SETTLED", "CLOSED", "RATE_INITIATED", "RATE_CANCELLED", "RATE_FINALIZED", "METADATA", "METADATA_BAD"}
  LiveListedFirst = TRUE
  MaxLogs = 4
  MaxRestarts = 1
  MaxFaults = 1
SYMMETRY Symmetry
CHECK_DEADLOCK FALSE
INVARIANTS AtMostOneLive CleanExit KillNeedsMetadata
PROPERTY TerminationSticks
