SPECIFICATION FairSpec
CONSTANTS
  Instances = {1, 2, 3}
  NoInstance = 0
  Urls = {u1, u2}
  NoUrl = NoUrl
  Rates = {2}
  MinRate = 1
  U256Max = 3
  Kinds = {"OPENED", "CLOSED", "METADATA"}
  LiveListedFirst = TRUE
  MaxLogs = 3
  MaxRestarts = 1
  MaxFaults = 1
CHECK_DEADLOCK FALSE
PROPERTIES TornDown EventuallyServing
