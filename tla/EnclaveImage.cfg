SPECIFICATION FairSpec
CONSTANTS
  Urls = {u1, u2}
  NoImage = NoImage
  Broken = Broken
  Allowed = {u1}
  Family = "tuna"
  Debug = TRUE
  MaxUpdates = 2
  MaxFaults = 4
CHECK_DEADLOCK FALSE
INVARIANTS RunsOnlyAllowed SetUpWhileRunning
PROPERTY EventuallyRuns
