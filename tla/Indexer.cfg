SPECIFICATION Spec
CONSTANTS
  Jobs = {j1}
  Providers = {p1}
  Values = {1, 2}
  NoRow = NoRow
  StartBlocks = {0, 1, 2}
  RangeSize = 2
  U64 = 16
  Kinds = {"ProviderAdded", "ProviderRemoved", "ProviderUpdatedWithCp", "JobOpened", "JobSettled", "JobClosed", "JobDeposited", "JobWithdrew", "JobReviseRateFinalized", "JobMetadataUpdated", "LockCreated", "LockDeleted", "Other"}
  MaxLogs = 3
  MaxHeight = 3
  MaxCrashes = 1
CHECK_DEADLOCK FALSE
INVARIANTS DbMatchesChain NoHandlerError
PROPERTIES SyncMovesForward CatchesUp
