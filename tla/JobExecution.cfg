SPECIFICATION Spec
CONSTANTS
  Jobs = {j1, j2}
  Cgroups = {c1, c2}
  NoCgroup = NoCgroup
  MaxTasks = 3
CHECK_DEADLOCK FALSE
INVARIANTS CgroupOwned ReserveSucceeds OwnWorker
PROPERTIES CgroupReturned
