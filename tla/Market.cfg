SPECIFICATION Spec
CONSTANTS
  Jobs = {j1, j2}
  MaxHeight = 3
  MaxReorgs = 1
  MaxDrops = 2
  MaxRestarts = 1
CHECK_DEADLOCK FALSE
INVARIANTS SpawnedIsPrefix
PROPERTY AllSpawned
