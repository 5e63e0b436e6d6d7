SPECIFICATION Spec
CONSTANTS
  NumWorkers = 2
  ProcessIds <- FourProcs
  Capacity = 2
  Addrs = {1}
  Hits <- MCHits
  PipeSize = 1
  Killable <- FirstThree
  SpawnMayFail = TRUE
  SlowWorkers = TRUE
  WorkMayFail = FALSE
  MaxStarts = 1
INVARIANTS
  NoExtraWorkers
CHECK_DEADLOCK FALSE
