SPECIFICATION FairSpec
CONSTANTS
  NumWorkers = 1
  ProcessIds <- FourProcs
  Capacity = 2
  Addrs = {1}
  Hits <- MCHits
  PipeSize = 1
  Killable <- FirstWorker
  SpawnMayFail = FALSE
  SlowWorkers = FALSE
  WorkMayFail = TRUE
  MaxStarts = 2
INVARIANTS
  StopCleansUp
  DrainCollectsAll
PROPERTIES
  StreamRefinement
CHECK_DEADLOCK FALSE
