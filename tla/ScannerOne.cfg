SPECIFICATION FairSpec
CONSTANTS
  NumWorkers = 1
  ProcessIds <- TwoProcs
  Capacity = 3
  Addrs = {1, 2}
  Hits <- MCHits
  PipeSize = 2
  Killable <- FirstWorker
  SpawnMayFail = FALSE
  SlowWorkers = TRUE
  WorkMayFail = TRUE
  MaxStarts = 1
INVARIANTS
  TypeOK
  WorkOnce
  CleanStopIsComplete
PROPERTIES
  CallsReturn
  WorkersEnd
  AcceptedIsProcessed
CHECK_DEADLOCK FALSE
