SPECIFICATION PipelineSpec
CONSTANTS
  Available <- Three
  Declarations <- AllGraphs
  Platforms <- AllPlatforms
  KeysOf <- OneKey
  MayInterrupt = TRUE
  Commands <- AllCommands
INVARIANTS
  PipelineTypeOK
  OrderIsTopological
  OrderIsComplete
  RunsOnSuccess
  FaultIsolation
  TrailIsTruthful
  ExitIsHonest
PROPERTY
  CommandEnds
CHECK_DEADLOCK FALSE
