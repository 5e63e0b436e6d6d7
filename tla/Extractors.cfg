SPECIFICATION Spec
CONSTANTS
  Scanners <- AllScanners
  Files <- MCFiles
  LinuxFiles <- MCLinuxFiles
  ChunkSize = 4
  WindowSize = 2
  StructSize = 1
  BucketSize = 2
  Gap = 2
  ClusterSize = 2
  MaxHits = 2
  MaxHops = 2
  Addresses <- MCAddresses
  Window = {1, 2}
  Memories <- MCMemories
  Famous = {"one"}
  NoPid = "zero"
  MaxWalkHops = 3
INVARIANTS
  TypeOK
  KeepsFirstOfEach
  ClustersAreSessions
  HiddenAreReported
  NoFalseAlarm
PROPERTY
  ScanEnds
CHECK_DEADLOCK FALSE
