SPECIFICATION Spec
CONSTANTS
  PageSize = 2
  ChunkSize = 4
  TextSize = 2
  AsaLimit = 8
  IosLimit = 6
  RawSize = 6
  Samples = 4
  Dumps <- MCDumps
  Tables = {0, 3}
  Addresses <- MCAddresses
  Lengths = {0, 1, 4}
  KaslrLimit = 8
  KernelStart = 16
  DefaultBase = 24
INVARIANTS
  TypeOK
  ReadsTranslate
  DetectionIsRight
  EncryptionIsSampled
CHECK_DEADLOCK FALSE
