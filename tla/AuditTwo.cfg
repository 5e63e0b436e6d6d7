SPECIFICATION Spec
CONSTANTS
  Sessions <- Two
  Pieces = 2
  Killable <- Two
  MaxRecords = 3
  MaxErrors = 2
CHECK_DEADLOCK FALSE
INVARIANTS
  TypeOK
  SessionsVerify
  RecordedIsReadable
