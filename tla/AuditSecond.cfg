SPECIFICATION Spec
CONSTANTS
  Sessions <- Two
  Pieces = 1
  Killable <- Nobody
  MaxRecords = 2
  MaxErrors = 0
CHECK_DEADLOCK FALSE
INVARIANT
  FileVerifies
