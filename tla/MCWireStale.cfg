SPECIFICATION Spec
CONSTANTS
  Base = 32
  BufSize = 16
  MaxBytes = 16384
  Chunk = 32
  FirstWhole = TRUE
  MaxCalls = 4
  Requests <- WithWrong
INVARIANTS
  OwnAnswer
CHECK_DEADLOCK FALSE
