SPECIFICATION FairSpec
CONSTANTS
  Base = 32
  BufSize = 16
  MaxBytes = 16384
  Chunk = 32
  FirstWhole = TRUE
  MaxCalls = 4
  Requests <- Sound
INVARIANTS
  TypeOK
  OwnAnswerInStep
  InStep
PROPERTIES
  CallsEnd
CHECK_DEADLOCK FALSE
