SPECIFICATION FairSpec
CONSTANTS
  Threads = {t1, t2}
  NoLine = NoLine
  Size = 2
  Wrap = 2
  Echo = TRUE
  MaxLines = 2
  MaxDay = 1
INVARIANTS
  TypeOK
  KeepsUp
  AtMostOnce
  DaysInOrder
PROPERTIES
  LinesWritten
