SPECIFICATION TimelySpec
CONSTANTS
  Threads = {t1, t2, t3}
  NoLine = NoLine
  Size = 2
  MaxLines = 2
SYMMETRY Symmetry
INVARIANTS
  TypeOK
  SlotOwned
  NothingLost
PROPERTIES
  LogSpec
