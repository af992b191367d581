SPECIFICATION FairSpec
CONSTANTS
  Threads = {t1, t2}
  NoLine = NoLine
  Size = 2
  MaxLines = 2
PROPERTIES
  LinesHandedOn
