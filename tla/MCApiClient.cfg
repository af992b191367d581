SPECIFICATION FairSpec
CONSTANTS
  Connections = {c1, c2}
  Workers = {w1}
  Threads = {t1, t2}
  NoConnection = NoConnection
  MaxPoolSize = 1
  MaxConnections = 1
INVARIANTS
  NamesOnce
  WorksUntilStopped
  NoOrphans
PROPERTIES
  CallReturns
  SignalHonoured
