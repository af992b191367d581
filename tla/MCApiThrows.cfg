SPECIFICATION Spec
CONSTANTS
  Connections = {c1, c2}
  Workers = {w1}
  Threads = {t1, t2}
  NoConnection = NoConnection
  MaxPoolSize = 1
  MaxConnections = 2
INVARIANTS
  NeverThrows
