SPECIFICATION FairSpec
CONSTANTS
  Threads = {t1, t2, t3}
  NoThread = NoThread
  InitialSize = 1
  MaxPoolSize = 2
  MaxConnections = 1
  MaxIdleTime = 1
  MaxCreated = 4
  MaxTime = 2
INVARIANTS
  TypeOK
  Exclusive
  Accounting
  CapacityBound
  LiveBound
PROPERTIES
  SweepComplete
  LendingSpec
  ExpiredReclaimed
  DestructorReturns
