SPECIFICATION LockSpec
CONSTANTS
  t1 = t1
  t2 = t2
  t3 = t3
  t4 = t4
  Threads <- FourThreads
INVARIANTS
  LockTypeOK
  LockInv
  MutualExclusion
PROPERTIES
  ImplementsSharedExclusive
  WriterGetsIn
  SomeoneGetsIn
