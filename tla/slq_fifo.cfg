SPECIFICATION Spec
CONSTANTS
  t1 = t1
  t2 = t2
  t3 = t3
  v1 = v1
  v2 = v2
  Threads <- MCThreads
  Values <- MCValues
  Blank = Blank
  Capacity = 2
SYMMETRY Symmetric
CHECK_DEADLOCK FALSE
INVARIANTS
  TypeOK
  SizeExact
  FailureJustified
PROPERTIES
  ImplementsFifo
