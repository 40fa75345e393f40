SPECIFICATION Spec
CONSTANTS
  t1 = t1
  t2 = t2
  a = a
  b = b
  Null = Null
  Threads <- One
  Objects <- OneObject
  Pointers <- OfOne
  Features = {"weak"}
  MaxCount = 4
  MaxGarbage = 2
CHECK_DEADLOCK FALSE
INVARIANTS
  LockedIsAlive
