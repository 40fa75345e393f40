SPECIFICATION Spec
CONSTANTS
  t1 = t1
  t2 = t2
  a = a
  b = b
  Null = Null
  Threads <- Two
  Objects <- OneObject
  Pointers <- OneEach
  Features = {}
  MaxCount = 4
  MaxGarbage = 0
CHECK_DEADLOCK FALSE
INVARIANTS
  LastOwnerDeletes
