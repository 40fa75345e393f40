SPECIFICATION Spec
CONSTANTS
  t1 = t1
  t2 = t2
  a = a
  b = b
  Null = Null
  Threads <- Two
  Objects <- TwoObjects
  Pointers <- TwoAndOne
  Features = {"alias", "weak"}
  MaxCount = 2
  MaxGarbage = 1
SYMMETRY Symmetric
CHECK_DEADLOCK FALSE
INVARIANTS
  TypeOK
  NoDangling
  CountExact
  NeverUndercounted
