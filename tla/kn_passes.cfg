CONSTANTS
  W = 2
  JB = 4
  KB = 2
  Passes <- SmallPasses
SPECIFICATION Spec
INVARIANTS TypeOK PartialSums OperandsKept ResultExact
PROPERTIES WritesOwnPart Returns
CHECK_DEADLOCK FALSE
