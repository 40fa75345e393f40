SPECIFICATION Spec
CONSTANTS
  MaxUnits = 3
  FetcherShapes <- MCFetcherShapes
  NumUnits = {0, 2}
  Optimizers = {"SGD", "other"}
  MaxCompiles = 2
  MaxCalls = 5
  Cycles = {0, 1}
CHECK_DEADLOCK FALSE
INVARIANTS
  TypeOK
  ShapesFit
  LoadersOnce
  FetchedLabelIdle
  FirstDataOnly
  OneGradient
  CrashOnlyAfterFailure
