SPECIFICATION Spec
CONSTANTS
  N = 4
  MCShape = "all"
  Graphs <- MCGraphs
  Calls = {"Train", "PredictData"}
  MaxCalls = 2
  MCFills = "one"
  Fills <- MCFillSets
  BadLoads = FALSE
CHECK_DEADLOCK FALSE
INVARIANTS
  FixpointReached
  TrainedOnce
  DataOfThisCall
  DanglingNeverReturns
PROPERTIES
  CallReturns
