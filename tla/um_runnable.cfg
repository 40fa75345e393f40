SPECIFICATION Spec
CONSTANTS
  N = 4
  MCShape = "runnable"
  Graphs <- MCGraphs
  Calls = {"Train", "Predict", "PredictData"}
  MaxCalls = 2
  MCFills = "none"
  Fills <- MCFillSets
  BadLoads = TRUE
CHECK_DEADLOCK FALSE
INVARIANTS
  TypeOK
  DataOfThisEpoch
  ForwardComplete
PROPERTIES
  ImplementsDataflow
