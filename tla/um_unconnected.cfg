SPECIFICATION Spec
CONSTANTS
  N = 3
  MCShape = "dangling"
  Graphs <- MCGraphs
  Calls = {"Train"}
  MaxCalls = 1
  MCFills = "every"
  Fills <- MCFillSets
  BadLoads = FALSE
CHECK_DEADLOCK FALSE
INVARIANTS
  UnconnectedNotExecuted
