CONSTANTS
  Names = {t1, t2, t3}
  Buffers = {b1, b2, b3}
  Null = Null
  Rows = 2
  Cols = 1
  Pad = 2
  Devices = {"CPU", "GPU"}
  Batches = {1, 2}
  Inputs = {1}
  Resizing = TRUE
SPECIFICATION Spec
SYMMETRY Interchangeable
INVARIANT AtKnowsAllocation
\* a behaviour ends with the first misuse
CHECK_DEADLOCK FALSE
