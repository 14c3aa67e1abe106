\* Two methods over one buffer, and one method over a buffer cut and whole,
\* under limits of one.
CONSTANTS
  Buffers <- Samples
  Cuts <- CutSamples
  Methods <- Pairs
  MaxDepth = 1
  MaxStringBytes = 1
  MaxArrayElements = 1
  MaxMapPairs = 1
  MaxTotalItems = 4
SPECIFICATION Spec
INVARIANTS
  Covered
  InStep
  Stable
CHECK_DEADLOCK FALSE
