\* DecodeJSON and an indefinite map of exactly MaxMapPairs pairs.
CONSTANTS
  Inputs <- FullMapInputs
  Ops = {"json"}
  MaxDepth = 8
  MaxStringBytes = 16
  MaxArrayElements = 16
  MaxMapPairs = 1
  MaxTotalItems = 16
SPECIFICATION Spec
INVARIANTS
  CapAllowsItsCount
CHECK_DEADLOCK FALSE
