\* All four methods against the grammar; the longest inputs reach depth and budget.
CONSTANTS
  Inputs <- GrammarInputs
  Ops = {"decode", "json", "strict", "skip"}
  MaxDepth = 2
  MaxStringBytes = 16
  MaxArrayElements = 16
  MaxMapPairs = 16
  MaxTotalItems = 5
SPECIFICATION Spec
INVARIANTS
  AcceptsItems
  RefusesOthers
CHECK_DEADLOCK FALSE
