\* Limits of one and two, reached by most inputs; the caller reads on with the
\* same Decoder, changing methods.
CONSTANTS
  Inputs <- LimitInputs
  Ops = {"decode", "json", "strict", "skip"}
  MaxDepth = 1
  MaxStringBytes = 1
  MaxArrayElements = 2
  MaxMapPairs = 1
  MaxTotalItems = 4
SPECIFICATION RawFairSpec
INVARIANTS
  TypeOK
  CursorInBounds
  BudgetKept
  RecursionBounded
  PresizeBounded
  LimitsExact
  MessagesTile
  RawExact
PROPERTIES
  AllReturn
  Progress
CHECK_DEADLOCK FALSE
