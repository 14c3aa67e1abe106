\* An integer reported as exact is the double it became.
CONSTANTS
  Docs <- AllIntegers
  Half <- SmallHalf
  Single <- SmallSingle
  Double <- SmallDouble
  Word = 128
  MaxKeyDepth = 2
  ParseDepth = 2
  Scalars = {}
  Reals = {}
  Contents = {}
  Counts = {}
  Tags = {}
  MaxBytes = 100
  SkipStrictAll <- Items
  MaxDepth = 64
  MaxStringBytes = 64
  MaxArrayElements = 64
  MaxMapPairs = 64
  MaxTotalItems = 64
SPECIFICATION WriterSpec
INVARIANTS
  ExactMeansExact
CHECK_DEADLOCK FALSE
