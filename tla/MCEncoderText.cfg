\* Valid text in chunks, inside another container.
CONSTANTS
  Scalars <- Keys
  Contents <- Chars
  Counts = {1}
  Tags = {1}
  Word = 16
  Half <- SmallHalf
  Single <- SmallSingle
  Double <- SmallDouble
  Reals = {}
  MaxBytes = 4
  SkipStrictAll <- Items
  Mistakes = {}
  ShortBytes = 4
  LongBytes = 4
  Documents = {}
  MaxDepth = 64
  MaxStringBytes = 64
  MaxArrayElements = 64
  MaxMapPairs = 64
  MaxTotalItems = 64
SPECIFICATION ClientSpec
INVARIANTS
  ValidTextAccepted
