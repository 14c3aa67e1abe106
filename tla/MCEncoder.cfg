\* A caller that overfills, cuts short and mixes up containers, in every mode,
\* and one that writes maps inside maps, arrays and tags.
CONSTANTS
  Scalars <- Keys
  Contents <- SomeContents
  Counts = {0, 1, 2}
  Tags = {1}
  Word = 16
  Half <- SmallHalf
  Single <- SmallSingle
  Double <- SmallDouble
  Reals <- SmallReals
  MaxBytes = 100
  SkipStrictAll <- Items
  Mistakes = {"reserved"}
  ShortBytes = 4
  LongBytes = 6
  Documents <- MapDocuments
  MaxDepth = 64
  MaxStringBytes = 64
  MaxArrayElements = 64
  MaxMapPairs = 64
  MaxTotalItems = 64
SPECIFICATION ClientSpec
INVARIANTS
  TypeOK
  BytesWellFormed
  MarksInBuffer
  Accounted
  KeysInOrder
PROPERTIES
  RefusedBeforeWriting
  Poisoned
  NotedStays
CHECK_DEADLOCK FALSE
