\* Values written in every mode, read back, and taken as keys and notation.
CONSTANTS
  Docs <- AllDocs
  Half <- SmallHalf
  Single <- SmallSingle
  Double <- SmallDouble
  Word = 128
  MaxKeyDepth = 2
  ParseDepth = 2
  Scalars = {}
  Reals = {}
  Contents = {}
  Counts = {}
  Tags = {}
  MaxBytes = 100
  SkipStrictAll <- Items
  MaxDepth = 64
  MaxStringBytes = 64
  MaxArrayElements = 64
  MaxMapPairs = 64
  MaxTotalItems = 64
SPECIFICATION WriterSpec
INVARIANTS
  WritesBack
  KeyIsEncoding
  SameKeyMeansSame
  ShortestExact
  PolicyResolves
  TagModes
  ProjectionAgrees
  MarshalInverse
  ParseRender
CHECK_DEADLOCK FALSE
