\* Any sequence of calls, and the loop More is documented for, over a reader
\* that cuts, stalls and fails; an item may be too large for the buffer.
CONSTANTS
  Sources <- PlainSources
  Methods = {"next", "raw", "skip"}
  FirstGrow = 2
  MaxBuffer = 4
  Caps = {0, 1, 3, 6}
  MayFail = TRUE
  MaxStalls = 1
  Longest = 5
  Clients = {"any", "loop"}
SPECIFICATION ClientSpec
INVARIANTS
  TypeOK
  WindowHolds
PROPERTIES
  BufferFollowsItem
  Promise
  CallsReturn
  MovesOn
  Drained
CHECK_DEADLOCK FALSE
