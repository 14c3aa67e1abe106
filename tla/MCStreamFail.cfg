\* The client loop over a reader that fails.
CONSTANTS
  Sources <- PlainSources
  Methods = {"next"}
  FirstGrow = 2
  MaxBuffer = 4
  Caps = {}
  MayFail = TRUE
  MaxStalls = 0
  Longest = 3
  Clients = {"loop"}
SPECIFICATION ClientSpec
INVARIANTS
  EofMeansEof
CHECK_DEADLOCK FALSE
