\* An item larger than the buffer, under the client loop.
CONSTANTS
  Sources <- OversizeSources
  Methods = {"next"}
  FirstGrow = 2
  MaxBuffer = 3
  Caps = {}
  MayFail = FALSE
  MaxStalls = 0
  Longest = 5
  Clients = {"loop"}
SPECIFICATION ClientSpec
PROPERTIES
  OversizeRefused
CHECK_DEADLOCK FALSE
