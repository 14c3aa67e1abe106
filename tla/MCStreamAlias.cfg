\* Values of byte strings across refills.
CONSTANTS
  Sources <- ByteSources
  Methods = {"next"}
  FirstGrow = 2
  MaxBuffer = 4
  Caps = {}
  MayFail = FALSE
  MaxStalls = 0
  Longest = 4
  Clients = {"any"}
SPECIFICATION ClientSpec
INVARIANTS
  DeliveredKept
