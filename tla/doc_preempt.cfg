CONSTANTS
  NSlots = 3
  MaxPid = 3
  NServices = 0
  DefaultSlice = 2
  MaxSpawns = 2
  Calls = {"kill"}
  Signums = {41}
  MaxSleep = 1
  AutoEoi = FALSE
SPECIFICATION FairSpec
PROPERTIES NoStarvation
