CONSTANTS
  NSlots = 3
  MaxPid = 1
  NServices = 0
  DefaultSlice = 2
  MaxSpawns = 1
  Calls = {"nanosleep"}
  Signums = {}
  MaxSleep = 1
  AutoEoi = FALSE
SPECIFICATION FairSpec
PROPERTIES SleepEnds
