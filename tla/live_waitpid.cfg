CONSTANTS
  NSlots = 4
  MaxPid = 4
  NServices = 0
  DefaultSlice = 2
  MaxSpawns = 2
  Calls = {"exit", "fork", "waitpid"}
  Signums = {}
  MaxSleep = 1
  AutoEoi = FALSE
SPECIFICATION ExitingPrograms
PROPERTIES WaitEnds
