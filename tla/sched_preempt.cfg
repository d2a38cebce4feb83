CONSTANTS
  NSlots = 3
  MaxPid = 4
  NServices = 0
  DefaultSlice = 2
  MaxSpawns = 2
  Calls = {"exit", "fork", "kill", "waitpid"}
  Signums = {9, 41}
  MaxSleep = 1
  AutoEoi = TRUE
SPECIFICATION Spec
INVARIANTS TypeOK CurrentOwnsCpu
PROPERTIES ReapedByParent
