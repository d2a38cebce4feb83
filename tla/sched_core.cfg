CONSTANTS
  NSlots = 4
  MaxPid = 5
  NServices = 1
  DefaultSlice = 2
  MaxSpawns = 2
  Calls = {"exit", "fault", "fatal", "kill", "fork", "exec", "waitpid", "read", "nanosleep", "oom"}
  Signums = {9, 41}
  MaxSleep = 1
  AutoEoi = FALSE
SPECIFICATION Spec
INVARIANTS TableWellFormed RunnableHasContext NeverWild HaltedMeansNoneReady
PROPERTIES DeadStayDead UserEndsOnlyItself
