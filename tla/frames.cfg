CONSTANTS
  NFrames = 21
  W = 5
  MaxProcesses = 2
  MaxPid = 4
  StackBottom = 6
  StackTop = 7
  Images <- SomeImages
  Writes <- SomeWrites
SPECIFICATION Spec
INVARIANTS TypeOK OneUsePerFrame MemoryAsWritten KernelMapped
CHECK_DEADLOCK FALSE
