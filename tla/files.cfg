CONSTANTS
  Procs = {1, 2}
  NFds = 4
  Paths <- SomePaths
  Bytes = {1}
  MaxWrite = 1
  MaxLen = 2
  MaxInode = 5
SPECIFICATION Spec
INVARIANTS TypeOK TreeWellFormed ResolveFindsPlace OffsetsInFile
PROPERTIES ImplementsStore
