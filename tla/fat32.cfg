SPECIFICATION Spec
CONSTANTS
  NClusters = 3
  SlotsPerCluster = 2
  BytesPerCluster = 1
  EntriesPerSector = 4
  Names <- TwoNames
  Bytes <- NoBytes
  MaxInode = 3
  MaxSize = 2
  MaxDirs = 3
  MaxDiskWrites = 9
INVARIANTS TypeOK ChainsDisjoint DirectoriesClean RestartSafe SizesAgree
