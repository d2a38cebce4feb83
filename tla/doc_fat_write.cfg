SPECIFICATION Spec
CONSTANTS
  NClusters = 3
  SlotsPerCluster = 3
  BytesPerCluster = 2
  EntriesPerSector = 4
  Names <- TwoNames
  Bytes <- Bits
  MaxInode = 3
  MaxSize = 4
  MaxDirs = 1
  MaxDiskWrites = 8
PROPERTIES OnlyRangeWritten
