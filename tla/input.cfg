CONSTANTS
  Size = 4
  Codes = {30, 224}
  Packets <- SomePackets
  MaxRead = 2
  DeltaMax = 300
  MaxBurst = 2
SPECIFICATION TrackedSpec
INVARIANTS TypeOK MotionConserved
PROPERTIES ImplementsQueue MotionKeepsDirection
