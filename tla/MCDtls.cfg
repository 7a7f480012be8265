SPECIFICATION FairSpec
CONSTANTS
  Timeout = 3
  MaxRecord = 4
  DataMtus <- MCDataMtus
  Frames <- MCFrames
INVARIANTS
  OneLateTry
  OneShutdown
PROPERTIES
  EndsInTime
  KeepsContract
CHECK_DEADLOCK FALSE
