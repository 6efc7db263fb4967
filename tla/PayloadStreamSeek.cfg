SPECIFICATION Spec
CONSTANTS
  ChunkSize = 2
  EpochSize = 2
  TotalSize = 9
  EpochLimit = 3
  CallSizes <- MCCallSizes
  SeekEpochs <- MCSeeks
PROPERTY
  FinalizedStays
CHECK_DEADLOCK FALSE
