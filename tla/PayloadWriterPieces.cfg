SPECIFICATION WriterSpec
CONSTANTS
  ChunkSize = 3
  EpochSize = 2
  TotalSize = 11
  EpochLimit = 8
  CallSizes <- MCCallSizes
INVARIANT
  ReadyForContainer
CHECK_DEADLOCK FALSE
