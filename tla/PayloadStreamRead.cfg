SPECIFICATION Spec
CONSTANTS
  ChunkSize = 2
  EpochSize = 2
  TotalSize = 17
  EpochLimit = 6
  CallSizes <- MCChunkCalls
  SeekEpochs <- MCNoSeek
INVARIANT
  NeverRejected
PROPERTY
  StoredIsRead
CHECK_DEADLOCK FALSE
