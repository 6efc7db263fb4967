SPECIFICATION Spec
CONSTANTS
  ChunkSize = 2
  EpochSize = 2
  TotalSize = 9
  EpochLimit = 3
  CallSizes <- MCCallSizes
  SeekEpochs <- MCSeeks
INVARIANTS
  TypeOK
  WriterTypeOK
  TilesPlaintext
  UniquePositions
  FinalMarksTheEnd
  ShortOnlyAtEpochEnd
  DeliversInOrder
  FinalizedIffAtEnd
  OverflowOnlyWhenFull
PROPERTIES
  WriteCallsReturn
  ImplementsByteStream
CHECK_DEADLOCK FALSE
