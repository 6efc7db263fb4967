SPECIFICATION Spec
CONSTANTS
  Commands <- MCCommands
  Paths <- MCPaths
  TmpPath <- MCTmpPath
  PubPath <- MCPubPath
  KeyPath <- MCKeyPath
  Plans <- MCAllPlans
  Existing <- MCExisting
INVARIANTS
  TypeOK
  FilesAreWhole
  KeyPairsMatch
  WholeKeysUsed
PROPERTIES
  ChangesOnlyBySuccess
  ApartSuccessIsOwnResult
  NeverReplacesUnforced
  ReplacesWhatItRead
CHECK_DEADLOCK FALSE
