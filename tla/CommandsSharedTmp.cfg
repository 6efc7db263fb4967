SPECIFICATION Spec
CONSTANTS
  Commands <- MCCommands
  Paths <- MCPaths
  TmpPath <- MCTmpPath
  PubPath <- MCPubPath
  KeyPath <- MCKeyPath
  Plans <- MCSharedPlans
  Existing <- MCExisting
PROPERTY
  SuccessIsOwnResult
CHECK_DEADLOCK FALSE
