SPECIFICATION Spec
CONSTANTS
  Keys <- MCKeys
  KeyType <- MCKeyType
  InvalidKeys <- MCInvalid
  MaxPlaintext = 4096
  Inputs <- MCInputs
  RecipientLists <- MCRecipientLists
  PolicyChoices <- MCPolicies
  MaxContainers = 3
INVARIANTS
  TypeOK
  ReadersExactly
  PreparedFitsItsFile
  FieldsBound
  PythonOpensAlike
CHECK_DEADLOCK FALSE
