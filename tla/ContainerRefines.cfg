SPECIFICATION Spec
CONSTANTS
  Keys <- MCSpliceKeys
  KeyType <- MCSpliceKeyType
  InvalidKeys = {}
  MaxPlaintext = 4096
  Inputs <- MCTwoTexts
  RecipientLists <- MCSpliceLists
  PolicyChoices <- MCOnePolicy
  MaxContainers = 3
INVARIANTS
  MixturesRejected
  RewrapHealsNothing
PROPERTY
  ImplementsSealedFile
CHECK_DEADLOCK FALSE
