SPECIFICATION Spec
CONSTANTS
  Keys <- MCSpliceKeys
  KeyType <- MCSpliceKeyType
  InvalidKeys = {}
  MaxPlaintext = 4096
  Inputs <- MCLongNames
  RecipientLists <- MCSpliceLists
  PolicyChoices <- MCOnePolicy
  MaxContainers = 2
INVARIANT
  NamesAreShort
CHECK_DEADLOCK FALSE
