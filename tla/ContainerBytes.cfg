SPECIFICATION Spec
CONSTANTS
  CountLimit = 3
  UuidLen = 1
  HashLen = 1
  Contents <- MCContents
  WrapLists <- MCWrapLists
  PolicyChoices <- MCPolicies
  MaxFaults = 2
  MaxCell = 40
INVARIANTS
  TypeOK
  WrittenReadsBack
  AcceptedIsEncoding
  CutIsNoticed
  ScanMeetsParser
  RewrapSlicesInside
  PythonReadsAlike
CHECK_DEADLOCK FALSE
