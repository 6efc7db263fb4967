SPECIFICATION Spec
CONSTANTS
  Left <- Byte
  Right <- MCRight
INVARIANT
  ArithmeticIsOfTheField
CHECK_DEADLOCK FALSE
