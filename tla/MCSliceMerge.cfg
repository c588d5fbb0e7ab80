SPECIFICATION Spec
CONSTANTS
  Elem = {1, 2, 3}
  MaxLen = 3
CHECK_DEADLOCK FALSE
INVARIANTS
  TypeOK
  ReturnsRightCopies
PROPERTIES
  Terminates
