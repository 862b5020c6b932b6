CONSTANTS
  MaxCounter = 7
  Reserve = 2
  AnyImport = TRUE
SPECIFICATION Spec
INVARIANT FloorRespected
CHECK_DEADLOCK FALSE
