SPECIFICATION Spec
CONSTANTS
  NumTries = 1
  PipeRoom = 1
  Setups <- MCSetups
INVARIANTS
  Accounted
PROPERTIES
  EachIsRecorded
  CloseReturns
CHECK_DEADLOCK FALSE
