SPECIFICATION Spec
CONSTANTS
  NumTasks = 2
  PipeRoom = 1
  Setups <- MCSetups
INVARIANTS
  InOnePlace
  NoneLeftWaiting
PROPERTIES
  SentIsAnswered
  ShutdownEnds
CHECK_DEADLOCK FALSE
