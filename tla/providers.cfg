SPECIFICATION Spec
CONSTANTS
  j1 = j1
  j2 = j2
  Jobs <- MCJobs
  MaxNodes = 1
  Setups <- MCSetups
INVARIANTS
  CancelledIsOver
  OneVpc
PROPERTIES
  EndsAreReal
  EndIsSeen
CHECK_DEADLOCK FALSE
