SPECIFICATION Spec
CONSTANTS
  NumTasks = 1
  NumBlocks = 3
  MinBlocks = 0
  MaxBlocks = 2
  InitBlocks = 2
  Slots = 1
  Parallelism <- MCParallelism
  Setups <- MCSetups
INVARIANTS
  NoJobForgotten
PROPERTIES
  WithinMaxBlocks
  RecordedIsFinal
  GivesUpOnlyDead
  CloseEnds
CHECK_DEADLOCK FALSE
