CONSTANTS
  t1 = t1
  t2 = t2
  k1 = k1
  None = None
  NoKey = NoKey
  Tasks <- Two
  Keys <- MCKeys
  Depends <- Flat2
  Key <- EqualTwo
  Retries = 1
  RetryCosts = {1}
  CheckpointModes = {"none", "task_exit", "deferred"}
  GarbageCollect = TRUE
  Recovered = {}
  Faults = {"body", "disk"}
  Calls = {"checkpoint", "wait", "cleanup"}
SPECIFICATION Spec
INVARIANTS
  WaitCoversSubmitted
  LateButComplete
CHECK_DEADLOCK FALSE
