CONSTANTS
  t1 = t1
  t2 = t2
  t3 = t3
  k1 = k1
  None = None
  NoKey = NoKey
  Tasks <- Three
  Keys <- MCKeys
  Depends <- Fork3
  Key <- EqualThree
  Retries = 0
  RetryCosts = {1}
  CheckpointModes = {"none", "task_exit", "deferred"}
  GarbageCollect = TRUE
  Recovered = {}
  Faults = {"body", "disk", "hash", "pickle"}
  Calls = {"checkpoint", "cleanup"}
SPECIFICATION Spec
INVARIANTS
  VisibleIsSettled
  RecordsSuccessesOnce
PROPERTIES
  OutcomesKept
  KeepsContract
CHECK_DEADLOCK FALSE
