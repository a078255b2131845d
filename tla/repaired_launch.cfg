CONSTANTS
  t1 = t1
  t2 = t2
  t3 = t3
  k1 = k1
  None = None
  NoKey = NoKey
  Tasks <- Three
  Keys <- MCKeys
  Depends <- Join3
  Key <- Uncached3
  Retries = 1
  RetryCosts = {1}
  CheckpointModes = {"none"}
  GarbageCollect = FALSE
  Recovered = {}
  Faults = {"body", "submit", "retry_handler"}
  Calls = {}
SPECIFICATION FairSpec
INVARIANTS
  DependenciesFirst
PROPERTIES
  SingleAttempt
  EventuallyVisible
CHECK_DEADLOCK FALSE
