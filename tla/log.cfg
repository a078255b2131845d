CONSTANTS
  h1 = h1
  h2 = h2
  Hashes <- MCHashes
  Torn = Torn
  Faults = {"makedirs", "open", "write", "sync", "rollback", "crash"}
  MaxOutcomes = 3
  MaxRuns = 3
SPECIFICATION LogSpec
INVARIANTS
  AckedSurvives
PROPERTIES
  NewestWins
CHECK_DEADLOCK FALSE
