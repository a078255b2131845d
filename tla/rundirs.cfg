CONSTANTS
  p1 = p1
  p2 = p2
  p3 = p3
  Launchers <- MCLaunchers
  OldCounted <- MCOldCounted
  OldTaken <- MCOldTaken
SPECIFICATION DirsFairSpec
INVARIANTS
  DirectoriesOwned
PROPERTIES
  EveryLauncherStarts
CHECK_DEADLOCK FALSE
