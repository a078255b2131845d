CONSTANTS
  i1 = i1
  i2 = i2
  i3 = i3
  Inner <- MCInner
  NoThread = NoThread
SPECIFICATION JoinFairSpec
INVARIANTS
  OuterFollowsInner
PROPERTIES
  OuterEventuallySet
CHECK_DEADLOCK FALSE
