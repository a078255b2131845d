SPECIFICATION Spec
CONSTANTS
  t1 = t1
  t2 = t2
  t3 = t3
  n1 = n1
  n2 = n2
  None = None
  Tasks <- MCTasks
  Nodes <- MCNodes
  NodeOrder <- MCNodeOrder
  Setups <- MCSetups
INVARIANTS
  NodesOwned
  CounterBehindQueue
  NoneDropped
PROPERTIES
  BacklogMoves
CHECK_DEADLOCK FALSE
