CONSTANTS
  t1 = t1
  t2 = t2
  m1 = m1
  m2 = m2
  w1 = w1
  w2 = w2
  None = None
  Tasks <- MCTasks
  Managers <- MCManagers
  Workers <- MCWorkers
  Home <- MCHome
  Capacity <- MCCapacity
  Faults <- MCFaults
  Events <- MCEvents
SPECIFICATION FairSpec
INVARIANTS
  TasksTracked
  RunsOnce
  DrainedIsIdle
  ManagersServed
PROPERTIES
  EventuallyAnswered
CHECK_DEADLOCK FALSE
