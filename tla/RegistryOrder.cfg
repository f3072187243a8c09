SPECIFICATION Spec
CONSTANTS
  Tasks = {t1, t2, t3, t4}
  MaxTasks = 2
CONSTRAINT TwoEvictions
SYMMETRY Symmetry
INVARIANTS RunningIsKept
PROPERTIES OldestGoFirst CapIsReached
CHECK_DEADLOCK FALSE
