SPECIFICATION Spec
CONSTANTS
  Files = {f}
  Calls = {c1}
  Pushes = {p}
  Named404 = {}
  Faults = {}
  MaxRevs = 3
CHECK_DEADLOCK FALSE
PROPERTY ConcurrentChangeIsRejected
