SPECIFICATION Spec
CONSTANTS
  Callers = {c1}
  Loops = {"build"}
  Faults = {}
INVARIANT ProgressWaitsAlike
CHECK_DEADLOCK FALSE
