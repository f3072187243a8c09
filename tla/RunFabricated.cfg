SPECIFICATION Spec
CONSTANTS
  Calls = {c1}
  Codes = {1}
  Faults = {}
INVARIANT HonestCompletion
CHECK_DEADLOCK FALSE
