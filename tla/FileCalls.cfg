SPECIFICATION Spec
CONSTANTS
  Files = {f, g}
  Calls = {c1, c2}
  Pushes = {p}
  Named404 = {g}
  Faults = {"restart", "timeout"}
  MaxRevs = 3
CHECK_DEADLOCK FALSE
SYMMETRY CallSymmetry
PROPERTY IsAtomic
