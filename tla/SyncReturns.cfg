SPECIFICATION Spec
CONSTANTS
  Sessions = {s1}
  Calls = {c1, c2}
  Tools = {"run"}
  Revs = {r1, r2}
  NoRev = NoRev
  Faults = {"restart", "crash", "timeout"}
  MaxMoves = 1
  MaxPods = 1
PROPERTY EveryCallReturns
CHECK_DEADLOCK FALSE
