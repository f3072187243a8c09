SPECIFICATION Spec
CONSTANTS
  Sessions = {s1}
  Calls = {c1, c2}
  Tools = {"create", "run", "read", "write", "port"}
  Revs = {r1, r2}
  NoRev = NoRev
  Faults = {"restart", "delete", "crash", "timeout"}
  MaxMoves = 2
  MaxPods = 2
SYMMETRY Symmetry
INVARIANTS
  GatedJobsSeeTheirRev FirstStartIsFinal RecordedRevWasAcked
  PortVisible SyncedReadsSeeTheirRev UngatedRunsSeeTheirRev
CHECK_DEADLOCK FALSE
