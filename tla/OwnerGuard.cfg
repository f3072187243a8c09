SPECIFICATION Spec
CONSTANTS
  s1 = s1
  s2 = s2
  d1 = d1
  d2 = d2
  d3 = d3
  NoSession = NoSession
  Names = {n1, n2}
  Sessions = {s1, s2}
  Deploys = {d1, d2, d3}
  By <- MCBy
  Faces = {"tool", "http"}
  Faults = {"lookup", "post"}
PROPERTY OwnerIsAsked
CHECK_DEADLOCK FALSE
