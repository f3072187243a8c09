SPECIFICATION Spec
CONSTANTS
  WaitCap = 2
  ReadTimeout = 4
  Lag = 1
  MaxWait = 3
  WireRoom = 2
  s1 = s1
  s2 = s2
  Sessions = {s1, s2}
  NoSession = NoSession
  Listed <- MCListed
  Wants <- MCWants
  Lines = {x, Blank}
  Blank = Blank
  MaxLen = 3
  MaxEdits = 2
  Workspaces <- MCWorkspaces
  Tags <- MCTags
  MaxLabel = 7
INVARIANTS WaitInTime AnswersAreReal ArgsArrive EditKeepsOthers
INVARIANTS NamesAreUnique BuiltIsDeployed
PROPERTIES CommandReturns ProxyEnds
CHECK_DEADLOCK FALSE
