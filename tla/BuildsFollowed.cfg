SPECIFICATION MirrorSpec
CONSTANTS
  Callers = {c1}
  Loops = {"helm", "build", "package", "mirror", "publish", "install"}
  Faults = {"net"}
  Readers = {r1, r2}
INVARIANTS SuccessIsReal FailureIsReal EventIsReal
INVARIANTS NoLineTwice LateStreamComplete PageIsComplete
PROPERTIES FollowsBuildTask EveryWaitEnds LateStreamEnds
CHECK_DEADLOCK FALSE
