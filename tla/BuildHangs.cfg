SPECIFICATION Spec
CONSTANTS
  Readers = {r1}
PROPERTY StreamsEnd
CHECK_DEADLOCK FALSE
