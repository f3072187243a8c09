SPECIFICATION Spec
CONSTANTS
  Calls = {c1}
  Codes = {0, 3}
  Faults = {"net", "eof", "cancel", "crash", "mail"}
INVARIANTS HonestNotice
PROPERTIES ReportedOnce EveryRunAnswers NoGoroutineLeaks BackgroundIsNoticed
CHECK_DEADLOCK FALSE
