SPECIFICATION FairSpec
CONSTANTS
  Local = {p}
  Remote = {r}
  Nobody = nobody
  MaxCaptures = 2
  MaxTimers = 2
  MaxSelects = 3
INVARIANTS StopWorks OneProcessPerCapture
PROPERTY CaptureStops
CHECK_DEADLOCK FALSE
