SPECIFICATION Spec
CONSTANTS
  IsClient = TRUE
  Producers = {p1, p2}
  MaxTimers = 1
  MaxSessions = 1
  SessionValues = 256

INVARIANTS NoLostWakeup
CHECK_DEADLOCK FALSE
