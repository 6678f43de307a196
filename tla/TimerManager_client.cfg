SPECIFICATION FairSpec
CONSTANTS
  IsClient = TRUE
  Producers = {p1, p2}
  MaxTimers = 2
  MaxSessions = 1
  SessionValues = 256
INVARIANTS FewStranded
PROPERTIES StopReturns
CHECK_DEADLOCK FALSE
