SPECIFICATION FairSpec
CONSTANTS
  IsClient = FALSE
  Producers = {p1, p2}
  MaxTimers = 1
  MaxSessions = 2
  SessionValues = 4
INVARIANTS EntriesAccurate TimersDrift NoLostWakeup EachTimerOnce AtMostOneStale RefusedOnlyStale
PROPERTIES QueueDrains
CHECK_DEADLOCK FALSE
