SPECIFICATION FairSpec
CONSTANTS
  Threads = {t1}
  Functions = {f1}
  MaxCalls = 2
  MaxSessions = 2
INVARIANTS EndsAgree GraphOfSession CallstacksNotForgotten
PROPERTIES StopReachesTarget
CHECK_DEADLOCK FALSE
