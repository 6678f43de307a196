SPECIFICATION Spec
CONSTANTS
  Threads = {t1}
  Functions = {f1}
  MaxCalls = 1
  MaxSessions = 1
INVARIANTS DisregardOnlyPrevious
CHECK_DEADLOCK FALSE
