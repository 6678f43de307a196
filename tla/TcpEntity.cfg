SPECIFICATION FairSpec
CONSTANTS
  Producers = {p1, p2}
  MaxSends = 2
INVARIANTS CountAccurate NoLostWakeup WireInOrder EachPacketOnce
PROPERTIES ImplementsChannel QueueDrains StopReturns
CHECK_DEADLOCK FALSE
