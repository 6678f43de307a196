SPECIFICATION Spec
CONSTANTS
  MaxProfilers = 1
  MaxSamples = 1
INVARIANTS SelectionReported
CHECK_DEADLOCK FALSE
