SPECIFICATION Spec
CONSTANTS
  Kinds <- ManyKinds
  MaxFrames = 3
  MaxCalls = 4
  MaxSessions = 2
INVARIANTS PushesMatchPops SentFaithful DepthIsNesting ReturnsToCaller WalkSeesCallers
CHECK_DEADLOCK FALSE
