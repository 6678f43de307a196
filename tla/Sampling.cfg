SPECIFICATION FairSpec
CONSTANTS
  MaxProfilers = 2
  MaxSamples = 2
INVARIANTS SamplesCounted ReportedOnce CrashOnlyByRace
PROPERTIES SamplingEnds
CHECK_DEADLOCK FALSE
