SPECIFICATION MCSpec
CONSTANTS
  BlockSize = 2
  MaxElems = 1
  MaxItems = 9
  Cores = {c1, c2}
  Threads = {t1, t2}
  Nobody = nobody
  MaxTime = 4
  MaxCaptures = 2
  MaxTraces = 2
INVARIANTS KeepSparesCurrent SeesAllInOrder PicksWhatWasDrawn BoxesAreRuns BoxesDisjoint
SYMMETRY Symmetry
CHECK_DEADLOCK FALSE
