SPECIFICATION Spec
CONSTANTS
  w1 = w1
  w2 = w2
  None = None
  Events <- MCTwoEvents
  SourceLimit = 2
  Workers <- MCWorkers
  Serial = TRUE
  EarlyPurges = TRUE
  MaxEdits = 0
  MaxRestores = 0
  MaxRebuilds = 3
  MaxPurging = 0
SYMMETRY MCSymmetry
INVARIANT PurgedSourcesAreFlagged
CHECK_DEADLOCK FALSE
