SPECIFICATION Spec
CONSTANTS
  w1 = w1
  w2 = w2
  None = None
  Events <- MCEvents
  SourceLimit = 2
  Workers <- MCWorkers
  Serial = TRUE
  EarlyPurges = FALSE
  MaxEdits = 1
  MaxRestores = 0
  MaxRebuilds = 3
  MaxPurging = 0
SYMMETRY MCSymmetry
INVARIANTS TypeOK PurgedSourcesAreFlagged
PROPERTIES FlagsAreAnsweredOnce
CHECK_DEADLOCK FALSE
