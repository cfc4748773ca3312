SPECIFICATION Spec
CONSTANTS
  w1 = w1
  w2 = w2
  None = None
  Events <- MCEvents
  SourceLimit = 1
  Workers <- MCWorkers
  Serial = FALSE
  EarlyPurges = TRUE
  MaxEdits = 1
  MaxRestores = 1
  MaxRebuilds = 3
  MaxPurging = 1
SYMMETRY MCSymmetry
PROPERTIES IsVersionedPage PurgedSlipInOnly RegressesOnlyByPurge
CHECK_DEADLOCK FALSE
