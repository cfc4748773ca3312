SPECIFICATION Spec
CONSTANTS
  e1 = e1
  e2 = e2
  t1 = t1
  t2 = t2
  i1 = i1
  i2 = i2
  i3 = i3
  c1 = c1
  c2 = c2
  Events <- MCEvents
  Texts <- MCTexts
  Inputs <- MCInputs
  Text <- MCText
  From <- MCFrom
  Outlives <- MCOutlives
  Calls <- MCCalls
  MaxBatch = 2
  MaxPurging = 1
INVARIANTS TypeOK SourcesAreKept
PROPERTIES OrphansComeFromOverlaps
CHECK_DEADLOCK FALSE
