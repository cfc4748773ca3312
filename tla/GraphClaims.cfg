SPECIFICATION Spec
CONSTANTS
  j1 = j1
  j2 = j2
  w1 = w1
  w2 = w2
  i1 = i1
  None = None
  Jobs <- MCJobs
  KeyOf <- MCOneKey
  Workers <- MCWorkers
  Items <- MCItems
  MaxAttempts <- MCMaxAttempts
  BatchLimit = 1
  MaxEvents = 0
INVARIANT OneWriterPerProject
CHECK_DEADLOCK FALSE
