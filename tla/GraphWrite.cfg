SPECIFICATION FairSpec
CONSTANTS
  j1 = j1
  j2 = j2
  w1 = w1
  w2 = w2
  i1 = i1
  None = None
  Jobs <- MCJobs
  KeyOf <- MCOneKey
  Workers <- MCWorkers
  Items <- MCItems
  MaxAttempts <- MCMaxAttempts
  BatchLimit = 2
  MaxEvents = 1
INVARIANT TypeOK
PROPERTIES KeepsPromise SuccessIsComplete OvertakenLeavesNoTrace ConfirmedStaysConfirmed EveryJobSettles
CHECK_DEADLOCK FALSE
