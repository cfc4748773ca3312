SPECIFICATION FairSpec
CONSTANTS
  j1 = j1
  j2 = j2
  p1 = p1
  p2 = p2
  w1 = w1
  w2 = w2
  id1 = id1
  id2 = id2
  None = None
  Jobs <- MCJobs
  Processes <- MCProcesses
  WorkerIds <- MCIds
  Lanes <- MCLanes
  ProcessOf <- MCProcessOf
  WorkerIdOf <- MCOwnIds
  LaneJobs <- MCLaneJobs
  AggregateOf <- MCOneAggregate
  MaxAttempts = 2
  BatchLimit = 2
  MaxRedrives = 1
  MaxCrashes = 1
  MaxOverruns = 1
INVARIANTS TypeOK RetryBudget
PROPERTIES OnlyTheHolderRecords KeepsPromise EveryJobSettles
CHECK_DEADLOCK FALSE
