SPECIFICATION FairSpec
CONSTANTS
  p1 = p1
  p2 = p2
  p3 = p3
  k1 = k1
  k2 = k2
  t1 = t1
  w1 = w1
  w2 = w2
  None = None
  Payloads <- MCPayloads
  Key <- MCKey
  Threads <- MCThreads
  Thread <- MCThread
  Workers <- MCWorkers
  Questions <- MCQuestions
  Stores <- MCStores
  MaxAttempts = 2
  MaxFaults = 1
INVARIANTS TypeOK StoredOnce ReadyIsComplete
PROPERTIES KeepsPromise EntriesAreInOrder ReadinessSettles
CHECK_DEADLOCK FALSE
