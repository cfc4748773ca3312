SPECIFICATION Spec
CONSTANTS
  e1 = e1
  e2 = e2
  m1 = m1
  m2 = m2
  w1 = w1
  w2 = w2
  j1 = j1
  None = None
  Events <- MCEvents
  Items <- MCItems
  Cites <- MCCites
  AutoItems <- MCAutoItems
  Decisions <- MCDecisions
  GraphItems <- MCGraphItems
  Passes <- MCPasses
  Jobs <- MCJobs
  Stores <- MCStores
SYMMETRY MCSymmetry
INVARIANTS TypeOK CardsFollowApprovals
PROPERTIES FilterOnlyAdds
CHECK_DEADLOCK FALSE
