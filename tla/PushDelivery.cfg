SPECIFICATION FairSpec
CONSTANTS
  c1 = c1
  e1 = e1
  w1 = w1
  w2 = w2
  u1 = u1
  k1 = k1
  k2 = k2
  feishu = feishu
  other = other
  None = None
  AutoApprove = auto_approve
  AutoSend = auto_send
  Candidates <- MCCandidates
  Rank <- MCRank
  Window = 1
  Events <- MCEvents
  Cites <- MCCites
  Sees <- MCAll
  SeenBy <- MCAll
  Reaches <- MCAll
  Platforms <- MCPlatforms
  Feishu = feishu
  Reachable <- MCReachable
  Workers <- MCLanes
  Users <- MCUsers
  Keys <- MCKeys
  PurgeLimit = 1
  MaxAttempts = 2
  MaxRequests = 2
  MaxFaults = 1
INVARIANTS TypeOK OncePerKey OneMessagePerApproval SentWasDelivered
PROPERTIES WithdrawnIsNotSent SendJobsSettle
CHECK_DEADLOCK FALSE
