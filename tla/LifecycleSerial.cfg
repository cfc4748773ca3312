SPECIFICATION Spec
CONSTANTS
  m1 = m1
  s1 = s1
  s2 = s2
  k1 = k1
  k2 = k2
  k3 = k3
  c1 = c1
  c2 = c2
  decay = decay
  None = None
  Items <- MCOneItem
  Sources <- MCSources
  SourcesOf <- MCSourcesOf
  PrimaryOf <- MCPrimaryOf
  Keys <- MCThreeKeys
  DecayKey = decay
  Clients <- MCNobody
  Kinds <- MCAllKinds
  Serial = TRUE
  MaxPurges = 2
  MaxPasses = 0
INVARIANTS TypeOK ReplayIsFresh
PROPERTIES KeysArePromises RemovedOnlyRestored
CHECK_DEADLOCK FALSE
