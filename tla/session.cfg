SPECIFICATION Spec
CONSTANTS
  c1 = c1
  c2 = c2
  m1 = m1
  m2 = m2
  Clients <- MCClients
  Manifests <- MCManifests
  Commands = {"up", "down", "cancel"}
  MaxRevision = 2
  MaxStrays = 1
  Faults = {"loss", "restart", "skew"}
  None = None
SYMMETRY Symmetric
INVARIANTS
  TypeOK
  ReadyMeansInSync
  UpRunsWhatWasSeen
  CommitAppliedOnce

  
CHECK_DEADLOCK FALSE
