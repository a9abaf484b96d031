SPECIFICATION Spec
CONSTANTS
  c1 = c1
  c2 = c2
  d1 = d1
  d2 = d2
  d3 = d3
  Clients <- MCClients
  Daemons <- MCDaemons2
  MaxRetries = 2
  GraceTimeouts = {0, 1}
  Serialized = TRUE
  Faults = {"look"}
  None = None
PROPERTY
  StaleMeansDead
CHECK_DEADLOCK FALSE
