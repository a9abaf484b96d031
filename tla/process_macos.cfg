CONSTANTS
  i1 = i1
  i2 = i2
  i3 = i3
  p1 = p1
  knotd = knotd
  other = other
  root = root
  None = None
  Platforms = {"macos"}
  FastReuse = {}
  Instances <- MCInstances
  Pids = {p1}
  Names <- MCNames
  Expected = {knotd}
  Foreign = {root}
  MaxTick = 1
  Timeouts = {0}
  U32Max = 3
  MaxAttempts = 2
  LooksActive = {i3}
SPECIFICATION Spec
INVARIANT UnrelatedIsSpared
CHECK_DEADLOCK FALSE
