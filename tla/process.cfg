CONSTANTS
  i1 = i1
  i2 = i2
  i3 = i3
  p1 = p1
  knotd = knotd
  other = other
  root = root
  None = None
  Platforms = {"linux", "macos", "windows"}
  FastReuse = {"windows"}
  Instances <- MCInstances
  Pids = {p1}
  Names <- MCNames
  Expected = {knotd}
  Foreign = {root}
  MaxTick = 2
  Timeouts = {0, 1}
  U32Max = 3
  MaxAttempts = 2
  LooksActive = {i3}
SPECIFICATION FairSpec
INVARIANT TypeOK
INVARIANT SignalledVerified
INVARIANT SignalledIsTarget
INVARIANT NoFalseObituary
INVARIANT KillReachesTarget
PROPERTY DeadHandleNeverSignals
PROPERTY OperationReturns
CHECK_DEADLOCK FALSE
