SPECIFICATION FairSpec
CONSTANTS
  l1 = l1
  l2 = l2
  k1 = k1
  k2 = k2
  k3 = k3
  d1 = d1
  d2 = d2
  long = long
  Listeners <- MCListeners
  Conns <- MCConns
  Dirs = {d1, d2, long}
  LongDirs = {long}
  Default = d1
  Pipe = Pipe
  Settings <- MCSettings
  BufferSize = 1
  Backlog = 2
  MaxErrors = 1
  Error = Error
  None = None
INVARIANTS
  TypeOK
  ReachesTheDaemonMeant
PROPERTIES
  ListenersKeepPromise
  ConnectionsAnswered
  DropEndsTask
CHECK_DEADLOCK FALSE
