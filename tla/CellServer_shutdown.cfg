SPECIFICATION FairSpec
CONSTANTS
  N = 2
  Clients = {c1, c2}
  Fds = {f1, f2}
  NoClient = NoClient
  NoFd = NoFd
  SelectErrors = FALSE
  HeartbeatTimeouts = FALSE
INVARIANTS
  NoHandoffToDead
  FreedAfterDone
  ReleasedAtClose
PROPERTIES
  CloseTerminates
  QueuedJoins
  ThreadsAsPromised
CHECK_DEADLOCK FALSE
