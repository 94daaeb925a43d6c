SPECIFICATION Spec
CONSTANTS
  N = 2
  Clients = {c1, c2, c3}
  Fds = {f1, f2}
  NoClient = NoClient
  NoFd = NoFd
  SelectErrors = TRUE
  HeartbeatTimeouts = TRUE
SYMMETRY Symmetry
INVARIANTS
  TypeOK
  NoDangling
  FreedOutOfLoop
  CountAgrees
  FdCacheCoherent
PROPERTIES
  NoOverwrite
  ImplementsOwnership
CHECK_DEADLOCK FALSE
