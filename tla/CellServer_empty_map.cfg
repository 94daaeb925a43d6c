SPECIFICATION Spec
CONSTANTS
  N = 2
  Clients = {c1, c2}
  Fds = {f1, f2}
  NoClient = NoClient
  NoFd = NoFd
  SelectErrors = FALSE
  HeartbeatTimeouts = TRUE
INVARIANT NonEmptyAtRebuild
CHECK_DEADLOCK FALSE
