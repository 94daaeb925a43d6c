SPECIFICATION FairHistorySpec
CONSTANTS
  Callers = {c1, c2}
  NoCaller = NoCaller
  Workers = {w1, w2, w3}
  ExitAllowed = TRUE
  SpuriousWakeups = TRUE
INVARIANTS
  NoLostWakeup
  SingleWaiter
PROPERTIES
  LifecycleUntilFault
  CloseReturnsUntilFault
CHECK_DEADLOCK FALSE
