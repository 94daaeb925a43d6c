SPECIFICATION Spec
CONSTANTS
  N = 1
  MaxStarts = 2
  MaxSockets = 2
  MaxEvents = 1
INVARIANTS
  ServersUsedAlive
  
  StatisticsHonest
CHECK_DEADLOCK FALSE
