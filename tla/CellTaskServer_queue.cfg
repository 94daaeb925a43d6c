SPECIFICATION LogFairSpec
CONSTANTS
  Tasks = {t1, t2, t3, t4}
  MaxStarts = 1
  MaxPaths = 2
INVARIANTS
  CloseFlushes
  FileUsedOpen
PROPERTIES
  ImplementsQueue
  ThreadAsPromised
  EveryTaskRuns
CHECK_DEADLOCK FALSE
