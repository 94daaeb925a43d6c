SPECIFICATION FairSpec
CONSTANTS
  Slots = 3
  Window = 3
  Channel = 2
  MaxSends = 6
INVARIANTS
  SlotsWritten
  LossNeedsRace
  FaultNeedsCause
PROPERTIES
  Flushed
CHECK_DEADLOCK FALSE
