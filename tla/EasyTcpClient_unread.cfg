SPECIFICATION FairSpec
CONSTANTS
  Slots = 2
  Window = 2
  Channel = 1
  MaxSends = 3
PROPERTY ReadableReceived
CHECK_DEADLOCK FALSE
