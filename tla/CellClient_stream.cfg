SPECIFICATION FairSpec
CONSTANTS
  Kinds <- MCKinds
  Length <- MCLength
  Header = 2
  RecvSize = 4
  SendSize = 5
  Window = 3
  HeartDead = 2
  SendTime = 1
  Ticks = {0, 1}
  MaxAsked = 3
INVARIANTS
  TypeOK
  RequestStream
  ReplyStream
PROPERTIES
  ImplementsFifo
  NothingLostAtHangUp
  RepliesLeave
CHECK_DEADLOCK FALSE
