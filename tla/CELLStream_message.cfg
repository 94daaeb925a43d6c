SPECIFICATION Spec
CONSTANTS
  Size = 16
  Widths = {1, 2, 4}
  MaxLen = 2
  LengthLimit = 15
INVARIANTS
  WithinWritten
  ReadBack
CHECK_DEADLOCK FALSE
