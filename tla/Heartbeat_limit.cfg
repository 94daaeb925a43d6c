SPECIFICATION Spec
CONSTANTS
  Clients = {c1, c2}
  Keen = {c1}
  Dead = 4
  Period = 1
  MaxPass = 1
  MaxNow = 8
INVARIANTS
  KeenStays
  SilentGoes
CHECK_DEADLOCK FALSE
