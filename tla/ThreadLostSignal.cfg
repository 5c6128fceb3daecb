SPECIFICATION Spec
CONSTANTS
  MaxStarts = 1
  AllowExit = FALSE
  AllowSpurious = FALSE
INVARIANTS
  NoLostSignal
CHECK_DEADLOCK FALSE
