\* Workers may leave OnRun through Exit, and the owner may start again.
SPECIFICATION Spec
CONSTANTS
  MaxStarts = 2
  AllowExit = TRUE
  AllowSpurious = TRUE
INVARIANTS
  ExitNeedsNoSemaphore
CHECK_DEADLOCK FALSE
