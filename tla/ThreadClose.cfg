\* Start, Close and restart under fair scheduling, without errors in OnRun.
SPECIFICATION FairSpec
CONSTANTS
  MaxStarts = 3
  AllowExit = FALSE
  AllowSpurious = FALSE
INVARIANTS
  TypeOK
  CloseJoins
PROPERTIES
  ImplementsJoinableThread
  OrderedSignalArrives
\* The run ends when the owner destroys the thread.
CHECK_DEADLOCK FALSE
