SPECIFICATION LogSpec
\* Three messages, and three of setLogPath's own: a second call that finds the
\* file of the first reports twice.
CONSTANTS
  Tasks = {t1, t2, r1, r2, r3}
  Reports = {r1, r2, r3}
  MaxCalls = 2
INVARIANTS
  LogTypeOK
  LinesWhole
  NothingLost
PROPERTIES
  ImplementsTaskQueue
\* The run ends when Close has returned and every task was added.
CHECK_DEADLOCK FALSE
