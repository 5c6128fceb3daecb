SPECIFICATION Spec
CONSTANTS
  NServers = 2
  Clients = {c1, c2, c3}
  NHandles = 2
  FdSetSize = 2
  NoClient = NoClient
  MaxLives = 2
  Events = {"leave", "expire", "select_error", "open_error", "close", "restart"}
SYMMETRY ClientSymmetry
INVARIANTS
  TypeOK
  NoDangling
  OwnedOnce
  FdSetFresh
  CountExact
  AllReleased
\* The run ends with Close, or with the process.
CHECK_DEADLOCK FALSE
