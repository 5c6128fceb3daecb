SPECIFICATION Spec
CONSTANTS
  NServers = 2
  Clients = {c1}
  NHandles = 1
  FdSetSize = 1
  NoClient = NoClient
  MaxLives = 1
  Events = {"expire"}
INVARIANTS
  ExpiryOnlyDisconnects
CHECK_DEADLOCK FALSE
