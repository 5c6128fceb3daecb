SPECIFICATION FairSpec
CONSTANTS
  NServers = 2
  Clients = {c1, c2}
  NHandles = 2
  FdSetSize = 2
  NoClient = NoClient
  MaxLives = 2
  Events = {"leave", "select_error", "open_error", "close", "restart"}
PROPERTIES
  EveryClientWatched
  CloseCompletes
\* The run ends with Close.
CHECK_DEADLOCK FALSE
