SPECIFICATION FairSpec
\* Three clients put two on one CellServer; the first and the third send.
CONSTANTS
  NServers = 2
  Clients = {1, 2, 3}
  NoClient = NoClient
  Talkers = {1, 3}
  Faulty = {1}
  OpenFails = TRUE
INVARIANTS
  OwnedOnce
  CountExact
  SocketsOpen
PROPERTIES
  SkippedClientsServed
  NewClientsTakenOver
  CloseFreesClients
\* The run ends when main waits for a key.
CHECK_DEADLOCK FALSE
