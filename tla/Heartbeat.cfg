SPECIFICATION FairSpec
CONSTANTS
  NClients = 2
  DeadTime = 4
  MaxLag = 1
  Interval = 1
  Messages = {"Heart_C2S", "Logout"}
INVARIANTS
  TypeOK
  LivelyPeersStay
  QuietPeersLeave
PROPERTIES
  HungPeersLeave
\* The run ends with the process, or when every client is gone.
CHECK_DEADLOCK FALSE
