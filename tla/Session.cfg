SPECIFICATION FairSpec
CONSTANTS
  HdrLen = 2
  MsgLen <- MCMsgLen
  RecvSize = 4
  SendSize = 5
  WireSize = 3
  MaxRequests = 3
INVARIANTS
  TypeOK
  RequestsIntact
  RepliesIntact
  OnlyClosedPeersLeave
PROPERTIES
  RequestsHandled
  RepliesArrive
\* The run ends when the client has left.
CHECK_DEADLOCK FALSE
