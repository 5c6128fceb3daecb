SPECIFICATION FairSpec
CONSTANTS
  NClients = 2
  HdrLen = 1
  MsgLen = 2
  Batch = 1
  RecvSize = 3
  MsgBufSize = 5
  WireSize = 10
INVARIANTS
  NoOverrun
  InStep
  NoMutualBlock
PROPERTIES
  RoundsGoOn
CHECK_DEADLOCK FALSE
