SPECIFICATION FairSpec
CONSTANTS
  ThreadCount = 2
  Share = 2
INVARIANTS
  SendsAfterAllConnected
  FaultsOnlyAtTheEnd
PROPERTIES
  BarrierOpens
\* The run ends with the process.
CHECK_DEADLOCK FALSE
