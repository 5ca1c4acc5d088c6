\* The node is stopped once, for as long as it takes, the connection is lost, the
\* addresses change or a job asks for a replay once, and a block is taken back.
SPECIFICATION FairSpec
CONSTANTS
  MaxHeight = 4
  MaxForks = 1
  ReorgDepth = 1
  Confs = 1
  FinalityDepth = 1
  BackfillDepth = 1
  LongStops = TRUE
  LastLogBlock = 1
  MaxCrashes = 1
  MaxErrors = 1
INVARIANTS
  BroadcasterTypeOK
  HeapCoversPool
PROPERTIES
  RefinesDelivery
CHECK_DEADLOCK FALSE
