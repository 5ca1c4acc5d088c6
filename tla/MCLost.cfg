\* A restart of the node.  Logs are sent in time, and the connection is sound.
SPECIFICATION Spec
CONSTANTS
  MaxHeight = 4
  MaxForks = 0
  ReorgDepth = 1
  Confs = 1
  FinalityDepth = 1
  BackfillDepth = 1
  LongStops = FALSE
  LastLogBlock = 2
  MaxCrashes = 1
  MaxErrors = 0
INVARIANTS
  CrashSafe
CHECK_DEADLOCK FALSE
