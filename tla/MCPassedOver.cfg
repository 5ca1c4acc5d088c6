\* Two blocks are taken back, then the connection is lost.
SPECIFICATION Spec
CONSTANTS
  MaxHeight = 4
  MaxForks = 1
  ReorgDepth = 2
  Confs = 1
  FinalityDepth = 2
  BackfillDepth = 2
  LongStops = FALSE
  LastLogBlock = 2
  MaxCrashes = 0
  MaxErrors = 1
INVARIANTS
  NonePassedOver
CHECK_DEADLOCK FALSE
