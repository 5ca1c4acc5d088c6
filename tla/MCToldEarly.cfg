\* The attempt in progress of a confirmed transaction, and a block taken back.
SPECIFICATION Spec
CONSTANTS
  MaxHeight = 5
  MaxForks = 1
  ReorgDepth = 2
  Txs = {t1}
  NoTx = NoTx
  FinalityDepth = 4
  BumpThreshold = 1
  BumpDepth = 2
  MaxInFlight = 2
  MinConfirmations = 1
  HasChecker = FALSE
  Faults = {"lag", "lost", "timeout", "crash"}
  MaxPrice = 2
  MaxFaults = 2
  MaxGap = 2
  Slack = 2
PROPERTIES
  ToldOnChain
CHECK_DEADLOCK FALSE
