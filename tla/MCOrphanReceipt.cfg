\* One transaction and one timeout.
SPECIFICATION Spec
CONSTANTS
  MaxHeight = 5
  MaxForks = 1
  ReorgDepth = 1
  Txs = {t1}
  NoTx = NoTx
  FinalityDepth = 3
  BumpThreshold = 1
  BumpDepth = 2
  MaxInFlight = 2
  MinConfirmations = 1
  HasChecker = FALSE
  Faults = {"timeout"}
  MaxPrice = 2
  MaxFaults = 1
  MaxGap = 2
  Slack = 1
INVARIANTS
  ReceiptsOfConfirmed
