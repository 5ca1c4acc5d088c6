\* One transaction that is checked before it is sent, one reorganisation and a crash,
\* a loss, a timeout or a node that lags.
SPECIFICATION FairSpec
CONSTANTS
  MaxHeight = 4
  MaxForks = 1
  ReorgDepth = 1
  Txs = {t1}
  NoTx = NoTx
  FinalityDepth = 3
  BumpThreshold = 1
  BumpDepth = 2
  MaxInFlight = 2
  MinConfirmations = 1
  HasChecker = TRUE
  Faults = {"lag", "lost", "timeout", "crash"}
  MaxPrice = 2
  MaxFaults = 1
  MaxGap = 2
  Slack = 1
PROPERTIES
  EveryTxEnds
