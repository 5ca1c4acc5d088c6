\* Two transactions that are checked before they are sent, one timeout, and blocks
\* enough for an attempt to fall below the finality depth.
SPECIFICATION Spec
CONSTANTS
  MaxHeight = 7
  MaxForks = 0
  ReorgDepth = 0
  Txs = {t1, t2}
  NoTx = NoTx
  FinalityDepth = 2
  BumpThreshold = 1
  BumpDepth = 2
  MaxInFlight = 2
  MinConfirmations = 0
  HasChecker = TRUE
  Faults = {"timeout"}
  MaxPrice = 1
  MaxFaults = 1
  MaxGap = 2
  Slack = 0
INVARIANTS
  ErroredRunsTold
