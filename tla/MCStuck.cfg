\* One transaction whose raised attempt meets an empty wallet, and one reorganisation.
SPECIFICATION FairSpec
CONSTANTS
  MaxHeight = 4
  MaxForks = 1
  ReorgDepth = 1
  Txs = {t1}
  NoTx = NoTx
  FinalityDepth = 3
  BumpThreshold = 1
  BumpDepth = 2
  MaxInFlight = 2
  MinConfirmations = 1
  HasChecker = FALSE
  Faults = {"eth"}
  MaxPrice = 2
  MaxFaults = 1
  MaxGap = 2
  Slack = 1
PROPERTIES
  ReorgedIsRebroadcast
