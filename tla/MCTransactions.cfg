\* Two transactions, one reorganisation and one fault of any kind.
SPECIFICATION Spec
CONSTANTS
  MaxHeight = 3
  MaxForks = 1
  ReorgDepth = 1
  Txs = {t1, t2}
  NoTx = NoTx
  FinalityDepth = 3
  BumpThreshold = 1
  BumpDepth = 2
  MaxInFlight = 2
  MinConfirmations = 1
  HasChecker = FALSE
  Faults = {"lag", "lost", "floor", "eth", "timeout", "fatal", "crash"}
  MaxPrice = 2
  MaxFaults = 1
  MaxGap = 2
  Slack = 0
INVARIANTS
  TxTypeOK
  OneUnbroadcast
  NoncesUnique
  AtMostOnce
  CanBeConfirmed
PROPERTIES
  ResumesOnChain
