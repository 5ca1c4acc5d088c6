\* A task of the pipeline may fail.
SPECIFICATION Spec
CONSTANTS
  Requests = {r1}
  MaxHeight = 3
  LastRequestBlock = 2
  MaxForks = 0
  ReorgDepth = 1
  MinConfs = 1
  MaxConfs = 2
  MailboxCapacity = 1
  Lookback = 1
  PruneInterval = 2
  CountDepth = 1
  IndexLag = 1
  Word = 16
  Faults = {"run"}
  MaxCrashes = 0
  MaxReplays = 0
INVARIANTS
  ConsumedOnceSent
CHECK_DEADLOCK FALSE
