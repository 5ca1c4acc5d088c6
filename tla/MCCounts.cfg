\* A chain younger than the depth to which fulfilments are counted.
SPECIFICATION Spec
CONSTANTS
  Requests = {r1}
  MaxHeight = 3
  LastRequestBlock = 2
  MaxForks = 0
  ReorgDepth = 1
  MinConfs = 1
  MaxConfs = 2
  MailboxCapacity = 1
  Lookback = 1
  PruneInterval = 2
  CountDepth = 4
  IndexLag = 1
  Word = 16
  Faults = {}
  MaxCrashes = 0
  MaxReplays = 0
PROPERTIES
  PrunesOnlyOld
CHECK_DEADLOCK FALSE
