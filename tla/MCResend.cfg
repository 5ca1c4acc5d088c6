\* A query of the database may fail, and the mailbox is never full.
SPECIFICATION Spec
CONSTANTS
  Requests = {r1}
  MaxHeight = 3
  LastRequestBlock = 2
  MaxForks = 0
  ReorgDepth = 1
  MinConfs = 1
  MaxConfs = 2
  MailboxCapacity = 4
  Lookback = 1
  PruneInterval = 2
  CountDepth = 1
  IndexLag = 1
  Word = 16
  Faults = {"db"}
  MaxCrashes = 0
  MaxReplays = 0
INVARIANTS
  ResendIsARetry
CHECK_DEADLOCK FALSE
