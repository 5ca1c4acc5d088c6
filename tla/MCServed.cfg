\* A node that is never behind by a mailbox, whose database works and whose tasks
\* succeed, through a restart, a replay, a reorganisation and unanswered calls.
SPECIFICATION FairSpec
CONSTANTS
  Requests = {r1}
  MaxHeight = 3
  LastRequestBlock = 1
  MaxForks = 1
  ReorgDepth = 1
  MinConfs = 1
  MaxConfs = 2
  MailboxCapacity = 4
  Lookback = 4
  PruneInterval = 2
  CountDepth = 1
  IndexLag = 1
  Word = 16
  Faults = {"call"}
  MaxCrashes = 1
  MaxReplays = 1
INVARIANTS
  TypeOK
  RunsOnce
  ResendIsARetry
PROPERTIES
  EveryRequestServed
CHECK_DEADLOCK FALSE
