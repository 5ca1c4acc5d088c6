\* Three providers, late and lost answers, upgrades by an owner that waits for
\* the answers a provider still owes before it installs it again; and, as long
\* as a request can be made, every warrior is revealed at last.
SPECIFICATION FairSpec
CONSTANTS
  Users = {u1}
  Team = Team
  Community = Community
  NoOne = NoOne
  MAX_SUPPLY = 5
  MINTLIST_SUPPLY = 1
  LEGENDARY_SUPPLY = 1
  ReserveDivisor = 3
  Seeds <- TwoSeeds
  NextSeed <- NextOfTwo
  Providers = {p1, p2, p3}
  MaxRequests = 4
  WAD = 1
  Day = 1
  mintStart = 0
  MintList = {u1}
  getVRGDAPrice <- FreePrice
  LEGENDARY_APE_INITIAL_START_PRICE = 3
  TopMultiple = 9
  TierBounds = {2, 4, 6}
  OwnerWaitsForAnswers = TRUE
  MaxNow = 3
  MaxPrices = {9}
  Amounts = {}
  BatchSizes = {1}
  Recipients = {}
  Spenders = {}
INVARIANTS
  RoundCommitted
PROPERTIES
  AnswerIsForThisRound
  SeedFixedOnceAccepted
  UpgradeReopensRound
  EveryWarriorRevealed
CHECK_DEADLOCK FALSE
