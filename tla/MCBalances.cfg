\* Virtual balances over time: sales at a moving price, deposits, withdrawals,
\* transfers of tokens and of warriors, reveals and a legendary burn.
SPECIFICATION Spec
CONSTANTS
  Users = {u1, u2}
  Team = Team
  Community = Community
  NoOne = NoOne
  MAX_SUPPLY = 4
  MINTLIST_SUPPLY = 1
  LEGENDARY_SUPPLY = 1
  ReserveDivisor = 4
  Seeds <- OneSeed
  NextSeed <- SameSeed
  Providers = {p1}
  MaxRequests = 2
  WAD = 1
  Day = 1
  mintStart = 0
  MintList = {u1}
  getVRGDAPrice <- MovingPrice
  LEGENDARY_APE_INITIAL_START_PRICE = 1
  TopMultiple = 4
  TierBounds = {2}
  OwnerWaitsForAnswers = TRUE
  MaxNow = 4
  MaxPrices = {9}
  Amounts = {2}
  BatchSizes = {1}
  Recipients = {u1, u2}
  Spenders = {}
INVARIANTS
  TypeOK
PROPERTIES
  BalancesKeptByMoves
  NoInstantGain
CHECK_DEADLOCK FALSE
