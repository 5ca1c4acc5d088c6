\* The same oracle when a provider may be installed again while it owes an answer.
SPECIFICATION Spec
CONSTANTS
  Users = {u1}
  Team = Team
  Community = Community
  NoOne = NoOne
  MAX_SUPPLY = 5
  MINTLIST_SUPPLY = 1
  LEGENDARY_SUPPLY = 1
  ReserveDivisor = 3
  Seeds <- TwoSeeds
  NextSeed <- NextOfTwo
  Providers = {p1, p2}
  MaxRequests = 2
  WAD = 1
  Day = 1
  mintStart = 0
  MintList = {u1}
  getVRGDAPrice <- FreePrice
  LEGENDARY_APE_INITIAL_START_PRICE = 3
  TopMultiple = 9
  TierBounds = {2, 4, 6}
  OwnerWaitsForAnswers = FALSE
  MaxNow = 3
  MaxPrices = {9}
  Amounts = {}
  BatchSizes = {1, 2}
  Recipients = {}
  Spenders = {}
PROPERTIES
  SeedFixedDuringRound
CHECK_DEADLOCK FALSE
