\* Claims, sales, reserve mints and burns: ids 1..12 and the legendaries 13 and 14.
\* A free market, no reveals: the order of mints and burns is the subject.
SPECIFICATION Spec
CONSTANTS
  Users = {u1, u2}
  Team = Team
  Community = Community
  NoOne = NoOne
  MAX_SUPPLY = 14
  MINTLIST_SUPPLY = 2
  LEGENDARY_SUPPLY = 2
  ReserveDivisor = 5
  Seeds <- OneSeed
  NextSeed <- SameSeed
  Providers = {p1}
  MaxRequests = 0
  WAD = 1
  Day = 1
  mintStart = 0
  MintList = {u1, u2}
  getVRGDAPrice <- FreePrice
  LEGENDARY_APE_INITIAL_START_PRICE = 3
  TopMultiple = 9
  TierBounds = {2, 4, 6}
  OwnerWaitsForAnswers = TRUE
  MaxNow = 0
  MaxPrices = {9}
  Amounts = {}
  BatchSizes = {0, 1}
  Recipients = {}
  Spenders = {}
INVARIANTS
  SupplyWithinShares
  OwnedCounted
  LegendaryAuctionSound
PROPERTIES
  LegendaryPriceFalls
CHECK_DEADLOCK FALSE
