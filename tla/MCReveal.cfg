\* Rounds of reveals between sales, transfers and the burn of a legendary,
\* ordinary ids 1..4, legendary id 5, three tiers of multiples.
SPECIFICATION Spec
CONSTANTS
  Users = {u1, u2}
  Team = Team
  Community = Community
  NoOne = NoOne
  MAX_SUPPLY = 5
  MINTLIST_SUPPLY = 1
  LEGENDARY_SUPPLY = 1
  ReserveDivisor = 3
  Seeds <- SixSeeds
  NextSeed <- NextOfSix
  Providers = {p1}
  MaxRequests = 3
  WAD = 1
  Day = 1
  mintStart = 0
  MintList = {u1}
  getVRGDAPrice <- FreePrice
  LEGENDARY_APE_INITIAL_START_PRICE = 1
  TopMultiple = 4
  TierBounds = {2, 3, 4}
  OwnerWaitsForAnswers = TRUE
  MaxNow = 3
  MaxPrices = {9}
  Amounts = {}
  BatchSizes = {1, 2, 3}
  Recipients = {u2}
  Spenders = {}
INVARIANTS
  IndicesPermuted
  EmissionConserved
PROPERTIES
  RevealedForGood
  RoundNeverGrows
CHECK_DEADLOCK FALSE
