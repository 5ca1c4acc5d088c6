\* Warriors, ZERO and names together: names bought with tokens and with virtual
\* balance, given to warriors, and the emission that pays for them.
SPECIFICATION SystemSpec
CONSTANTS
  Users = {u1, u2}
  Team = Team
  Community = Community
  NoOne = NoOne
  MAX_SUPPLY = 2
  MINTLIST_SUPPLY = 1
  LEGENDARY_SUPPLY = 0
  ReserveDivisor = 4
  Seeds <- OneSeed
  NextSeed <- SameSeed
  Providers = {p1}
  MaxRequests = 1
  WAD = 1
  Day = 1
  mintStart = 0
  MintList = {u1}
  getVRGDAPrice <- FreePrice
  LEGENDARY_APE_INITIAL_START_PRICE = 1
  TopMultiple = 8
  TierBounds = {2}
  OwnerWaitsForAnswers = TRUE
  MaxNow = 2
  MaxPrices = {3}
  Amounts = {1, 2}
  BatchSizes = {1}
  Recipients = {u2}
  Spenders = {}
  WarriorContract = WarriorContract
  getZeroNamePrice <- NamePrice
  CommunityDivisor = 2
  OtherNFTs = {art}
  MaxNames = 4
  NameBatches = {1, 2}
  NameSpenders = {u2}
  MaxCopies = 1
INVARIANTS
  HeldOnce
  NamesCounted
  CommunityShareKept
PROPERTIES
  NamesArePaid
  GivenForGood
  RefinesZeroWarrior
  RefinesZeroName
CHECK_DEADLOCK FALSE
