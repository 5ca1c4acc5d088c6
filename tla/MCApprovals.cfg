\* Approvals, operators, transfers, withdrawals from the reserves and burns.
SPECIFICATION Spec
CONSTANTS
  Users = {u1, u2}
  Team = Team
  Community = Community
  NoOne = NoOne
  MAX_SUPPLY = 5
  MINTLIST_SUPPLY = 0
  LEGENDARY_SUPPLY = 1
  ReserveDivisor = 2
  Seeds <- OneSeed
  NextSeed <- SameSeed
  Providers = {p1}
  MaxRequests = 0
  WAD = 1
  Day = 1
  mintStart = 0
  MintList = {}
  getVRGDAPrice <- FreePrice
  LEGENDARY_APE_INITIAL_START_PRICE = 1
  TopMultiple = 9
  TierBounds = {2, 4, 6}
  OwnerWaitsForAnswers = TRUE
  MaxNow = 0
  MaxPrices = {9}
  Amounts = {}
  BatchSizes = {1}
  Recipients = {u1, u2}
  Spenders = {u1, u2, NoOne}
INVARIANTS
  NoOwnerNoApproval
PROPERTIES
  BurnedForever
  ApprovalEndsWithOwnership
CHECK_DEADLOCK FALSE
