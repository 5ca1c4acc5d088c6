----------------------------- MODULE ZeroWarrior -----------------------------
(***************************************************************************)
(* The warrior collection (src/src/ZeroWarrior.sol) with what it inherits  *)
(* and calls: WarriorERC721, LibZERO, the ZERO token, the reserves and the *)
(* randomness provider.  Every transaction is one action: the EVM runs it  *)
(* alone and undoes it whole when it reverts.                              *)
(***************************************************************************)
EXTENDS WarriorERC721, Zero, LibZERO, Shuffle, RandProvider, Functions

CONSTANTS
  mintStart, MintList,                \* the accounts the merkle root was built from
  getVRGDAPrice(_, _),                \* the price after a time in days, with a number sold
  LEGENDARY_APE_INITIAL_START_PRICE,  \* 69
  TopMultiple, TierBounds,            \* 9 and {3055, 5673, 7964}
  OwnerWaitsForAnswers,  \* the owner installs no provider that still owes an answer
  \* Inputs and bounds of an instance.
  MaxNow, MaxPrices, Amounts, BatchSizes, Recipients, Spenders

VARIABLES
  now,                                        \* block.timestamp
  idx, emissionMultiple,                      \* getWarriorData[id]
  userMultiple, lastBalance, lastTimestamp,   \* getUserData[account]
  hasClaimed, numMintedFromZero, currentNonLegendaryId, numMintedForReserves,
  startPrice, numSold,                        \* legendaryWarriorAuctionData
  randomSeed, nextRevealTimestamp, lastRevealedId, toBeRevealed, waitingForSeed,
  randProvider

warriorVars == <<idx, emissionMultiple>>
userVars    == <<userMultiple, lastBalance, lastTimestamp>>
supplyVars  == <<hasClaimed, numMintedFromZero, currentNonLegendaryId, numMintedForReserves>>
auctionVars == <<startPrice, numSold>>
revealVars  == <<randomSeed, nextRevealTimestamp, lastRevealedId, toBeRevealed, waitingForSeed>>
oracleVars  == <<randProvider, requestVars>>
vars == <<now, erc721Vars, zeroVars, warriorVars, userVars, supplyVars, auctionVars,
          revealVars, oracleVars>>

ASSUME ZeroWarriorAssumption ==
  /\ mintStart \in Nat /\ MaxNow \in Nat
  /\ MintList \subseteq Users /\ IsFiniteSet(MintList)
  /\ Cardinality(MintList) <= MINTLIST_SUPPLY
  /\ \A elapsed \in 0..MaxNow, sold \in 0..MAX_MINTABLE :
       getVRGDAPrice(toDaysWad(elapsed), sold) \in Nat
  /\ LEGENDARY_APE_INITIAL_START_PRICE \in Nat
  /\ TopMultiple \in Nat /\ TierBounds \subseteq Nat
  /\ IsFiniteSet(TierBounds) /\ Cardinality(TierBounds) <= TopMultiple
  /\ OwnerWaitsForAnswers \in BOOLEAN
  /\ MaxPrices \subseteq Nat /\ Amounts \subseteq Nat /\ BatchSizes \subseteq Nat
  /\ Recipients \subseteq Accounts /\ Spenders \subseteq Users \cup {NoOne}

Init ==
  /\ now = 0
  /\ ERC721Init /\ ZeroInit /\ RequestsInit
  /\ idx = [id \in Ids |-> 0]
  /\ emissionMultiple = [id \in Ids |-> 0]
  /\ userMultiple = [a \in Holders |-> 0]
  /\ lastBalance = [a \in Holders |-> 0]
  /\ lastTimestamp = [a \in Holders |-> 0]
  /\ hasClaimed = {}
  /\ numMintedFromZero = 0
  /\ currentNonLegendaryId = 0
  /\ numMintedForReserves = 0
  /\ startPrice = LEGENDARY_APE_INITIAL_START_PRICE
  /\ numSold = 0
  /\ randomSeed = 0
  /\ nextRevealTimestamp = mintStart + Day
  /\ lastRevealedId = 0
  /\ toBeRevealed = 0
  /\ waitingForSeed = FALSE
  /\ randProvider \in Providers

-------------------------------------------------------------------------------
(* Virtual balances and emission *)

zeroBalance(a) ==
  computeZEROBalance(userMultiple[a], lastBalance[a], toDaysWad(now - lastTimestamp[a]))

EmissionOf(ids) == SumFunctionOnSet(emissionMultiple, ids)

\* Every balance is brought up to date before the multiple under it changes.
snapshot(accounts) ==
  /\ lastBalance' = [a \in Holders |-> IF a \in accounts THEN zeroBalance(a) ELSE lastBalance[a]]
  /\ lastTimestamp' = [a \in Holders |-> IF a \in accounts THEN now ELSE lastTimestamp[a]]

\* A fault checked against setUserZeroBalance: the elapsed time stays.
setUserBalanceOnly(user, balance) ==
  /\ lastBalance' = [lastBalance EXCEPT ![user] = balance]
  /\ UNCHANGED <<lastTimestamp, userMultiple>>

\* updateUserZeroBalance, in its two update types.
setUserZeroBalance(user, balance) ==
  /\ lastBalance' = [lastBalance EXCEPT ![user] = balance]
  /\ lastTimestamp' = [lastTimestamp EXCEPT ![user] = now]
  /\ UNCHANGED userMultiple

increaseUserZeroBalance(user, amount) ==
  setUserZeroBalance(user, zeroBalance(user) + amount)

\* A fault checked against it: the subtraction inside an unchecked block.
decreaseUnchecked(user, amount) == setUserZeroBalance(user, zeroBalance(user) - amount)

decreaseUserZeroBalance(user, amount) ==
  /\ zeroBalance(user) >= amount
  /\ setUserZeroBalance(user, zeroBalance(user) - amount)

addZero(user, amount) ==
  /\ burnForWarrior(user, amount)
  /\ increaseUserZeroBalance(user, amount)
  /\ UNCHANGED <<now, erc721Vars, warriorVars, supplyVars, auctionVars, revealVars, oracleVars>>

removeZero(user, amount) ==
  /\ decreaseUserZeroBalance(user, amount)
  /\ mintForWarrior(user, amount)
  /\ UNCHANGED <<now, erc721Vars, warriorVars, supplyVars, auctionVars, revealVars, oracleVars>>

\* The two calls of the zeroname contract: a zeroname is paid for from the
\* virtual balance or from the tokens of its buyer.
burnZeroForZeroName(user, amount) ==
  /\ decreaseUserZeroBalance(user, amount)
  /\ UNCHANGED <<now, erc721Vars, zeroVars, warriorVars, supplyVars, auctionVars, revealVars, oracleVars>>

payForZeroName(user, amount) ==
  /\ burnForZeroName(user, amount)
  /\ UNCHANGED <<now, erc721Vars, warriorVars, userVars, supplyVars, auctionVars, revealVars, oracleVars>>

transferZero(from, to, amount) ==
  /\ transfer(from, to, amount)
  /\ UNCHANGED <<now, erc721Vars, warriorVars, userVars, supplyVars, auctionVars, revealVars, oracleVars>>

-------------------------------------------------------------------------------
(* Minting *)

claimWarrior(user) ==
  /\ now >= mintStart
  /\ user \notin hasClaimed
  /\ user \in MintList
  /\ hasClaimed' = hasClaimed \cup {user}
  /\ currentNonLegendaryId' = currentNonLegendaryId + 1
  /\ mint(user, currentNonLegendaryId + 1)
  /\ UNCHANGED <<now, approvalVars, zeroVars, warriorVars, userVars, numMintedFromZero,
                 numMintedForReserves, auctionVars, revealVars, oracleVars>>

warriorPrice == getVRGDAPrice(toDaysWad(now - mintStart), numMintedFromZero)

\* The price of a warrior past MAX_MINTABLE is the logarithm of a number that
\* is not positive, which reverts; so does a time before mintStart.
mintFromZero(user, maxPrice, useVirtualBalance) ==
  /\ now >= mintStart
  /\ numMintedFromZero < MAX_MINTABLE
  /\ warriorPrice <= maxPrice
  /\ \/ useVirtualBalance /\ decreaseUserZeroBalance(user, warriorPrice) /\ UNCHANGED zeroVars
     \/ ~useVirtualBalance /\ burnForWarrior(user, warriorPrice) /\ UNCHANGED userVars
  /\ numMintedFromZero' = numMintedFromZero + 1
  /\ currentNonLegendaryId' = currentNonLegendaryId + 1
  /\ mint(user, currentNonLegendaryId + 1)
  /\ UNCHANGED <<now, approvalVars, warriorVars, hasClaimed, numMintedForReserves,
                 auctionVars, revealVars, oracleVars>>

\* A fault checked against it: the guard looks at the count before the mint.
mintReservedCheckedBefore(numWarriorEach) ==
  LET minted == numMintedForReserves + 2 * numWarriorEach
  IN  /\ numMintedForReserves <= (numMintedFromZero + minted) \div ReserveDivisor
      /\ numMintedForReserves' = minted
      /\ batchMintEach(numWarriorEach, currentNonLegendaryId)
      /\ currentNonLegendaryId' = currentNonLegendaryId + 2 * numWarriorEach
      /\ UNCHANGED <<now, approvalVars, zeroVars, warriorVars, userVars, hasClaimed,
                     numMintedFromZero, auctionVars, revealVars, oracleVars>>

mintReservedWarrior(numWarriorEach) ==
  LET minted == numMintedForReserves + 2 * numWarriorEach
  IN  /\ minted <= (numMintedFromZero + minted) \div ReserveDivisor
      /\ numMintedForReserves' = minted
      /\ batchMintEach(numWarriorEach, currentNonLegendaryId)
      /\ currentNonLegendaryId' = currentNonLegendaryId + 2 * numWarriorEach
      /\ UNCHANGED <<now, approvalVars, zeroVars, warriorVars, userVars, hasClaimed,
                     numMintedFromZero, auctionVars, revealVars, oracleVars>>

-------------------------------------------------------------------------------
(* The legendary auction *)

\* Faults checked against the auction: the first auction opens at once; the
\* price follows the sales the wrong way.
mintedAtStartOfPrevious == numSold * LEGENDARY_AUCTION_INTERVAL

numMintedAtStart == (numSold + 1) * LEGENDARY_AUCTION_INTERVAL

LegendaryAuctionOpen ==
  /\ numSold # LEGENDARY_SUPPLY
  /\ numMintedAtStart <= numMintedFromZero

unsafeDivUp(x, y) == (x + y - 1) \div y

risingLegendaryPrice ==
  LET numMintedSinceStart == numMintedFromZero - numMintedAtStart
  IN  IF numMintedSinceStart >= LEGENDARY_AUCTION_INTERVAL
        THEN 0
        ELSE unsafeDivUp(startPrice * numMintedSinceStart, LEGENDARY_AUCTION_INTERVAL)

legendaryWarriorPrice ==
  LET numMintedSinceStart == numMintedFromZero - numMintedAtStart
  IN  IF numMintedSinceStart >= LEGENDARY_AUCTION_INTERVAL
        THEN 0
        ELSE unsafeDivUp(startPrice * (LEGENDARY_AUCTION_INTERVAL - numMintedSinceStart),
                         LEGENDARY_AUCTION_INTERVAL)

\* Faults checked against mintLegendaryWarrior: the burned ids keep their
\* approvals; the multiple of the legendary is added to what it replaces.
legendaryKeepingApprovals(user, burned) ==
  LET warriorId == FIRST_LEGENDARY_APE_ID + numSold
      cost      == legendaryWarriorPrice
  IN  /\ LegendaryAuctionOpen
      /\ burned \subseteq OwnedBy(user) \cap NonLegendaryIds
      /\ Cardinality(burned) = cost
      /\ owner' = [id \in Ids |-> IF id \in burned THEN NoOne
                                  ELSE IF id = warriorId THEN user ELSE owner[id]]
      /\ emissionMultiple' = [emissionMultiple EXCEPT ![warriorId] = 2 * EmissionOf(burned)]
      /\ snapshot({user})
      /\ userMultiple' = [userMultiple EXCEPT ![user] = @ + EmissionOf(burned)]
      /\ warriorOwned' = [warriorOwned EXCEPT ![user] = @ - cost + 1]
      /\ startPrice' = IF cost <= LEGENDARY_APE_INITIAL_START_PRICE \div 2
                         THEN LEGENDARY_APE_INITIAL_START_PRICE ELSE 2 * cost
      /\ numSold' = numSold + 1
      /\ UNCHANGED <<now, approvalVars, zeroVars, idx, supplyVars, revealVars, oracleVars>>

legendaryCreditedTwice(user, burned) ==
  LET warriorId == FIRST_LEGENDARY_APE_ID + numSold
      cost      == legendaryWarriorPrice
  IN  /\ LegendaryAuctionOpen
      /\ burned \subseteq OwnedBy(user) \cap NonLegendaryIds
      /\ Cardinality(burned) = cost
      /\ getApproved' = [id \in Ids |-> IF id \in burned THEN NoOne ELSE getApproved[id]]
      /\ owner' = [id \in Ids |-> IF id \in burned THEN NoOne
                                  ELSE IF id = warriorId THEN user ELSE owner[id]]
      /\ emissionMultiple' = [emissionMultiple EXCEPT ![warriorId] = 2 * EmissionOf(burned)]
      /\ snapshot({user})
      /\ userMultiple' = [userMultiple EXCEPT ![user] = @ + 2 * EmissionOf(burned)]
      /\ warriorOwned' = [warriorOwned EXCEPT ![user] = @ - cost + 1]
      /\ startPrice' = IF cost <= LEGENDARY_APE_INITIAL_START_PRICE \div 2
                         THEN LEGENDARY_APE_INITIAL_START_PRICE ELSE 2 * cost
      /\ numSold' = numSold + 1
      /\ UNCHANGED <<now, isApprovedForAll, zeroVars, idx, supplyVars, revealVars, oracleVars>>

\* burned holds the first cost ids of the call; the ids after them are ignored.
mintLegendaryWarrior(user, burned) ==
  LET warriorId == FIRST_LEGENDARY_APE_ID + numSold
      cost      == legendaryWarriorPrice
  IN  /\ LegendaryAuctionOpen
      /\ burned \subseteq OwnedBy(user) \cap NonLegendaryIds
      /\ Cardinality(burned) = cost
      /\ getApproved' = [id \in Ids |-> IF id \in burned THEN NoOne ELSE getApproved[id]]
      /\ owner' = [id \in Ids |-> IF id \in burned THEN NoOne
                                  ELSE IF id = warriorId THEN user ELSE owner[id]]
      /\ emissionMultiple' = [emissionMultiple EXCEPT ![warriorId] = 2 * EmissionOf(burned)]
      /\ snapshot({user})
      /\ userMultiple' = [userMultiple EXCEPT ![user] = @ + EmissionOf(burned)]
      /\ warriorOwned' = [warriorOwned EXCEPT ![user] = @ - cost + 1]
      /\ startPrice' = IF cost <= LEGENDARY_APE_INITIAL_START_PRICE \div 2
                         THEN LEGENDARY_APE_INITIAL_START_PRICE ELSE 2 * cost
      /\ numSold' = numSold + 1
      /\ UNCHANGED <<now, isApprovedForAll, zeroVars, idx, supplyVars, revealVars, oracleVars>>

-------------------------------------------------------------------------------
(* Reveals *)

\* A fault checked against requestRandomSeed: it does not wait for the end of
\* the round before.
requestDuringRound ==
  /\ now >= nextRevealTimestamp
  /\ currentNonLegendaryId # lastRevealedId
  /\ waitingForSeed' = TRUE
  /\ toBeRevealed' = currentNonLegendaryId - lastRevealedId
  /\ nextRevealTimestamp' = nextRevealTimestamp + Day
  /\ requestRandomBytes(randProvider)
  /\ UNCHANGED <<now, erc721Vars, zeroVars, warriorVars, userVars, supplyVars, auctionVars,
                 randomSeed, lastRevealedId, randProvider>>

\* The provider reverts the call when it cannot make a request.
requestRandomSeed ==
  /\ now >= nextRevealTimestamp
  /\ toBeRevealed = 0
  /\ currentNonLegendaryId # lastRevealedId
  /\ waitingForSeed' = TRUE
  /\ toBeRevealed' = currentNonLegendaryId - lastRevealedId
  /\ nextRevealTimestamp' = nextRevealTimestamp + Day
  /\ requestRandomBytes(randProvider)
  /\ UNCHANGED <<now, erc721Vars, zeroVars, warriorVars, userVars, supplyVars, auctionVars,
                 randomSeed, lastRevealedId, randProvider>>

\* Faults checked against acceptRandomSeed: anyone may call it; the wait for a
\* seed does not end.
acceptSeedOfAnyone(sender, randomness) ==
  /\ randomSeed' = randomness
  /\ waitingForSeed' = FALSE

acceptSeedAndWait(sender, randomness) ==
  /\ sender = randProvider
  /\ randomSeed' = randomness
  /\ UNCHANGED waitingForSeed

\* The id of the request is not looked at, and no seed need be awaited.
acceptRandomSeed(sender, randomness) ==
  /\ sender = randProvider
  /\ randomSeed' = randomness
  /\ waitingForSeed' = FALSE

\* The coordinator answers a request through the provider that made it; when
\* another provider is installed the callback reverts and the answer is lost.
fulfillRandomness(request, randomness) ==
  /\ request \in requests
  /\ answer(request)
  /\ \/ acceptRandomSeed(request.provider, randomness)
     \/ request.provider # randProvider /\ UNCHANGED <<randomSeed, waitingForSeed>>
  /\ UNCHANGED <<now, erc721Vars, zeroVars, warriorVars, userVars, supplyVars, auctionVars,
                 nextRevealTimestamp, lastRevealedId, toBeRevealed, randProvider>>

\* Faults checked against upgradeRandProvider: the request cannot be made again
\* before the next day; the wait for the seed of the old provider goes on.
upgradeKeepingDelay(newRandProvider) ==
  /\ OwnerWaitsForAnswers => Outstanding(newRandProvider) = {}
  /\ \/ /\ waitingForSeed
        /\ waitingForSeed' = FALSE
        /\ toBeRevealed' = 0
        /\ UNCHANGED nextRevealTimestamp
     \/ /\ ~waitingForSeed
        /\ UNCHANGED <<waitingForSeed, toBeRevealed, nextRevealTimestamp>>
  /\ randProvider' = newRandProvider
  /\ UNCHANGED <<now, erc721Vars, zeroVars, warriorVars, userVars, supplyVars, auctionVars,
                 randomSeed, lastRevealedId, requestVars>>

upgradeStillWaiting(newRandProvider) ==
  /\ OwnerWaitsForAnswers => Outstanding(newRandProvider) = {}
  /\ \/ /\ waitingForSeed
        /\ UNCHANGED waitingForSeed
        /\ toBeRevealed' = 0
        /\ nextRevealTimestamp' = nextRevealTimestamp - Day
     \/ /\ ~waitingForSeed
        /\ UNCHANGED <<waitingForSeed, toBeRevealed, nextRevealTimestamp>>
  /\ randProvider' = newRandProvider
  /\ UNCHANGED <<now, erc721Vars, zeroVars, warriorVars, userVars, supplyVars, auctionVars,
                 randomSeed, lastRevealedId, requestVars>>

upgradeRandProvider(newRandProvider) ==
  /\ OwnerWaitsForAnswers => Outstanding(newRandProvider) = {}
  /\ \/ /\ waitingForSeed
        /\ waitingForSeed' = FALSE
        /\ toBeRevealed' = 0
        /\ nextRevealTimestamp' = nextRevealTimestamp - Day
     \/ /\ ~waitingForSeed
        /\ UNCHANGED <<waitingForSeed, toBeRevealed, nextRevealTimestamp>>
  /\ randProvider' = newRandProvider
  /\ UNCHANGED <<now, erc721Vars, zeroVars, warriorVars, userVars, supplyVars, auctionVars,
                 randomSeed, lastRevealedId, requestVars>>

MultipleOf(index) == TopMultiple - Cardinality({bound \in TierBounds : index < bound})

\* The whole loop: the draws, then the multiples of the ids they fixed and the
\* accounts that own them (address(0) included, for an id burned unrevealed).
revealWarrior(numWarrior) ==
  LET drawn    == Draws([idx |-> idx, seed |-> randomSeed, last |-> lastRevealedId], numWarrior)
      revealed == (lastRevealedId + 1)..(lastRevealedId + numWarrior)
  IN  /\ ~waitingForSeed
      /\ numWarrior <= toBeRevealed
      /\ idx' = drawn.idx
      /\ randomSeed' = drawn.seed
      /\ lastRevealedId' = lastRevealedId + numWarrior
      /\ toBeRevealed' = toBeRevealed - numWarrior
      /\ emissionMultiple' = [id \in Ids |-> IF id \in revealed THEN MultipleOf(drawn.idx[id])
                                                                ELSE emissionMultiple[id]]
      /\ snapshot({owner[id] : id \in revealed})
      /\ userMultiple' = [a \in Holders |-> userMultiple[a]
                            + SumFunctionOnSet(emissionMultiple', revealed \cap OwnedBy(a))]
      /\ UNCHANGED <<now, erc721Vars, zeroVars, supplyVars, auctionVars, nextRevealTimestamp,
                     waitingForSeed, oracleVars>>

-------------------------------------------------------------------------------
(* Transfers and approvals *)

\* Faults checked against moveAll: the ids keep their approvals; the balance of
\* the recipient is not brought up to date.
moveKeepingApprovals(from, to, ids) ==
  /\ owner' = [id \in Ids |-> IF id \in ids THEN to ELSE owner[id]]
  /\ warriorOwned' = moved(warriorOwned, from, to, Cardinality(ids))
  /\ snapshot({from, to})
  /\ userMultiple' = moved(userMultiple, from, to, EmissionOf(ids))
  /\ UNCHANGED <<now, approvalVars, zeroVars, warriorVars, supplyVars, auctionVars, revealVars,
                 oracleVars>>

moveSnapshotOfSender(from, to, ids) ==
  /\ owner' = [id \in Ids |-> IF id \in ids THEN to ELSE owner[id]]
  /\ getApproved' = [id \in Ids |-> IF id \in ids THEN NoOne ELSE getApproved[id]]
  /\ warriorOwned' = moved(warriorOwned, from, to, Cardinality(ids))
  /\ snapshot({from})
  /\ userMultiple' = moved(userMultiple, from, to, EmissionOf(ids))
  /\ UNCHANGED <<now, isApprovedForAll, zeroVars, warriorVars, supplyVars, auctionVars, revealVars,
                 oracleVars>>

\* transferFrom for every id of a set, in one transaction.
moveAll(from, to, ids) ==
  /\ owner' = [id \in Ids |-> IF id \in ids THEN to ELSE owner[id]]
  /\ getApproved' = [id \in Ids |-> IF id \in ids THEN NoOne ELSE getApproved[id]]
  /\ warriorOwned' = moved(warriorOwned, from, to, Cardinality(ids))
  /\ snapshot({from, to})
  /\ userMultiple' = moved(userMultiple, from, to, EmissionOf(ids))
  /\ UNCHANGED <<now, isApprovedForAll, zeroVars, warriorVars, supplyVars, auctionVars, revealVars,
                 oracleVars>>

transferFrom(caller, to, id) ==
  /\ MayMove(caller, id)
  /\ moveAll(owner[id], to, {id})

\* WarriorReserve.withdraw: the reserve itself calls transferFrom for each id.
withdraw(reserve, to, ids) ==
  /\ ids # {}
  /\ ids \subseteq OwnedBy(reserve)
  /\ moveAll(reserve, to, ids)

approveWarrior(caller, spender, id) ==
  /\ approve(caller, spender, id)
  /\ UNCHANGED <<now, zeroVars, warriorVars, userVars, supplyVars, auctionVars, revealVars, oracleVars>>

setWarriorApprovalForAll(caller, operator, approved) ==
  /\ setApprovalForAll(caller, operator, approved)
  /\ UNCHANGED <<now, zeroVars, warriorVars, userVars, supplyVars, auctionVars, revealVars, oracleVars>>

-------------------------------------------------------------------------------
Tick ==
  /\ now < MaxNow
  /\ now' = now + 1
  /\ UNCHANGED <<erc721Vars, zeroVars, warriorVars, userVars, supplyVars, auctionVars, revealVars,
                 oracleVars>>

WarriorNext ==
  \/ Tick
  \/ \E user \in Users : claimWarrior(user)
  \/ \E user \in Users, maxPrice \in MaxPrices, useVirtualBalance \in BOOLEAN :
       mintFromZero(user, maxPrice, useVirtualBalance)
  \/ \E numWarriorEach \in BatchSizes : mintReservedWarrior(numWarriorEach)
  \/ \E user \in Users : \E burned \in SUBSET (OwnedBy(user) \cap NonLegendaryIds) :
       mintLegendaryWarrior(user, burned)
  \/ requestRandomSeed
  \/ \E request \in requests, randomness \in Seeds : fulfillRandomness(request, randomness)
  \/ \E newRandProvider \in Providers : upgradeRandProvider(newRandProvider)
  \/ \E numWarrior \in BatchSizes : revealWarrior(numWarrior)
  \/ \E caller \in Users, to \in Recipients, id \in Ids : transferFrom(caller, to, id)
  \/ \E reserve \in Reserves, to \in Recipients : \E ids \in SUBSET OwnedBy(reserve) :
       withdraw(reserve, to, ids)
  \/ \E caller \in Users, spender \in Spenders, id \in Ids : approveWarrior(caller, spender, id)
  \/ \E caller \in Users, operator \in Spenders \cap Users, approved \in BOOLEAN :
       setWarriorApprovalForAll(caller, operator, approved)
  \/ \E user \in Users, amount \in Amounts : addZero(user, amount)
  \/ \E user \in Users, amount \in Amounts : removeZero(user, amount)
  \/ \E from, to \in Users, amount \in Amounts : transferZero(from, to, amount)

\* The zeroname contract may take any amount it names.
Next ==
  \/ WarriorNext
  \/ \E user \in Users, amount \in Amounts : burnZeroForZeroName(user, amount)
  \/ \E user \in Users, amount \in Amounts : payForZeroName(user, amount)

Spec == Init /\ [][Next]_vars

-------------------------------------------------------------------------------
(* Properties *)

\* Every variable stays in the set its Solidity type and use give it.
TypeOK ==
  /\ now \in 0..MaxNow
  /\ ERC721TypeOK /\ ZeroTypeOK /\ RequestsTypeOK
  /\ idx \in [Ids -> {0} \cup NonLegendaryIds]
  /\ emissionMultiple \in [Ids -> Nat]
  /\ userMultiple \in [Holders -> Nat]
  /\ lastBalance \in [Holders -> Nat]
  /\ lastTimestamp \in [Holders -> 0..now]
  /\ hasClaimed \subseteq MintList
  /\ numMintedFromZero \in Nat /\ currentNonLegendaryId \in Nat /\ numMintedForReserves \in Nat
  /\ startPrice \in Nat /\ numSold \in Nat
  /\ randomSeed \in Seeds /\ nextRevealTimestamp \in Nat
  /\ lastRevealedId \in Nat /\ toBeRevealed \in Nat /\ waitingForSeed \in BOOLEAN
  /\ randProvider \in Providers

\* Whatever the order of claims, sales and reserve mints, each part of the
\* supply stays within its share, so no ordinary id ever reaches a legendary one.
SupplyWithinShares ==
  /\ currentNonLegendaryId = Cardinality(hasClaimed) + numMintedFromZero + numMintedForReserves
  /\ Cardinality(hasClaimed) <= MINTLIST_SUPPLY
  /\ numMintedFromZero <= MAX_MINTABLE
  /\ numMintedForReserves <= RESERVED_SUPPLY
  /\ currentNonLegendaryId < FIRST_LEGENDARY_APE_ID

Minted(id) ==
  \/ id \in 1..currentNonLegendaryId
  \/ id \in FIRST_LEGENDARY_APE_ID..(FIRST_LEGENDARY_APE_ID + numSold - 1)

\* An id that is not minted has no owner and no approval; a burned id has
\* neither, so an approval given before a burn cannot be used after it.
NoOwnerNoApproval ==
  \A id \in Ids : /\ owner[id] # NoOne => Minted(id)
                  /\ owner[id] = NoOne => getApproved[id] = NoOne

\* A burned id is never owned again: no mint, transfer or withdrawal revives it.
BurnedForever ==
  [][\A id \in Ids : Minted(id) /\ owner[id] = NoOne => owner'[id] = NoOne]_vars

\* The approval of an id ends with the ownership it was given under, in
\* transferFrom, in a withdrawal and in a legendary burn.
ApprovalEndsWithOwnership ==
  [][\A id \in Ids : owner'[id] # owner[id] => getApproved'[id] = NoOne]_vars

\* The count kept for balanceOf is the number of ids the account owns, through
\* mints, batches, transfers to oneself and legendary burns.
OwnedCounted ==
  \A a \in Accounts : warriorOwned[a] = Cardinality(OwnedBy(a))

\* The multiple an account earns with is the sum over the warriors it owns:
\* reveals, transfers and legendary burns move emission and never lose or
\* duplicate it.
EmissionConserved ==
  \A a \in Accounts : userMultiple[a] = EmissionOf(OwnedBy(a))

\* A transaction that moves, reveals or burns warriors leaves every balance
\* as it was at that moment: the balance is brought up to date before the
\* multiple under it changes, so no multiple works on time already past.
BalancesKeptByMoves ==
  [][emissionMultiple' # emissionMultiple \/ userMultiple' # userMultiple
       => \A a \in Holders : zeroBalance(a)' = zeroBalance(a)]_vars

\* All the ZERO of an account, as tokens and as virtual balance.
Wealth(a) == zeroBalance(a) + (IF a \in Users THEN balanceOf[a] ELSE 0)

\* Only time makes ZERO: at one instant no sequence of deposits, withdrawals,
\* purchases, transfers and reveals raises what all accounts hold together.
NoInstantGain ==
  [][now' = now => SumFunction([a \in Holders |-> Wealth(a)])'
                     <= SumFunction([a \in Holders |-> Wealth(a)])]_vars

\* Each legendary sold took a whole interval of sales, an open auction never
\* asks more than its start price, and the start price never falls below the
\* first one.
LegendaryAuctionSound ==
  /\ numSold <= LEGENDARY_SUPPLY
  /\ numSold * LEGENDARY_AUCTION_INTERVAL <= numMintedFromZero
  /\ startPrice >= LEGENDARY_APE_INITIAL_START_PRICE
  /\ LegendaryAuctionOpen => legendaryWarriorPrice \in 0..startPrice

\* While one auction is open its price only falls.
LegendaryPriceFalls ==
  [][LegendaryAuctionOpen /\ numSold' = numSold
       => legendaryWarriorPrice' <= legendaryWarriorPrice]_vars

\* The indices of the ordinary ids are a permutation at every moment, however
\* the reveals are batched and whatever seeds they use: no two warriors ever
\* have the same art, and none has the art of a legendary.
IndicesPermuted ==
  \A i, j \in NonLegendaryIds :
    /\ IndexOf(idx, i) \in NonLegendaryIds
    /\ IndexOf(idx, i) = IndexOf(idx, j) => i = j

\* What a reveal fixed stays: no later round, burn or transfer changes the
\* index or the multiple of a revealed id.
RevealedForGood ==
  [][\A id \in 1..lastRevealedId : /\ idx'[id] = idx[id]
                                   /\ emissionMultiple'[id] = emissionMultiple[id]]_vars

\* The reveals in one: minted in order, revealed in order, each id with an index
\* that was left, whatever the seeds, rounds and batches are.
Reveals == INSTANCE LazyReveal WITH
             Size   <- FIRST_LEGENDARY_APE_ID - 1,
             minted <- currentNonLegendaryId,
             drawn  <- [id \in 1..lastRevealedId |-> IndexOf(idx, id)]

RefinesReveal == Reveals!Spec

\* The ids a round reveals are fixed, and all minted, when its seed is
\* requested; ids minted while the round is open wait for the next one.
RoundCommitted ==
  /\ lastRevealedId + toBeRevealed <= currentNonLegendaryId
  /\ waitingForSeed => toBeRevealed > 0

RoundNeverGrows ==
  [][toBeRevealed # 0 /\ toBeRevealed' # 0
       => lastRevealedId' + toBeRevealed' = lastRevealedId + toBeRevealed]_vars

\* Replacing a provider that does not answer gives the round back whole: the
\* next request is possible at once, and reveals no id twice.
UpgradeReopensRound ==
  [][waitingForSeed /\ randProvider' # randProvider
       => /\ now >= nextRevealTimestamp' /\ toBeRevealed' = 0 /\ ~waitingForSeed'
          /\ currentNonLegendaryId > lastRevealedId']_vars

\* A seed accepted from the provider answers the request of the open round.
AnswerIsForThisRound ==
  [][\A r \in requests \ requests' :
       r.provider = randProvider => waitingForSeed /\ r.nonce = numRequests]_vars

\* Once a round has its seed, only revealing an id changes it.
SeedFixedOnceAccepted ==
  [][randomSeed' # randomSeed => waitingForSeed \/ lastRevealedId' > lastRevealedId]_vars

\* The same of an open round only: its stored seed is not changed by another
\* answer before every id of the round is revealed.
SeedFixedDuringRound ==
  [][toBeRevealed # 0 /\ ~waitingForSeed /\ randomSeed' # randomSeed
       => lastRevealedId' > lastRevealedId]_vars

-------------------------------------------------------------------------------
(* Liveness: anyone may request a seed and reveal, the oracle answers, and    *)
(* time passes.                                                               *)

FairSpec ==
  /\ Spec
  /\ WF_vars(Tick)
  /\ WF_vars(requestRandomSeed)
  /\ WF_vars(\E request \in requests, randomness \in Seeds : fulfillRandomness(request, randomness))
  /\ WF_vars(\E numWarrior \in BatchSizes \ {0} : revealWarrior(numWarrior))

\* Every warrior minted is revealed at last, though providers are replaced in
\* the middle of its round, as long as a request can be made at all.
EveryWarriorRevealed ==
  [](numRequests < MaxRequests)
  => \A id \in NonLegendaryIds : (currentNonLegendaryId >= id) ~> (lastRevealedId >= id)
==============================================================================
