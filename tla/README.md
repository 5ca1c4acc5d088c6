# Zero Warrior: a verification project

TLA+ modules, TLC runs and TLAPS proofs about two programs of this repository and
what lies between them:

- the **contracts** in `src/src`: a collection of 10000 ERC-721 warriors
  (`ZeroWarrior.sol` over `WarriorERC721.sol`), the token ZERO its holders earn
  (`Zero.sol`, `LibZERO.sol`), the reserves (`WarriorReserve.sol`), the source of
  randomness (`ChainlinkV1RandProvider.sol`) and a second collection bought with
  the same token (`ZeroName.sol`);
- the **oracle node** in `src/lib/chainlink` that answers their requests for
  randomness: the VRF job, the log broadcaster that brings it the requests, and
  the transaction manager that brings its answers to the chain.

## 1. The system

| Part | State | Operations | What makes it correct |
|---|---|---|---|
| Supply and minting (`ZeroWarrior.sol`) | `hasClaimedMintlistWarrior`, `numMintedFromZero`, `numMintedForReserves`, `currentNonLegendaryId` | `claimWarrior`, `mintFromZero`, `mintReservedWarrior` | three parts of one supply, minted by anyone in any order, keep to their shares and never reach the ids of the legendaries |
| Legendary auction | `startPrice`, `numSold` | `mintLegendaryWarrior`, `legendaryWarriorPrice` | an auction opens once per interval of sales, its price falls from the start price to 0, what is burned is counted exactly |
| Reveals | `randomSeed`, `nextRevealTimestamp`, `lastRevealedId`, `toBeRevealed`, `waitingForSeed`, `idx` and `emissionMultiple` of each id | `requestRandomSeed`, `acceptRandomSeed`, `revealWarrior`, `upgradeRandProvider` | the art of the ids is a permutation however reveals are batched; what a round reveals is fixed before its seed exists and its seed is not replaced |
| Randomness (`utils/rand`, VRF coordinator) | requests not answered | `requestRandomBytes`, `fulfillRandomness` | answers come late, out of order, twice-requested or never |
| Ownership (`WarriorERC721.sol`) | owner and approval of an id, owned count and operators of an account | `approve`, `setApprovalForAll`, `transferFrom`, `_mint`, `_batchMint` | counts agree with owners, burned ids stay burned, approvals end with ownership |
| Emission (`ZeroWarrior.sol`, `LibZERO.sol`) | `emissionMultiple`, `lastBalance`, `lastTimestamp` of an account | `zeroBalance`, `addZero`, `removeZero`, `burnZeroForZeroName`, and a snapshot in every operation that moves a multiple | the multiple of an account is the sum over its warriors, and only time makes ZERO |
| ZERO token (`Zero.sol`) | balances, total supply | mint, burn for the two collections, transfer | spent once |
| Reserves (`WarriorReserve.sol`) | none | `withdraw` | one transfer per id, all or none |
| ZeroName (`ZeroName.sol`, `ZeroNameERC721.sol`) | `currentId`, `numMintedForCommunity`, owners | `mintFromZero`, `mintCommunityZeroName`, transfers | a community share of a tenth; paid from tokens or virtual balance |
| Warriors that hold NFTs (`warrior`) | copies per warrior and token | `warrior` | the owner gives, the token moves |
| VRF coordinator and chain (`VRFCoordinator.sol`, v0.6) | requests not fulfilled, logs, blocks | request, fulfil, reorganisation | a request is fulfilled once on a fork |
| VRF job (`services/vrf/listener_v1.go`) | consumed logs and unfinished runs in the database; deduper, mailbox, pending requests, counts in memory | `HandleLog`, `handleLog`, `extractConfirmedLogs`, `ProcessRequest`, `runLogListener`, resumption of runs | every request on the chain is answered, none is run twice |
| Log broadcaster (`chains/evm/log`) | `log_broadcasts`, the pending block; pool, subscription, heads | subscribe, backfill, `onNewLog`, `onNewHeads`, `onReplayRequest`, errors, restarts | a log that stays on the chain is sent after every start until it is consumed |
| Transaction manager (`chains/evm/txmgr`) | `eth_txes`, `eth_tx_attempts`, `eth_receipts`, the next nonce | queue, `EthBroadcaster`, `EthConfirmer`, `EthResender`, `NonceSyncer` | no nonce is given twice, nothing is on the chain twice, every transaction ends |
| VRGDA pricing (`lib/VRGDAs`) | none | `getVRGDAPrice` | falls with time, rises with sales, ends at the limit |

The parts interact by calls within one transaction: `ZeroWarrior` calls `Zero` to mint and burn, the provider
to ask for a seed; the coordinator calls the provider and it calls
`acceptRandomSeed`; the reserves call `transferFrom`; `ZeroName` calls
`burnZeroForZeroName`. They share the id counter (three ways to mint), the
multiple and balance of an account (transfers, burns, reveals, deposits), and
the fields of the round (request, answer, reveal, upgrade).

A transaction runs alone and is undone whole when it reverts. So each external
function is one action, a revert is a guard, and concurrency is the order of
transactions by different senders, time passing between them, and the oracle,
which answers in transactions of its own. What is hard:

- the three ways to mint share one counter, with a rounded share test in one of them;
- a round of reveals spans four kinds of transaction by four parties, while mints, burns and transfers go on;
- answers may come after an upgrade, and ones to a replaced provider are swallowed;
- a balance is a formula of time, stored only now and then, so every operation that changes the multiple must first bring it up to date;
- counts and multiples are updated unchecked and incrementally; that they agree with the owners is an invariant of the whole history.

The node meets the contracts through the chain only: a `randomnessRequest` leaves a
log, the broadcaster delivers it to the job once it has its confirmations, the job
runs a pipeline whose last task queues a transaction, and the transaction manager
gets that transaction mined. Each of the three parts is a set of goroutines over a
database, and each survives a crash by what it wrote there and in which order. What
is hard in it:

- logs are delivered at least once, also after a reorganisation, a replay or a restart; one check in one goroutine keeps a request from being run twice;
- a request lives in five places in turn (mailbox, pending list, batch, retries, database), and must not fall between two of them;
- the broadcaster's database holds block numbers in place of logs, and which block is right changes with every head;
- the select of the broadcaster takes logs, heads, replays and errors in any order;
- a nonce is given out before the transaction is sent and counted after, with a crash, a timeout or a node that lags possible in between;
- the broadcaster, the confirmer and the resender work on the same rows, and every answer of the node may be missing or wrong.

`PROJECT.json` lists each of these with its line under `hazards`.

## 2. The modules

| Module | Models |
|---|---|
| `Addresses` | accounts, the two reserves, `address(0)` (`NoOne`) |
| `Supply` | the supply constants and the ranges of ids they cut |
| `Zero` | the token: balances and total supply |
| `LibZERO` | the issuance formula with the rounding of its fixed-point helpers |
| `Shuffle` | the loop of `revealWarrior` as a pure algorithm: `Draw` is one iteration, `Draws` n of them |
| `LazyReveal` | the abstract specification of the reveals: ids minted in order and revealed in order, each with an index that is left |
| `WarriorERC721` | owners, counts, approvals |
| `RandProvider` | requests and answers; a request is a record of its provider and its number |
| `ZeroWarrior` | composes all of them: one action per external function, the properties, the fair specification |
| `MCZeroWarrior` | values of the operator constants for TLC; the `.cfg` files give the rest |
| `ZeroNameERC721`, `ZeroName` | the second collection: owners and approvals with the exception for the warrior contract; sales and the community share |
| `ZeroSystem`, `MCZeroSystem` | `ZeroWarrior` and `ZeroName` over one token: a purchase and `warrior()` as transactions over all contracts; the refinements |
| `Chain` | blocks, logs, reorganisations, as the node sees them |
| `VRFCoordinator` | requests and fulfilments on that chain |
| `VRFListener` | the VRF job with its deduper and mailbox, on the coordinator |
| `LogDelivery` | the abstract specification of the log broadcaster: only logs of the chain are delivered, and those due are |
| `LogBroadcaster` | the broadcaster in detail, shown to implement `LogDelivery` |
| `TxManager` | the transaction manager of one key, with the network it sends to |
| `NumberTheorems` | sums over finite sets (`SumFunctionOnSet`) and least counterexamples: the lemmas the other proofs need |
| `ZeroWarriorProofs`, `EmissionProofs` | theorems of `ZeroWarrior` and of its pure algorithms |
| `ZeroNameProofs`, `SystemProofs` | theorems of `ZeroName` and of the composition |
| `VRFListenerProofs`, `LogBroadcasterProofs`, `TxManagerProofs` | theorems of the node |

`VRFListener` assumes of the broadcaster what `LogDelivery` promises (its fairness of `HandleLog` is
that of `Deliver`, and like it `HandleLog` may deliver any log that ever was on the chain); `EveryRequestServed` ends
where a fulfilment is queued, which is where `EveryTxEnds` begins.

### The contracts

State corresponds field by field: a mapping is a function (`getWarriorData[id].owner` is `owner[id]`,
`getUserData[a].emissionMultiple` is `userMultiple[a]`), `hasClaimedMintlistWarrior` and `isApprovedForAll` are
sets, `block.timestamp` is `now`, advanced by `Tick`. A few points where the correspondence is less direct:

- `mintLegendaryWarrior(user, burned)`: `burned` is the set of the first `cost` ids of the array. A repeated id reverts in the code (its owner is `address(0)` by then), so the first `cost` ids are a set; ids after them are ignored.
- `revealWarrior(n)` is the whole loop. The owners' snapshots all happen at one timestamp, and a second snapshot at the same timestamp changes nothing (theorem `BalanceNeverFalls`, last conjunct), so the model snapshots each owner once.
- `moveAll` is `transferFrom` for a set of ids; `withdraw` is that of the reserve, `transferFrom` that of one id.
- `fulfillRandomness` is the coordinator's callback: it forgets the request first, and swallows the revert of a provider that is not installed.
- `mintFromZero` has the guard `numMintedFromZero < MAX_MINTABLE`: past it the pricing takes the logarithm of a number that is not positive, which reverts.
- Where the code takes from one account and adds to another (`ERC20.transfer`, `transferFrom`, `_batchMint`), the two may be the same account. The update is then written as one function of the accounts (`moved`), in which both parts apply: an `EXCEPT` with two possibly equal indices would also be right in TLA+, but `tlapm` 1.4.5 encodes it as if the first entry survived, and a proof over it would mean nothing.
- `transferZero` and `payForZeroName` are what the rest of the world does to the token: transfers, and payments for zeronames. In `ZeroSystem` the payment is part of the purchase (`buyZeroName`), and `RefinesZeroWarrior` shows that `ZeroWarrior` allowed for it.
- `warrior(user, warriorId, nft)` counts before it transfers, in one transaction. For a zeroname the transfer is that of `ZeroName`; of a foreign contract nothing is known, so its token may be given any number of times.

### The node

A goroutine is a set of actions with a program counter (`step`, `bStep`, `stage`); a step ends where another goroutine,
the chain or a crash can come in between, that is at a database transaction, a call to the node of the chain or a channel. A
database transaction is one step. Only the variables named as the database survive `Restart` and `Crash`.

- A log is the record of its kind, request, block and fork: mined again on another fork it is another log, as with the hash of its block.
- `VRFListener`: `HandleLog` is the call of the broadcaster with the deduper in front of the mailbox; `checkConsumed`, `checkFulfilled`, `startRun`, `finishRun` are the four points at which `ProcessRequest` can be interrupted; `keepForRetry` is the append at the end of `handleReceivedHead` with the pruning of the counts. `ResumeRun` is the runner's `scheduleUnfinishedRuns`. `runs` is a history variable. Block numbers are taken modulo `Word` where the code computes with unsigned ones. The loop of `extractConfirmedLogs` keeps the order of the list in both parts: each is the list at some places, in their order (`Places`, `InOrder`, `reqsAt`).
- `LogBroadcaster`: `startResubscribeLoop` to `backfillLogs` are the start and each new subscription, `onNewLog`, `onNewHeads`, `sendLog`, `deleteOlderLogs` the event loop. `fetched` and `newLogs` tell the logs of a backfill, which are in memory, from those still on their way, which a lost connection loses. `since` is a history variable for the bound on outages. The node sends the logs of one answer in the order of their blocks (`InOrder`).
- `TxManager`: the three loops of broadcaster, confirmer and resender, the start with the nonce syncer (`Restart`), and a network in which a transaction is in the pool, on the chain, outbid or lost. `sendTransaction` gives the answers the code tells apart. A price is a number up to `MaxPrice`, and an attempt the record of its hash, state and `broadcast_before_block_num`.
- `Highest` takes some attempt of the highest price where the code takes the first in the order of a query; `OneIsUnbroadcast` rests on there being one (`SingleInv`).

Definitions whose comment calls them a fault stand next to the ones they alter, for the
runs to catch; none is reachable from `Next`.

### Bounds

`MaxNow`, `MaxRequests`, `MaxNames`, `MaxCopies` bound time, requests and names; `MaxHeight`, `MaxForks`,
`ReorgDepth`, `LastRequestBlock`, `LastLogBlock` the chain; `MaxCrashes`, `MaxReplays`, `MaxErrors`, `MaxFaults` what goes
wrong. `MaxPrices`, `Amounts`, `BatchSizes`, `Recipients`, `Spenders`, `NameBatches`, `NameSpenders` are the
inputs enumerated. `Faults` says what may go wrong at all. The rest are
parameters of the code, at values small enough for their limits to be reached.

Assumptions on behaviour, each a named guard:

- `OwnerWaitsForAnswers`: the owner installs no provider that still has an answer due. It is a constant, so that both cases are checked.
- `KeepsUp` in `LogBroadcaster`: a log is sent, and an outage is over, within `BlockBackfillDepth`. This is what that setting is for; with `LongStops` a stopped node is exempt.
- `KnowsWhatHeIsDoing` in `LogBroadcaster`: a replay starts no later than the first log that is still to be sent. `onReplayRequest` drops the pool and does not look; its comment leaves this to the operator (broadcaster.go:474-476). Without it TLC finds a replay from a later block after which a log of the pool is never sent.
- `KeepsUp` in `TxManager`: a receipt is fetched before the confirmer's depth has passed it. `RoomFor` keeps blocks free so that the bound on the chain stops no transaction.

## 3. What is checked

| Run | Instance | Shows |
|---|---|---|
| `MCSupply` | 14 ids (2 claims, 8 sales, 2 reserves, 2 legendaries), two accounts, to the end of the supply | `SupplyWithinShares`, `OwnedCounted`, `LegendaryAuctionSound`, `LegendaryPriceFalls` over every order of mints and burns |
| `MCReveal` | 4 ordinary ids and a legendary, three requests, batches of 1 to 3, 6 seeds, three tiers | `IndicesPermuted`, `RevealedForGood`, `RoundNeverGrows`, `EmissionConserved` |
| `MCBalances` | 4 ids, 4 days, a price that moves, deposits and withdrawals of 2 | `TypeOK`, `BalancesKeptByMoves`, `NoInstantGain` |
| `MCApprovals` | 5 ids, two accounts approving each other and nobody, both reserves | `NoOwnerNoApproval`, `BurnedForever`, `ApprovalEndsWithOwnership` |
| `MCOracle` | `FairSpec`, three providers, four requests, 4 days | `RoundCommitted`, `AnswerIsForThisRound`, `SeedFixedOnceAccepted`, `UpgradeReopensRound`, `EveryWarriorRevealed` |
| `MCReinstalled` | two providers, an owner that does not wait | expected to fail: `SeedFixedDuringRound`, see section 6 |
| `MCSystem` | 2 warriors, 4 names in batches of 1 and 2, two buyers, a foreign token, 2 days, a price that moves with sales and time | `HeldOnce`, `NamesArePaid`, `NamesCounted`, `CommunityShareKept`, `GivenForGood`; the composition implements its parts: `RefinesZeroWarrior`, `RefinesZeroName` |
| `MCServed` | one request, 3 blocks, one reorganisation, one restart, one replay, calls without an answer | `EveryRequestServed`, `ResendIsARetry`, `RunsOnce`, `TypeOK` |
| `MCDelivery` | 4 blocks, one reorganisation, one crash with a stop of any length, one lost connection or change of addresses or replay | the broadcaster implements `LogDelivery` with its fairness (`RefinesDelivery`); `BroadcasterTypeOK`, `HeapCoversPool` |
| `MCLost` | two logs, one crash, a sound connection | expected to fail: `CrashSafe`, see section 6 |
| `MCTransactions` | two transactions, two prices, one reorganisation, one fault of seven kinds | `NoncesUnique`, `AtMostOnce`, `CanBeConfirmed`, `OneUnbroadcast`, `ResumesOnChain`, `TxTypeOK`, and no deadlock |
| `MCEnds` | `FairSpec`, one transaction that is checked before it is sent, one reorganisation, one fault of four kinds | `EveryTxEnds` |

Why the bounds are enough to be interesting. `MCSupply` runs to the last id of every share,
past the start of the second auction with the first still unsold, where its price is 0.
`MCReveal` has rounds of 1, 2 and 3 ids, rounds cut into batches, mints and burns inside rounds,
draws that hit revealed-later ids twice, and a burned unrevealed id. `MCBalances` has multiples
and balances large enough for both terms of the formula to be positive, and enough
time for four snapshots. `MCOracle` lets an upgrade fall between each pair
of steps of a round, twice. `MCSystem` sells names before and after the price
falls, in tokens and in virtual balance, and reaches the community's limit. `MCServed` lets the request be taken back and mined
again on another fork with each of the job's steps before or after, and its counts reach the
ceiling of confirmations. `MCDelivery` has a chain longer than `FinalityDepth`, `Confs` and `BackfillDepth`
together, so logs become old, and a head can be handled between any two logs; its reorganisations
are of one block, because after a longer one the liveness of `RefinesDelivery` fails with a lost connection (section 6, `MCPassedOver`), while its
safety is proved for any. `MCTransactions`
reaches the ceiling of the price and a receipt of a block that was taken back; it also passes with two
faults at once (10.6 million states), and the run keeps one for its time. One
fault is enough for the liveness runs because each fault is followed by all of the recovery it needs. The proofs
of section 4 take over where the bounds end.

Deadlock is checked in `MCTransactions` and `MCEnds`, where a head can always be announced. In the others it
is off: when `now` is `MaxNow`, all ids are minted and revealed and the input
sets are small or empty, or when the chain is at its bound, the modelled system has nothing left to do.

Fairness. `ZeroWarrior!FairSpec`: time passes; `requestRandomSeed` and `revealWarrior` are open to anyone and
`EveryWarriorRevealed` is about a collection somebody cares for; the oracle
answers. Weak fairness is enough for each: a request stays enabled from the
day it is possible until it is made, a reveal as long as the round is open, and
a due answer until it is given. No fairness is assumed of buyers, of the owner or of withdrawals. Upgrades
without bound could starve a round and are part of no fair action: each that takes a round back costs another request, and
`EveryWarriorRevealed` is about behaviours that do not use up the requests of the
instance (`[](numRequests < MaxRequests)`), so about an owner that upgrades finitely often.

`VRFListener!FairSpec`: blocks are mined and announced, the two goroutines and the runner run, and the
broadcaster delivers a log again as long as it is on the chain and not consumed, which is what
`LogDelivery` promises. Nothing is assumed of reorganisations, replays or crashes. `EveryRequestServed` is
checked for a database that works and tasks that succeed; what happens otherwise is in section 6.

`LogBroadcaster!FairSpec`: the chain grows, heads are announced, and the goroutine goes on. The
select of its loop picks at random among the channels that are ready; strong fairness of `onNewLog` and
`onNewHeads` is that neither is passed over for ever.

`TxManager!FairSpec`: the miner, the broadcaster's and the confirmer's loops, new heads and the resender's
timer go on. Faults, crashes and reorganisations are bounded and never required. The miner owes
a block, not a transaction: that what the pool holds is mined follows because empty blocks run out (`RoomFor`), which
stands for a price that is high enough at last.

Each property has a fault of the code (`mutants`) that the run must find.

## 4. What is proved

TLAPS checks, for all values of the constants that satisfy the named assumptions:

| Theorem | Property |
|---|---|
| `SupplySafe` | `SupplyWithinShares` |
| `RoundsCommitted`, `RoundsNeverGrow`, `UpgradesReopenRounds` | `RoundCommitted`, `RoundNeverGrows`, `UpgradeReopensRound` |
| `AnswersAreForThisRound`, `SeedsFixedOnceAccepted` | `AnswerIsForThisRound`, `SeedFixedOnceAccepted`, both assuming `OwnerWaitsForAnswers` |
| `LegendaryAuctionsSound`, `LegendaryPricesFall` | `LegendaryAuctionSound`, `LegendaryPriceFalls` |
| `NoApprovalsWithoutOwner`, `BurnsLast`, `ApprovalsEndWithOwnership` | `NoOwnerNoApproval`, `BurnedForever`, `ApprovalEndsWithOwnership` |
| `IndicesArePermuted`, `RevealsLast` | `IndicesPermuted`, `RevealedForGood` |
| `EmissionIsConserved`, `OwnedAreCounted` | `EmissionConserved`, `OwnedCounted` |
| `TypesKept` | `TypeOK` |
| `BalancesAreKeptByMoves`, `NothingIsGainedAtOnce` | `BalancesKeptByMoves`, `NoInstantGain` |
| `NamesAreCounted`, `ShareIsKept`, `NamesAreGivenForGood` | `NamesCounted`, `CommunityShareKept`, `GivenForGood` of the collection alone |
| `WarriorsAreRefined`, `NamesAreRefined` | `RefinesZeroWarrior`, `RefinesZeroName`: the composition implements its parts |
| `SystemCountsNames`, `SystemKeepsShare`, `SystemGivesForGood` | the same three of the composition |
| `GivenNamesAreHeldOnce`, `NamesArePaidFor` | `HeldOnce`, `NamesArePaid` |
| `RequestsRunOnce`, `TypesOfListener` | `RunsOnce`, `TypeOK` of the VRF job |
| `ResentAsARetry` | `ResendIsARetry`, assuming that no query of the database fails and that the mailbox never fills up (`Room`) |
| `TypesOfBroadcaster`, `PoolCovered` | `BroadcasterTypeOK`, `HeapCoversPool` |
| `ImplementsDelivery` | the safety half of `RefinesDelivery`: `LogBroadcaster!Spec` implements `LogDelivery!Spec` |
| `NoncesAreUnique`, `OnChainAtMostOnce`, `OneIsUnbroadcast` | `NoncesUnique`, `AtMostOnce`, `OneUnbroadcast` of the transaction manager |
| `AllCanBeConfirmed` | `CanBeConfirmed`, assuming no transmit check (`~HasChecker`) |
| `TypesOfTransactions`, `ToldOfTheChain` | `TxTypeOK`, `ResumesOnChain` |
| `DrawsPermute` | any number of draws permutes the indices and leaves revealed ids alone |
| `RevealIsRefined` | `RefinesReveal`: `ZeroWarrior` implements `LazyReveal` |
| `BalanceNeverFalls` | the formula never lowers a balance and is the identity at no time |
| `SnapshotsEarnNoMore`, `SnapshotsCostLittle` | a balance brought up to date between two times is the one brought up to date once, up to rounding |

The argument:

- **Supply.** `MintInv` strengthens `SupplyWithinShares`: reserves times the divisor are at most sales plus reserves, which the guard gives and later sales keep. At the end, sales at most `MAX_MINTABLE` and the remainder condition of `SupplyAssumption` bound the reserves by their share.
- **Rounds.** `RoundInv` adds to `RoundCommitted` that while a seed is awaited the clock of the round was set at least a day in the past of the next, so that an upgrade can take the day back. `OracleInv` says that the installed provider owes at most the last answer, and only while the seed is awaited; it is inductive only when the owner waits.
- **Auction.** `AuctionInv` is the count of intervals; the price bounds follow from monotone division, rounded up.
- **Ownership.** `OwnerInv` is `NoOwnerNoApproval` and the types; with `MintInv` it gives that the next id of any mint was never minted, so minting revives no burned id.
- **Shuffle.** Induction over the number of draws, each swapping the indices of two ids not revealed before. With the rounds (`RoundInv`) and the supply (`MintInv`) every call of `revealWarrior` is such a run of draws within the ordinary ids, so `IndexInv` is kept.
- **Reveal.** In `RefinesReveal` the indices drawn are those of the ids up to `lastRevealedId`. The shuffle touches no index of an id revealed before, `IndexInv` makes the new ones distinct from the old, and `RoundInv` says that what is revealed was minted. TLC finds it true of `MCReveal`'s instance too; what `IndicesPermuted`, `RevealedForGood` and `RoundCommitted` say apart it says in one.
- **Issuance.** Exact, the balance after a time is the square of a root that grows linearly, so that two times in a row are their sum. `Issuance` bounds what the three roundings of the formula lose, `RootAbove` and `RootBelow` what rounding the root does, and `SnapshotInBetween` adds them up: at most a quarter of the multiple and 7/4 units of 1e-18 ZERO gained, half a unit more for each day, and about half a billionth of ZERO lost per day and multiple. `testSnapshotDoesNotAffectBalance` (`src/test/ZeroWarrior.t.sol:892`) tests one such point.
- **Emission.** An id that is neither revealed nor a legendary sold has multiple 0 (`EmissionInv`). So a mint, or the burn of an unrevealed id, moves nothing, and a reveal adds to each owner exactly what its ids got. `CountInv` is the same for counts, with ids in place of multiples; it needs from `MintInv` that minted ids are fresh.
- **Balances.** `AllInv` joins the invariants above with the times of the snapshots (past), the balances (naturals) and the total supply (the sum of the balances). Each step that changes a multiple snapshots the accounts concerned, and a snapshot keeps the balance by `BalanceNeverFalls`. For `NoInstantGain` each action changes the wealth of one account, or trades between two, and `SumUpdate` and `SumTrade` carry that to the sum.
- **Names.** `NamesInv` joins the types, that the ids up to `currentId` are those with an owner, the counts, the share and `GivenUnapproved`: a name the warrior contract owns has no approval, and the contract has no operator. Only with the last is `GivenForGood` kept by each step.
- **Composition.** A step of the system is, for each of the two contracts, a step of its own or none; the guards that the other contract contributes (a price is an amount the warrior contract can be asked for) come from `NamesInv`. Both refinements then carry every theorem over: `HeldInv` adds the counts per warrior, and `PaidByOne` reduces a sale to the sum over accounts.
- **VRF job.** `RunInv`: what was run is consumed, and while the head goroutine is between its check and its transaction, the request is not consumed. No other goroutine consumes a request, only fulfilments. No assumption on deliveries, faults or forks is made.
- **Requests in hand.** `ListenerInv` adds the types: the lists hold requests that were mined with the block each is confirmed at, and the one in hand is the first of the batch. For `ResendIsARetry` each step that takes a log out of one of its places (mailbox, pending list, batch, retries) puts it in the next, consumes it, or empties the deduper. `extractConfirmedLogs` loses none because every place of the list is in one of its two parts (`OrderExists`). Two hypotheses are needed: a failing query drops the request (`MCResend`), and a full mailbox drops its oldest log, which the deduper remembers. The code gives the mailbox 100000 places (`mailbox.go:24`).
- **Broadcaster.** `BroadcasterInv`: every log in the stream, in the backfill and in the pool was mined, the heap covers the pool, what is to be sent is in the pool, and nothing is to be sent outside `send`. Of it come the types, and each step is one of `LogDelivery` or none: what is sent was mined, what is consumed was sent since the start.
- **Nonces.** `FlowInv` is the flow of states: one transaction is in progress, it is the broadcaster's, and what the confirmer works on was sent. `NonceInv`: sent transactions have nonces below the next one, the one in progress at most the next. A crash leaves a gap that the nonce syncer closes by one.
- **The chain.** `AttemptInv` and `HashInv`: whatever is known of a transaction (its attempts, the pool, the chain) has one nonce and was not given back to the queue. `ChainInv`: the nth transaction of the chain has nonce n. So two entries of one transaction would have one nonce, hence one place.
- **Confirmable.** `OwnInv`: an attempt in progress is all that was sent of its transaction, and after a refusal nothing was. `UsedInv`: a nonce known of a transaction is of no other that is under way. It is here that a check before sending breaks the argument, and the assumption `~HasChecker` is needed: section 6 shows the reuse.
- **One attempt.** `SingleInv`: no two attempts of a transaction have the same price, and one that is not broadcast has the highest.
- **Told of the chain.** `RowInv`: the types, with the next nonce at most the number of transactions given one. `SentInv`: the attempt of such a receipt is broadcast, where the query that looks for lost receipts finds it, and no price of a confirmed transaction is raised. `RoundInv`: from the check of the confirmed transactions (`ensure`) to the end of the round, such a receipt is in the chain of the head being handled, or its transaction is still to be put back. `DepthInv`: how far a receipt can be below the head while it may still be lost; with `MaxGap` heads skipped and `MaxForks` reorganisations of `ReorgDepth` blocks it stays within `FinalityDepth`, which `TxManagerAssumption` says and the setting promises. The property speaks of the only receipt of a confirmed transaction; without that the job may be told of a block taken back (`MCToldEarly`, `ToldOnChain`).

Induction over numbers and sums over sets are done by least counterexample
(`NatSetInduction` in `NumberTheorems`).

Assumptions, each named in the module that declares its constants and evaluated by every run: `SupplyAssumption`
(the numbers cut the ids sensibly; the remainder of the general supply by the divisor is not
the largest one, which 7990 = 5 x 1598 satisfies), `AddressesAssumption`, `SeedAssumption`, `LibZEROAssumption`,
`ProvidersAssumption`, `ZeroWarriorAssumption`, `SystemAssumption` (with `ZeroNameAssumption`, which `SystemAssumption` states of the instance), `ChainAssumption`, `CoordinatorAssumption`, `ListenerAssumption`, `BroadcasterAssumption`, `TxManagerAssumption`.

Only model-checked: the liveness properties `EveryWarriorRevealed`, `EveryRequestServed` and `EveryTxEnds`, and of
`RefinesDelivery` the fairness, because liveness is out of the prover's reach. Every other property of the passing runs
is a theorem.

## 5. What is not modelled

Of the contracts:

- VRGDA prices (exponentials and logarithms in fixed point): any natural price as a function of time and sales.
- The merkle proof: membership in the list.
- `tokenURI`, getters, events, `safeTransferFrom`'s callback, ERC-20 allowances and `permit`, `ZeroNameERC721._burn`, which is never called.
- 32, 56, 64 and 128-bit widths: the reachable values are far below them (multiples at most 9 per id and doubled, counts at most 10000).
- Vendored code beyond what the contracts call, tests, deployment.

Of the node:

- VRF job: metrics, malformed logs, a graceful `Close` (a crash that loses nothing more).
- Log broadcaster: several jobs with different confirmations, jobs with none, filters on topics, the registration of jobs, failing queries, a backfill that gives up.
- Transaction manager: several keys, the reaper of old rows, forced rebroadcasts, forwarders, layer-2 fees, `Reset`, and the query of the mined nonce that saves requests for receipts. `sendTransaction` leaves out fee caps.
- The parser, scheduler and other tasks of pipelines, the head tracker, the gas estimators, the log poller: each is seen by the models above only through what it gives them (a run, a head, a price).
- The v2 VRF job, the blockhash store, keepers, off-chain reporting, flux monitor, keys, web interface, command line and generated wrappers. `src/lib/chainlink` is a node for many products; the contracts here use one of them. The rest is not part of this system, and makes up most of the lines of the tree: the models cover the path of one request from contract to contract, and so a small share of those lines.

## 6. Findings

Two are runs that are expected to fail.

- **A second seed** (`MCReinstalled`). `acceptRandomSeed` (`ZeroWarrior.sol:307`) checks the sender only. If provider A is replaced while its
answer is due and installed again before that answer comes, the answer replaces the seed of the round then open, also one
partly revealed. `VRFConsumerBase.sol:76` asks that behaviour which depends on
a stored answer not be affected by a later one. With an owner that waits, `SeedsFixedOnceAccepted` proves it cannot happen.
- **A log lost by two restarts** (`MCLost`). `Reinitialize` (`chains/evm/log/orm.go:189`) moves the lowest unconsumed block to
`log_broadcasts_pending` and removes the rows; the first head handled before the backfilled logs are read finds an
empty pool and sets the pending block to null. A second crash at that point starts from a block above the log. The comment there says that the pending block covers the range.

More disagreements came up. Their configurations are kept beside the runs and show each in a few seconds
(`tlc -config <name>.cfg <module>`):

| Configuration, module | Property | What it shows |
|---|---|---|
| `MCUnsent`, `VRFListener` | `ConsumedOnceSent` | `listener_v1.go:414` marks the log consumed in the transaction that creates the run, before its tasks; a failed run is kept for a retry that finds its log consumed and drops it. The comment at `:64` says that logs are marked once a fulfilment was sent. |
| `MCResend`, `VRFListener` | `ResendIsARetry` | when the query for a consumed log fails, the request is dropped for the broadcaster to send it again (`:313`), and the deduper refuses it |
| `MCCounts`, `VRFListener` | `PrunesOnlyOld` | on a chain younger than 10000 blocks the unsigned difference at `:188` wraps and every count is removed at once |
| `MCPassedOver`, `LogBroadcaster` | `NonePassedOver` | a lost connection is backfilled from the lowest block of the pool (`broadcaster.go:432`, `:495`), where a block that a reorganisation of two blocks gave a log since may be lower; `docs/CONFIG.md:3716` promises the last `BlockBackfillDepth` blocks. The log is found by the next start only. |
| `MCNonceReused`, `TxManager` | `CanBeConfirmed` | a send that timed out but arrived is checked again (`eth_broadcaster.go:435`), found fulfilled and made fatal with its nonce deleted; the next transaction gets the same nonce |
| `MCOrphanReceipt`, `TxManager` | `ReceiptsOfConfirmed` | an attempt in progress of a confirmed transaction finds its nonce used and makes it `confirmed_missing_receipt` with its receipt (`eth_confirmer.go:1358`); `:1646` relies on the opposite |
| `MCToldEarly`, `TxManager` | `ToldOnChain` | what follows from it: when the block of that receipt is then taken back, the check for reorganisations passes the transaction over, as it looks at confirmed ones only; the receipt stays, and the job is told of it while the transaction is unconfirmed and not on the chain |
| `MCUntold`, `TxManager` | `ErroredRunsTold` | a transaction given up below the finality depth (`:751`) has nobody told; the comment at `:749` says its run is marked as errored |
| `MCStuck`, `TxManager` | `ReorgedIsRebroadcast` | an attempt refused for want of funds stays the highest after a cheaper one was mined; when that block is taken back, `markForRebroadcast` (`:1557`) fails at every head |

## 7. Plan

1. Several keys in `TxManager`, the reaper, and several jobs in `LogBroadcaster` with different confirmations.
2. A composition of `VRFListener` with `LogBroadcaster` in place of its assumption, and with `TxManager` in place of `fulfillRandomnessRequest`.
3. A ledger in which emission belongs to ids as an abstract specification, implemented by the incremental counts.
