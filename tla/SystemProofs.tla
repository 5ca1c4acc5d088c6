----------------------------- MODULE SystemProofs -----------------------------
(***************************************************************************)
(* The composition for every number of warriors, names and accounts: each  *)
(* contract behaves among the others as it does alone, so what is proved   *)
(* of it alone holds here, and what only the composition can get wrong     *)
(* (what a warrior holds, what a name costs) holds too.                    *)
(***************************************************************************)
EXTENDS ZeroSystem, EmissionProofs

\* The theorems about the names, for the accounts of the system.
Proved == INSTANCE ZeroNameProofs WITH Spenders <- NameSpenders

-------------------------------------------------------------------------------
(* The two contracts among themselves *)

\* Both instances are the same collection.
LEMMA SameNames ==
  /\ Names!NamesInit <=> Proved!NamesInit
  /\ Names!Next <=> Proved!Next
  /\ Names!ZeroNameAssumption <=> Proved!ZeroNameAssumption
  /\ <<now, Names!nameVars>> = <<now, Proved!nameVars>>
  /\ Names!NameIds = Proved!NameIds
<1>1. /\ Names!ZeroNameAssumption <=> Proved!ZeroNameAssumption
      /\ Names!NamesInit <=> Proved!NamesInit
  BY DEF Names!ZeroNameAssumption, Proved!ZeroNameAssumption, Names!NamesAssumption,
         Proved!NamesAssumption, Names!toDaysWad, Proved!toDaysWad, Names!Holders, Proved!Holders,
         Names!Accounts, Proved!Accounts, Names!Reserves, Proved!Reserves,
         Names!NamesInit, Proved!NamesInit, Names!NameERC721Init, Proved!NameERC721Init,
         Names!NameIds, Proved!NameIds, Names!NameHolders, Proved!NameHolders
<1>2. Names!Next <=> Proved!Next
  BY DEF Names!Next, Proved!Next, Names!NamesAlone, Proved!NamesAlone,
         Names!mintFromZero, Proved!mintFromZero, Names!giveToWarrior, Proved!giveToWarrior,
         Names!mintCommunityZeroName, Proved!mintCommunityZeroName,
         Names!transferFrom, Proved!transferFrom, Names!approve, Proved!approve,
         Names!setApprovalForAll, Proved!setApprovalForAll,
         Names!isApprovedForAll, Proved!isApprovedForAll, Names!batchMint, Proved!batchMint,
         Names!mint, Proved!mint, Names!moved, Proved!moved, Names!Sold, Proved!Sold,
         Names!zeronamePrice, Proved!zeronamePrice, Names!toDaysWad, Proved!toDaysWad,
         Names!NameIds, Proved!NameIds, Names!NameHolders, Proved!NameHolders,
         Names!Accounts, Proved!Accounts, Names!Reserves, Proved!Reserves,
         Names!nameVars, Proved!nameVars, Names!nameERC721Vars, Proved!nameERC721Vars
<1>3. <<now, Names!nameVars>> = <<now, Proved!nameVars>> /\ Names!NameIds = Proved!NameIds
  BY DEF Names!nameVars, Proved!nameVars, Names!nameERC721Vars, Proved!nameERC721Vars,
         Names!NameIds, Proved!NameIds
<1> QED
  BY <1>1, <1>2, <1>3

\* What is assumed of the accounts, as the theorems about the names need it.
LEMMA NamesContext ==
  Users \cap Proved!Reserves = {} /\ NoOne \notin Proved!Accounts /\ Proved!IsFiniteSet(Users)
BY AddressesAssumption DEF Proved!Accounts, Accounts, Proved!Reserves, Reserves,
                           Proved!IsFiniteSet, IsFiniteSet

\* Time passes by Tick alone.
LEMMA TimePasses ==
  ASSUME WarriorNext
  PROVE  (now < MaxNow /\ now' = now + 1) \/ now' = now
<1>1. ASSUME NEW user \in Users, NEW maxPrice \in MaxPrices, NEW useVirtualBalance \in BOOLEAN,
             mintFromZero(user, maxPrice, useVirtualBalance)
      PROVE  now' = now
  BY <1>1 DEF mintFromZero
<1>2. ASSUME NEW user \in Users, NEW burned \in SUBSET (OwnedBy(user) \cap NonLegendaryIds),
             mintLegendaryWarrior(user, burned)
      PROVE  now' = now
  BY <1>2 DEF mintLegendaryWarrior
<1>3. ASSUME NEW n \in BatchSizes, revealWarrior(n) \/ mintReservedWarrior(n) PROVE now' = now
  BY <1>3 DEF revealWarrior, mintReservedWarrior
<1>4. ASSUME NEW request \in requests, NEW randomness \in Seeds, fulfillRandomness(request, randomness)
      PROVE  now' = now
  BY <1>4 DEF fulfillRandomness
<1>5. ASSUME NEW reserve \in Reserves, NEW to \in Recipients, NEW ids \in SUBSET OwnedBy(reserve),
             withdraw(reserve, to, ids)
      PROVE  now' = now
  BY <1>5 DEF withdraw, moveAll
<1>6. ASSUME NEW caller \in Users, NEW to \in Recipients, NEW id \in Ids, transferFrom(caller, to, id)
      PROVE  now' = now
  BY <1>6 DEF transferFrom, moveAll
<1>7. ASSUME \/ \E user \in Users : claimWarrior(user)
             \/ requestRandomSeed
             \/ \E newRandProvider \in Providers : upgradeRandProvider(newRandProvider)
             \/ \E caller \in Users, spender \in Spenders, id \in Ids : approveWarrior(caller, spender, id)
             \/ \E caller \in Users, operator \in Spenders \cap Users, approved \in BOOLEAN :
                  setWarriorApprovalForAll(caller, operator, approved)
             \/ \E user \in Users, amount \in Amounts : addZero(user, amount) \/ removeZero(user, amount)
             \/ \E from, to \in Users, amount \in Amounts : transferZero(from, to, amount)
      PROVE  now' = now
  BY <1>7 DEF claimWarrior, requestRandomSeed, upgradeRandProvider, approveWarrior,
              setWarriorApprovalForAll, addZero, removeZero, transferZero
<1> QED
  BY <1>1, <1>2, <1>3, <1>4, <1>5, <1>6, <1>7 DEF WarriorNext, Tick

-------------------------------------------------------------------------------
(* The names among the warriors *)

LEMMA NameStep ==
  ASSUME [SystemNext]_systemVars
  PROVE  [Names!Next]_<<now, Names!nameVars>>
<1>1. ASSUME WarriorNext, UNCHANGED nameVars PROVE [Names!Next]_<<now, Names!nameVars>>
  <2>1. UNCHANGED Names!nameVars
    BY <1>1 DEF nameVars, Names!nameVars, Names!nameERC721Vars
  <2> QED
    BY <1>1, <2>1, TimePasses DEF Names!Next
<1>2. ASSUME Names!NamesAlone, UNCHANGED vars PROVE Names!Next
  BY <1>2 DEF Names!Next, vars
<1>3. ASSUME NEW user \in Users, NEW maxPrice \in MaxPrices, NEW useVirtualBalance \in BOOLEAN,
             buyZeroName(user, maxPrice, useVirtualBalance)
      PROVE  Names!Next
  <2>1. Names!mintFromZero(user, maxPrice) /\ UNCHANGED now
    BY <1>3 DEF buyZeroName, burnZeroForZeroName, payForZeroName
  <2> QED
    BY <2>1 DEF Names!Next
<1>4. ASSUME NEW user \in Users, NEW warriorId \in Ids, NEW nft \in NFTs, warrior(user, warriorId, nft)
      PROVE  [Names!Next]_<<now, Names!nameVars>>
  <2>1. UNCHANGED now
    BY <1>4 DEF warrior, vars
  <2>2. CASE nft \in Names!NameIds /\ Names!giveToWarrior(user, nft)
    BY <2>1, <2>2 DEF Names!Next
  <2>3. CASE UNCHANGED nameVars
    BY <2>1, <2>3 DEF nameVars, Names!nameVars, Names!nameERC721Vars
  <2> QED
    BY <1>4, <2>2, <2>3 DEF warrior
<1>5. ASSUME UNCHANGED systemVars PROVE UNCHANGED <<now, Names!nameVars>>
  BY <1>5 DEF systemVars, vars, nameVars, Names!nameVars, Names!nameERC721Vars
<1> QED
  BY <1>1, <1>2, <1>3, <1>4, <1>5 DEF SystemNext

(***************************************************************************)
(* RefinesZeroName: every step of the system is for the names a step of    *)
(* their contract, or none.                                                *)
(***************************************************************************)
THEOREM NamesAreRefined == SystemSpec => RefinesZeroName
<1>1. SystemInit => Names!Init
  BY DEF SystemInit, Init, Names!Init
<1>2. [SystemNext]_systemVars => [Names!Next]_<<now, Names!nameVars>>
  BY NameStep
<1> QED
  BY <1>1, <1>2, PTL DEF SystemSpec, RefinesZeroName, Names!Spec

LEMMA NamesKept == SystemSpec => []Proved!NamesInv
<1>1. Proved!ZeroNameAssumption
  BY SystemAssumption, SameNames
<1>2. SystemInit => Proved!NamesInv
  <2> SUFFICES ASSUME SystemInit PROVE Proved!NamesInv
    OBVIOUS
  <2>1. Proved!Init
    BY SameNames DEF SystemInit, Init, Proved!Init
  <2> QED
    BY <1>1, <2>1, NamesContext, Proved!NamesStart, LibZEROAssumption
<1>3. Proved!NamesInv /\ [SystemNext]_systemVars => Proved!NamesInv'
  <2> SUFFICES ASSUME Proved!NamesInv, [SystemNext]_systemVars PROVE Proved!NamesInv'
    OBVIOUS
  <2>1. [Proved!Next]_<<now, Proved!nameVars>>
    BY NameStep, SameNames DEF Names!nameVars, Proved!nameVars, Names!nameERC721Vars,
                               Proved!nameERC721Vars
  <2> QED
    BY <1>1, <2>1, NamesContext, Proved!NamesInvStep, LibZEROAssumption
<1> QED
  BY <1>2, <1>3, PTL DEF SystemSpec

\* Through sales, gifts to warriors and transfers, the balance kept for an
\* account is the number of names it owns.
THEOREM SystemCountsNames == SystemSpec => []NamesCounted
<1>1. Proved!NamesInv => NamesCounted
  BY DEF Proved!NamesInv, Proved!NamesCounted, NamesCounted, Names!NamesCounted, Names!NamesOf,
         Proved!NamesOf, Names!NameIds, Proved!NameIds, Names!NameHolders, Proved!NameHolders,
         Names!Accounts, Proved!Accounts, Names!Reserves, Proved!Reserves,
         Names!Cardinality, Proved!Cardinality
<1> QED
  BY <1>1, NamesKept, PTL

\* The community keeps to its share whatever is bought in between.
THEOREM SystemKeepsShare == SystemSpec => []CommunityShareKept
<1>1. Proved!NamesInv => CommunityShareKept
  BY DEF Proved!NamesInv, Proved!CommunityShareKept, CommunityShareKept, Names!CommunityShareKept
<1> QED
  BY <1>1, NamesKept, PTL

\* The same of one step.
LEMMA GivenStays ==
  ASSUME Proved!NamesInv, [SystemNext]_systemVars,
         NEW id \in Names!NameIds, nameOwner[id] = WarriorContract
  PROVE  nameOwner'[id] = WarriorContract
<1>1. Proved!ZeroNameAssumption /\ id \in Proved!NameIds
  BY SystemAssumption, SameNames
<1>2. [Proved!Next]_<<now, Proved!nameVars>>
  BY NameStep, SameNames DEF Names!nameVars, Proved!nameVars, Names!nameERC721Vars,
                             Proved!nameERC721Vars
<1> QED
  BY <1>1, <1>2, NamesContext, LibZEROAssumption, Proved!GivenStay

\* No step of the three contracts takes a name back that was given to a warrior.
THEOREM SystemGivesForGood == SystemSpec => GivenForGood
<1> DEFINE Stays == \A id \in Names!NameIds : nameOwner[id] = WarriorContract
                                                => nameOwner'[id] = WarriorContract
<1>1. Proved!NamesInv /\ [SystemNext]_systemVars => Stays
  BY GivenStays
<1>2. Stays => [Stays]_<<now, Names!nameVars>>
  OBVIOUS
<1> QED
  BY <1>1, <1>2, NamesKept, PTL DEF SystemSpec, GivenForGood, Names!GivenForGood

(***************************************************************************)
(* HeldOnce: a name is given at most once.                                 *)
(***************************************************************************)
HeldInv == copies \in [Ids -> [NFTs -> Nat]] /\ HeldOnce

LEMMA HeldInit == SystemInit => HeldInv
<1> SUFFICES ASSUME SystemInit PROVE HeldInv
  OBVIOUS
<1>1. copies = [id \in Ids |-> [nft \in NFTs |-> 0]] /\ Names!NameIds \subseteq NFTs
  BY DEF SystemInit, NFTs
<1> QED
  BY <1>1 DEF HeldInv, HeldOnce

LEMMA HeldStep ==
  ASSUME Proved!NamesInv, HeldInv, [SystemNext]_systemVars
  PROVE  HeldInv'
<1>1. /\ Names!NameIds \subseteq NFTs
      /\ \A nft \in OtherNFTs : nft \notin Names!NameIds
      /\ \A user \in Users : user # WarriorContract
  BY SystemAssumption DEF NFTs, Names!NameIds, Names!ZeroNameAssumption, Names!NamesAssumption,
                          Names!Holders, Names!Accounts
<1>2. copies \in [Ids -> [NFTs -> Nat]]
  BY DEF HeldInv
<1>3. CASE UNCHANGED copies
  BY <1>3, GivenStays DEF HeldInv, HeldOnce
<1>4. ASSUME NEW user \in Users, NEW warriorId \in Ids, NEW nft \in NFTs, warrior(user, warriorId, nft)
      PROVE  HeldInv'
  <2>1. copies' = [copies EXCEPT ![warriorId][nft] = @ + 1]
    BY <1>4 DEF warrior
  <2>2. copies' \in [Ids -> [NFTs -> Nat]]
    BY <1>2, <2>1
  <2>3. ASSUME NEW name \in Names!NameIds, NEW w \in Ids, name # nft
        PROVE  copies'[w][name] = copies[w][name]
    BY <1>1, <1>2, <2>1, <2>3
  <2>4. CASE nft \in OtherNFTs /\ UNCHANGED nameVars
    BY <1>1, <2>2, <2>3, <2>4, GivenStays DEF HeldInv, HeldOnce
  <2>5. CASE nft \in Names!NameIds /\ Names!giveToWarrior(user, nft)
    <3>1. nameOwner[nft] = user
      BY <2>5 DEF Names!giveToWarrior, Names!transferFrom
    <3>2. \A w \in Ids : copies[w][nft] = 0
      BY <1>1, <1>2, <2>5, <3>1 DEF HeldInv, HeldOnce
    <3>3. copies'[warriorId][nft] = 1 /\ \A w \in Ids \ {warriorId} : copies'[w][nft] = 0
      BY <1>2, <2>1, <3>2
    <3>4. nameOwner'[nft] = WarriorContract
      <4>1. nameOwner \in [Names!NameIds -> Names!NameHolders \cup {NoOne}]
        BY DEF Proved!NamesInv, Proved!NamesTypeOK, Proved!NameERC721TypeOK, Names!NameIds,
               Proved!NameIds, Names!NameHolders, Proved!NameHolders, Names!Accounts,
               Proved!Accounts, Names!Reserves, Proved!Reserves
      <4> QED
        BY <2>5, <4>1 DEF Names!giveToWarrior, Names!transferFrom
    <3> QED
      BY <2>2, <2>3, <3>3, <3>4, GivenStays DEF HeldInv, HeldOnce
  <2> QED
    BY <1>4, <2>4, <2>5 DEF warrior
<1> QED
  BY <1>3, <1>4 DEF SystemNext, systemVars, buyZeroName

THEOREM GivenNamesAreHeldOnce == SystemSpec => []HeldOnce
<1>1. SystemInit => HeldInv
  BY HeldInit
<1>2. Proved!NamesInv /\ HeldInv /\ [SystemNext]_systemVars => HeldInv'
  BY HeldStep
<1>3. HeldInv => HeldOnce
  BY DEF HeldInv
<1> QED
  BY <1>1, <1>2, <1>3, NamesKept, PTL DEF SystemSpec
-------------------------------------------------------------------------------
(* The warriors among the names *)

\* A name is sold for an amount, at the time and after the sales there are.
LEMMA PriceCharged ==
  ASSUME Proved!NamesInv, NEW user, NEW maxPrice, Names!mintFromZero(user, maxPrice)
  PROVE  Names!zeronamePrice \in Amounts
<1>1. now \in 0..MaxNow /\ currentId \in 0..MaxNames /\ numMintedForCommunity \in 0..currentId
  BY DEF Proved!NamesInv, Proved!NamesTypeOK
<1>2. now >= mintStart /\ mintStart \in Nat /\ MaxNow \in Nat /\ MaxNames \in Nat
  BY SystemAssumption DEF Names!mintFromZero, Names!ZeroNameAssumption, Names!NamesAssumption
<1>3. now - mintStart \in 0..MaxNow /\ Names!Sold \in 0..MaxNames
  BY <1>1, <1>2 DEF Names!Sold
<1> QED
  BY <1>3, SystemAssumption DEF Names!zeronamePrice, Names!toDaysWad, toDaysWad

LEMMA WarriorStep ==
  ASSUME Proved!NamesInv, [SystemNext]_systemVars
  PROVE  [Next]_vars
<1>1. CASE WarriorNext
  BY <1>1 DEF Next
<1>2. ASSUME NEW user \in Users, NEW maxPrice \in MaxPrices, NEW useVirtualBalance \in BOOLEAN,
             buyZeroName(user, maxPrice, useVirtualBalance)
      PROVE  Next
  <2>1. Names!zeronamePrice \in Amounts
    BY <1>2, PriceCharged DEF buyZeroName
  <2> QED
    BY <1>2, <2>1 DEF buyZeroName, Next
<1>3. ASSUME NEW user \in Users, NEW warriorId \in Ids, NEW nft \in NFTs, warrior(user, warriorId, nft)
      PROVE  UNCHANGED vars
  BY <1>3 DEF warrior
<1> QED
  BY <1>1, <1>2, <1>3 DEF SystemNext, systemVars

(***************************************************************************)
(* RefinesZeroWarrior: whatever the names do, the warrior contract takes   *)
(* one of its own steps or none.                                           *)
(***************************************************************************)
THEOREM WarriorsAreRefined == SystemSpec => RefinesZeroWarrior
<1>1. SystemInit => Init
  BY DEF SystemInit
<1>2. Proved!NamesInv /\ [SystemNext]_systemVars => [Next]_vars
  BY WarriorStep
<1> QED
  BY <1>1, <1>2, NamesKept, PTL DEF SystemSpec, RefinesZeroWarrior, Spec

-------------------------------------------------------------------------------
(* What names cost *)

LEMMA AllKept == SystemSpec => []AllInv
<1>1. SystemInit => AllInv
  BY AllInit DEF SystemInit
<1>2. AllInv /\ Proved!NamesInv /\ [SystemNext]_systemVars => AllInv'
  BY AllStep, WarriorStep
<1> QED
  BY <1>1, <1>2, NamesKept, PTL DEF SystemSpec

LEMMA WealthIsFortune ==
  /\ WealthOfAll = SumFunctionOnSet(Fortune, Holders)
  /\ WealthOfAll' = SumFunctionOnSet(Fortune', Holders)
BY DEF WealthOfAll, SumFunction, Fortune

\* One account pays, with tokens or with its virtual balance, and all accounts
\* together have as much less.
LEMMA PaidByOne ==
  ASSUME AllInv, AllInv', NEW user \in Users, NEW price \in Nat,
         burnZeroForZeroName(user, price) \/ payForZeroName(user, price)
  PROVE  WealthOfAll' = WealthOfAll - price
<1>1. /\ balanceOf \in [Users -> Nat]
      /\ \A a \in Holders : zeroBalance(a) \in Nat
      /\ user \in Holders
  BY BalanceNat, Parties DEF AllInv, TokenInv
<1>2. /\ \A a \in Holders : Fortune[a] = zeroBalance(a) + (IF a \in Users THEN balanceOf[a] ELSE 0)
      /\ \A a \in Holders : Fortune'[a] = zeroBalance(a)' + (IF a \in Users THEN balanceOf'[a] ELSE 0)
  BY DEF Fortune, Wealth
<1>3. Fortune'[user] = Fortune[user] - price /\ \A a \in Holders : a # user => Fortune'[a] = Fortune[a]
  <2>1. CASE burnZeroForZeroName(user, price)
    <3>1. /\ zeroBalance(user) - price \in Nat /\ setUserZeroBalance(user, zeroBalance(user) - price)
          /\ now' = now /\ balanceOf' = balanceOf
      BY <1>1, <2>1 DEF burnZeroForZeroName, decreaseUserZeroBalance, zeroVars
    <3>2. /\ zeroBalance(user)' = zeroBalance(user) - price
          /\ \A a \in Holders : a # user => zeroBalance(a)' = zeroBalance(a)
      BY <3>1, SetWrites
    <3> QED
      BY <1>1, <1>2, <3>1, <3>2
  <2>2. CASE payForZeroName(user, price)
    <3>1. \A a \in Holders : zeroBalance(a)' = zeroBalance(a)
      BY <2>2 DEF payForZeroName, userVars, zeroBalance
    <3>2. /\ balanceOf'[user] = balanceOf[user] - price
          /\ \A u \in Users : u # user => balanceOf'[u] = balanceOf[u]
      BY <1>1, <2>2 DEF payForZeroName, burnForZeroName, burn
    <3> QED
      BY <1>1, <1>2, <3>1, <3>2
  <2> QED
    BY <2>1, <2>2
<1>4. Fortune \in [Holders -> Nat] /\ Fortune' \in [Holders -> Nat]
  BY FortuneNat, FortuneNext
<1>5. /\ WealthOfAll \in Nat /\ WealthOfAll' \in Nat
      /\ WealthOfAll' - Fortune'[user] = WealthOfAll - Fortune[user]
  BY <1>1, <1>3, <1>4, HoldersFinite, SumUpdate, WealthIsFortune
<1>6. Fortune[user] \in Nat
  BY <1>1, <1>4
<1> QED
  BY <1>3, <1>5, <1>6

LEMMA PaidInStep ==
  ASSUME AllInv, AllInv', Proved!NamesInv, [SystemNext]_systemVars
  PROVE  /\ Names!Sold' # Names!Sold
              => WealthOfAll' = WealthOfAll - (Names!Sold' - Names!Sold) * Names!zeronamePrice
         /\ nameVars' # nameVars /\ Names!Sold' = Names!Sold
              => WealthOfAll' = WealthOfAll
<1>1. ASSUME UNCHANGED vars PROVE WealthOfAll' = WealthOfAll
  BY <1>1 DEF WealthOfAll, Wealth, zeroBalance, vars, zeroVars, userVars
<1>2. CASE UNCHANGED nameVars
  BY <1>2 DEF nameVars, Names!Sold
<1>3. currentId \in Nat /\ numMintedForCommunity \in Nat /\ NameBatches \subseteq Nat
  BY SystemAssumption DEF Proved!NamesInv, Proved!NamesTypeOK, Names!ZeroNameAssumption,
                          Names!NamesAssumption
<1>4. CASE Names!NamesAlone /\ UNCHANGED vars
  <2>1. Names!Sold' = Names!Sold
    BY <1>3, <1>4 DEF Names!NamesAlone, Names!mintCommunityZeroName, Names!Sold
  <2> QED
    BY <1>1, <1>4, <2>1
<1>5. ASSUME NEW user \in Users, NEW maxPrice \in MaxPrices, NEW useVirtualBalance \in BOOLEAN,
             buyZeroName(user, maxPrice, useVirtualBalance)
      PROVE  /\ Names!Sold' - Names!Sold = 1 /\ Names!Sold' # Names!Sold
             /\ WealthOfAll' = WealthOfAll - Names!zeronamePrice
             /\ Names!zeronamePrice \in Nat
  <2>1. Names!Sold' - Names!Sold = 1 /\ Names!Sold' # Names!Sold
    BY <1>3, <1>5 DEF buyZeroName, Names!mintFromZero, Names!Sold
  <2>2. Names!zeronamePrice \in Nat
    BY <1>5, PriceCharged, ZeroWarriorAssumption DEF buyZeroName
  <2> QED
    BY <1>5, <2>1, <2>2, PaidByOne DEF buyZeroName
<1>6. ASSUME NEW user \in Users, NEW warriorId \in Ids, NEW nft \in NFTs, warrior(user, warriorId, nft)
      PROVE  UNCHANGED vars /\ Names!Sold' = Names!Sold
  BY <1>6 DEF warrior, Names!giveToWarrior, nameVars, Names!Sold
<1> QED
  BY <1>1, <1>2, <1>4, <1>5, <1>6 DEF SystemNext, systemVars

(***************************************************************************)
(* NamesArePaid: a sale costs its price and nothing else costs anything.   *)
(***************************************************************************)
THEOREM NamesArePaidFor == SystemSpec => NamesArePaid
<1> DEFINE Paid == /\ Names!Sold' # Names!Sold
                        => WealthOfAll' = WealthOfAll - (Names!Sold' - Names!Sold) * Names!zeronamePrice
                   /\ nameVars' # nameVars /\ Names!Sold' = Names!Sold
                        => WealthOfAll' = WealthOfAll
<1>1. AllInv /\ AllInv' /\ Proved!NamesInv /\ [SystemNext]_systemVars => [Paid]_systemVars
  BY PaidInStep
<1> QED
  BY <1>1, AllKept, NamesKept, PTL DEF SystemSpec, NamesArePaid
===============================================================================
