------------------------------- MODULE ZeroName -------------------------------
(***************************************************************************)
(* The zeroname collection (src/src/ZeroName.sol): sales at a price that   *)
(* follows the names sold, and a share for the community that anyone may   *)
(* mint.  What a name costs its buyer is the business of ZeroSystem.       *)
(***************************************************************************)
EXTENDS ZeroNameERC721, LibZERO

CONSTANTS
  mintStart,
  getZeroNamePrice(_, _),   \* getVRGDAPrice: after a time in days, with a number sold
  CommunityDivisor,         \* 10: the divisor of the guard of the community share
  \* Inputs and bounds of an instance.
  MaxNow, MaxPrices, NameBatches, Spenders

VARIABLES
  now,                      \* block.timestamp
  currentId,
  numMintedForCommunity

nameVars == <<nameERC721Vars, currentId, numMintedForCommunity>>

ZeroNameAssumption ==
  /\ NamesAssumption
  /\ mintStart \in Nat /\ MaxNow \in Nat
  /\ CommunityDivisor \in Nat \ {0}
  /\ MaxPrices \subseteq Nat /\ NameBatches \subseteq Nat
  /\ Spenders \subseteq Users \cup {NoOne}
  /\ \A elapsed \in 0..MaxNow, sold \in 0..MaxNames :
       getZeroNamePrice(toDaysWad(elapsed), sold) \in Nat

NamesInit ==
  /\ NameERC721Init
  /\ currentId = 0
  /\ numMintedForCommunity = 0

Sold == currentId - numMintedForCommunity

zeronamePrice == getZeroNamePrice(toDaysWad(now - mintStart), Sold)

\* The subtraction of mintStart reverts before it.
mintFromZero(user, maxPrice) ==
  /\ now >= mintStart
  /\ zeronamePrice <= maxPrice
  /\ currentId < MaxNames
  /\ currentId' = currentId + 1
  /\ mint(user, currentId + 1)
  /\ UNCHANGED numMintedForCommunity

\* A fault checked against it: the guard reads the count before the batch.
mintCommunityCheckedBefore(numZeroName) ==
  /\ numMintedForCommunity <= (currentId + numZeroName) \div CommunityDivisor
  /\ currentId + numZeroName <= MaxNames
  /\ numMintedForCommunity' = numMintedForCommunity + numZeroName
  /\ batchMint(Community, numZeroName, currentId)
  /\ currentId' = currentId + numZeroName

mintCommunityZeroName(numZeroName) ==
  LET minted == numMintedForCommunity + numZeroName
  IN  /\ minted <= (currentId + numZeroName) \div CommunityDivisor
      /\ currentId + numZeroName <= MaxNames
      /\ numMintedForCommunity' = minted
      /\ batchMint(Community, numZeroName, currentId)
      /\ currentId' = currentId + numZeroName

\* What the community mints and what accounts do among themselves, no other
\* contract being involved.  A reserve has no call that moves a name.
NamesAlone ==
  \/ \E numZeroName \in NameBatches : mintCommunityZeroName(numZeroName)
  \/ /\ \/ \E caller \in Users, from, to \in NameHolders, id \in NameIds :
             transferFrom(caller, from, to, id)
        \/ \E caller \in Users, spender \in Spenders, id \in NameIds :
             approve(caller, spender, id)
        \/ \E caller \in Users, operator \in Spenders \cap Users, approved \in BOOLEAN :
             setApprovalForAll(caller, operator, approved)
     /\ UNCHANGED <<currentId, numMintedForCommunity>>

\* A fault checked against giveToWarrior: the name need not be the caller's.
giveOfAnyone(id) ==
  /\ transferFrom(WarriorContract, nameOwner[id], WarriorContract, id)
  /\ UNCHANGED <<currentId, numMintedForCommunity>>

\* warrior() of the warrior contract: the name of its caller is moved to it.
giveToWarrior(user, id) ==
  /\ transferFrom(WarriorContract, user, WarriorContract, id)
  /\ UNCHANGED <<currentId, numMintedForCommunity>>

Init == now = 0 /\ NamesInit

Next ==
  \/ now < MaxNow /\ now' = now + 1 /\ UNCHANGED nameVars
  \/ /\ \/ NamesAlone
        \/ \E user \in Users, maxPrice \in MaxPrices : mintFromZero(user, maxPrice)
        \/ \E user \in Users, id \in NameIds : giveToWarrior(user, id)
     /\ UNCHANGED now

Spec == Init /\ [][Next]_<<now, nameVars>>

-------------------------------------------------------------------------------
(* Properties *)

\* Every variable stays in the set its Solidity type and use give it.
NamesTypeOK ==
  /\ now \in 0..MaxNow
  /\ NameERC721TypeOK
  /\ currentId \in 0..MaxNames
  /\ numMintedForCommunity \in 0..currentId

\* The names minted are those up to currentId and each has an owner for ever:
\* no sale takes the id of a community name, no transfer loses a name.
MintedNamesOwned ==
  \A id \in NameIds : nameOwner[id] # NoOne <=> id <= currentId

\* The balance kept for an account is the number of names it owns, through
\* sales, batches, transfers by approval and transfers to oneself.
NamesCounted ==
  \A a \in NameHolders : nameBalance[a] = Cardinality(NamesOf(a))

\* However sales and community mints alternate, and whatever the size of the
\* batches, the community never holds more than its share of the names minted.
CommunityShareKept ==
  CommunityDivisor * numMintedForCommunity <= currentId

\* A name that came to the warrior contract stays there: no approval or
\* operator set by an earlier owner takes it back.
GivenForGood ==
  [][\A id \in NameIds : nameOwner[id] = WarriorContract => nameOwner'[id] = WarriorContract]_<<now, nameVars>>
==============================================================================
