---------------------------- MODULE ZeroNameProofs ----------------------------
(***************************************************************************)
(* The zeroname collection for every number of names and accounts, every   *)
(* price and every divisor of the community share: the names minted are    *)
(* owned and counted, the community keeps to its share, and a name that    *)
(* was given to a warrior is never taken back.                             *)
(***************************************************************************)
EXTENDS ZeroName, NumberTheorems

\* A name given away has no approval left that its last owner set.
GivenUnapproved ==
  \A id \in NameIds : nameOwner[id] = WarriorContract => nameApproved[id] = NoOne

-------------------------------------------------------------------------------
(* The four ways a step treats the names *)

\* n names are minted to one account, for the community within its share.
Minting(to, n) ==
  /\ currentId + n <= MaxNames
  /\ currentId' = currentId + n
  /\ batchMint(to, n, currentId)
  /\ \/ numMintedForCommunity' = numMintedForCommunity
     \/ /\ numMintedForCommunity' = numMintedForCommunity + n
        /\ numMintedForCommunity + n <= (currentId + n) \div CommunityDivisor

Approving ==
  /\ UNCHANGED <<nameOwner, nameBalance, currentId, numMintedForCommunity>>
  /\ \/ \E caller \in Users, spender \in Spenders, id \in NameIds : approve(caller, spender, id)
     \/ \E caller \in Users, operator \in Spenders \cap Users, approved \in BOOLEAN :
          setApprovalForAll(caller, operator, approved)

\* The warrior contract only moves names of the accounts that call it.
Moving(caller, from, to, id) ==
  /\ caller = WarriorContract => from \in Users
  /\ transferFrom(caller, from, to, id)
  /\ UNCHANGED <<currentId, numMintedForCommunity>>

LEMMA NameSteps ==
  ASSUME ZeroNameAssumption, NamesTypeOK, [Next]_<<now, nameVars>>
  PROVE  /\ now' \in 0..MaxNow
         /\ \/ \E to \in Accounts, n \in Nat : Minting(to, n)
            \/ \E caller \in Users \cup {WarriorContract}, from, to \in NameHolders, id \in NameIds :
                 Moving(caller, from, to, id)
            \/ Approving
            \/ UNCHANGED nameVars
<1>1. MaxNow \in Nat /\ NameBatches \subseteq Nat /\ currentId \in Nat /\ now \in 0..MaxNow
  BY DEF ZeroNameAssumption, NamesAssumption, NamesTypeOK
<1>2. CASE now < MaxNow /\ now' = now + 1 /\ UNCHANGED nameVars
  BY <1>1, <1>2
<1>3. ASSUME NEW n \in NameBatches, mintCommunityZeroName(n), UNCHANGED now
      PROVE  \E to \in Accounts, k \in Nat : Minting(to, k)
  <2>1. Minting(Community, n)
    BY <1>3 DEF mintCommunityZeroName, Minting
  <2> QED
    BY <1>1, <2>1 DEF Accounts, Reserves
<1>4. ASSUME NEW user \in Users, NEW maxPrice \in MaxPrices, mintFromZero(user, maxPrice),
             UNCHANGED now
      PROVE  \E to \in Accounts, k \in Nat : Minting(to, k)
  <2>1. (currentId + 1) - 1 = currentId /\ currentId + 1 <= MaxNames
    BY <1>1, <1>4 DEF mintFromZero, ZeroNameAssumption, NamesAssumption
  <2>2. batchMint(user, 1, currentId)
    BY <1>4, <2>1 DEF mintFromZero, mint
  <2>3. Minting(user, 1)
    BY <1>4, <2>1, <2>2 DEF mintFromZero, Minting
  <2> QED
    BY <2>3 DEF Accounts
<1>5. ASSUME NEW caller \in Users, NEW from \in NameHolders, NEW to \in NameHolders,
             NEW id \in NameIds, transferFrom(caller, from, to, id),
             UNCHANGED <<currentId, numMintedForCommunity>>
      PROVE  \E c \in Users \cup {WarriorContract}, f, t \in NameHolders, i \in NameIds :
               Moving(c, f, t, i)
  <2>1. caller # WarriorContract
    BY DEF ZeroNameAssumption, NamesAssumption, Holders, Accounts
  <2> QED
    BY <1>5, <2>1 DEF Moving
<1>6. ASSUME NEW user \in Users, NEW id \in NameIds, giveToWarrior(user, id)
      PROVE  \E c \in Users \cup {WarriorContract}, f, t \in NameHolders, i \in NameIds :
               Moving(c, f, t, i)
  <2>1. Moving(WarriorContract, user, WarriorContract, id)
    BY <1>6 DEF giveToWarrior, Moving
  <2> QED
    BY <2>1 DEF NameHolders, Accounts
<1>7. ASSUME NamesAlone, UNCHANGED now
      PROVE  \/ \E to \in Accounts, n \in Nat : Minting(to, n)
             \/ \E c \in Users \cup {WarriorContract}, f, t \in NameHolders, i \in NameIds :
                  Moving(c, f, t, i)
             \/ Approving
  BY <1>3, <1>5, <1>7 DEF NamesAlone, Approving, approve, setApprovalForAll
<1>8. CASE UNCHANGED <<now, nameVars>>
  BY <1>1, <1>8
<1> QED
  BY <1>1, <1>2, <1>4, <1>6, <1>7, <1>8 DEF Next
-------------------------------------------------------------------------------
(* The inductive invariant.  The balances are natural numbers only because    *)
(* they count, and a name given away stays only because no approval for it is *)
(* left.                                                                      *)

NamesInv ==
  /\ NamesTypeOK
  /\ MintedNamesOwned
  /\ NamesCounted
  /\ CommunityShareKept
  /\ GivenUnapproved

LEMMA NamesFinite ==
  ASSUME ZeroNameAssumption, NEW a
  PROVE  IsFiniteSet(NamesOf(a)) /\ Cardinality(NamesOf(a)) \in Nat
<1>1. IsFiniteSet(1..MaxNames)
  BY FS_Interval DEF ZeroNameAssumption, NamesAssumption
<1>2. NamesOf(a) \in SUBSET (1..MaxNames)
  BY DEF NamesOf, NameIds
<1> QED
  BY <1>1, <1>2, FS_Subset, FS_CardinalityType

LEMMA Apart ==
  ASSUME ZeroNameAssumption
  PROVE  /\ WarriorContract \notin Accounts /\ NoOne \notin NameHolders
         /\ Users \subseteq Accounts /\ Accounts \subseteq NameHolders
         /\ WarriorContract # NoOne
         /\ MaxNames \in Nat /\ CommunityDivisor \in Nat \ {0}
BY AddressesAssumption DEF ZeroNameAssumption, NamesAssumption, Holders, NameHolders, Accounts

LEMMA NamesStart ==
  ASSUME ZeroNameAssumption, Init
  PROVE  NamesInv
<1>1. NamesTypeOK
  BY Apart DEF Init, NamesInit, NameERC721Init, NamesTypeOK, NameERC721TypeOK, ZeroNameAssumption
<1>2. MintedNamesOwned
  BY Apart DEF Init, NamesInit, NameERC721Init, MintedNamesOwned, NameIds
<1>3. ASSUME NEW a \in NameHolders
      PROVE  NamesOf(a) = {}
  BY Apart DEF Init, NamesInit, NameERC721Init, NamesOf
<1>4. NamesCounted
  BY <1>3, FS_EmptySet DEF Init, NamesInit, NameERC721Init, NamesCounted
<1>5. CommunityShareKept
  BY Apart DEF Init, NamesInit, CommunityShareKept
<1>6. GivenUnapproved
  BY Apart DEF Init, NamesInit, NameERC721Init, GivenUnapproved
<1> QED
  BY <1>1, <1>2, <1>4, <1>5, <1>6 DEF NamesInv

\* The new ids are those that had no owner.
LEMMA MintingKeeps ==
  ASSUME ZeroNameAssumption, NamesInv, now' \in 0..MaxNow,
         NEW to \in Accounts, NEW n \in Nat, Minting(to, n)
  PROVE  NamesInv'
<1> DEFINE Batch == (currentId + 1)..(currentId + n)
<1> USE Apart
<1>1. /\ currentId \in Nat /\ numMintedForCommunity \in Nat /\ numMintedForCommunity <= currentId
      /\ currentId + n <= MaxNames /\ currentId' = currentId + n
      /\ nameOwner \in [NameIds -> NameHolders \cup {NoOne}]
      /\ nameBalance \in [NameHolders -> Nat]
  BY DEF NamesInv, NamesTypeOK, NameERC721TypeOK, Minting
<1>2. /\ nameOwner' = [id \in NameIds |-> IF id \in Batch THEN to ELSE nameOwner[id]]
      /\ nameBalance' = [nameBalance EXCEPT ![to] = @ + n]
      /\ UNCHANGED <<nameApproved, nameOperators>>
  BY DEF Minting, batchMint
<1>3. \A id \in Batch : id \in NameIds /\ nameOwner[id] = NoOne
  BY <1>1 DEF NameIds, NamesInv, MintedNamesOwned
<1>4. CommunityShareKept'
  <2>1. CASE numMintedForCommunity' = numMintedForCommunity
    <3>1. CommunityDivisor * numMintedForCommunity \in Nat
      BY <1>1, ProductNat
    <3> QED
      BY <1>1, <2>1, <3>1 DEF NamesInv, CommunityShareKept
  <2>2. CASE /\ numMintedForCommunity' = numMintedForCommunity + n
             /\ numMintedForCommunity + n <= (currentId + n) \div CommunityDivisor
    <3> DEFINE q == numMintedForCommunity + n
               x == currentId + n
    <3>1. q \in Nat /\ x \in Nat
      BY <1>1
    <3>2. q * CommunityDivisor <= x
      BY <2>2, <3>1, DivBound
    <3>3. q * CommunityDivisor = CommunityDivisor * q
      BY <3>1
    <3> QED
      BY <1>1, <2>2, <3>2, <3>3 DEF CommunityShareKept
  <2> QED
    BY <2>1, <2>2 DEF Minting
<1>5. NamesTypeOK'
  <2>1. numMintedForCommunity' \in 0..currentId'
    <3>1. numMintedForCommunity' \in Nat /\ currentId' \in Nat
      BY <1>1 DEF Minting
    <3> DEFINE q == numMintedForCommunity'
    <3>2. 1 * q <= CommunityDivisor * q
      BY <3>1, ProductMonotone
    <3> QED
      BY <1>4, <3>1, <3>2 DEF CommunityShareKept
  <2>2. currentId' \in 0..MaxNames
    BY <1>1
  <2>3. NameERC721TypeOK'
    BY <1>1, <1>2 DEF NamesInv, NamesTypeOK, NameERC721TypeOK
  <2> QED
    BY <2>1, <2>2, <2>3 DEF NamesTypeOK
<1>6. MintedNamesOwned'
  BY <1>1, <1>2, <1>3 DEF NamesInv, MintedNamesOwned, NameIds, NameHolders
<1>7. ASSUME NEW a \in NameHolders
      PROVE  nameBalance'[a] = Cardinality(NamesOf(a)')
  <2>1. nameBalance[a] = Cardinality(NamesOf(a))
    BY DEF NamesInv, NamesCounted
  <2>2. CASE a = to
    <3>1. NamesOf(a)' = NamesOf(a) \cup Batch
      BY <1>2, <1>3, <2>2 DEF NamesOf
    <3>2. NamesOf(a) \cap Batch = {}
      BY <1>3 DEF NamesOf
    <3>3. IsFiniteSet(Batch) /\ Cardinality(Batch) = n
      BY <1>1, FS_Interval
    <3> HIDE DEF Batch
    <3>5. Cardinality(NamesOf(a)) \in Nat
          /\ Cardinality(NamesOf(a)') = Cardinality(NamesOf(a)) + n
      BY <3>1, <3>2, <3>3, NamesFinite, FiniteGain
    <3> QED
      BY <1>1, <1>2, <2>1, <2>2, <3>5
  <2>3. CASE a # to
    <3>1. NamesOf(a)' = NamesOf(a)
      BY <1>2, <1>3, <2>3 DEF NamesOf
    <3> QED
      BY <1>1, <1>2, <2>1, <2>3, <3>1
  <2> QED
    BY <2>2, <2>3
<1>8. GivenUnapproved'
  BY <1>1, <1>2 DEF NamesInv, GivenUnapproved
<1> QED
  BY <1>4, <1>5, <1>6, <1>7, <1>8 DEF NamesInv, NamesCounted

\* Only the owner's names and the receiver's are disturbed.
LEMMA MovingKeeps ==
  ASSUME ZeroNameAssumption, NamesInv, now' \in 0..MaxNow,
         NEW caller, NEW from \in NameHolders, NEW to \in NameHolders, NEW id \in NameIds,
         Moving(caller, from, to, id)
  PROVE  NamesInv'
<1> USE Apart
<1>1. /\ currentId' = currentId /\ numMintedForCommunity' = numMintedForCommunity
      /\ nameOwner \in [NameIds -> NameHolders \cup {NoOne}]
      /\ nameBalance \in [NameHolders -> Nat]
      /\ nameApproved \in [NameIds -> Users \cup {NoOne}]
  BY DEF NamesInv, NamesTypeOK, NameERC721TypeOK, Moving
<1>2. /\ nameOwner[id] = from
      /\ nameOwner' = [nameOwner EXCEPT ![id] = to]
      /\ nameBalance' = moved(nameBalance, from, to, 1)
      /\ nameApproved' = [nameApproved EXCEPT ![id] = NoOne]
      /\ nameOperators' = nameOperators
  BY DEF Moving, transferFrom
<1>3. ASSUME NEW a \in NameHolders
      PROVE  /\ nameBalance'[a] = nameBalance[a] - (IF a = from THEN 1 ELSE 0)
                                                 + (IF a = to THEN 1 ELSE 0)
             /\ nameBalance'[a] = Cardinality(NamesOf(a)') /\ nameBalance'[a] \in Nat
  <2>1. nameBalance'[a] = nameBalance[a] - (IF a = from THEN 1 ELSE 0)
                                         + (IF a = to THEN 1 ELSE 0)
    BY <1>1, <1>2 DEF moved
  <2>2. nameBalance[a] = Cardinality(NamesOf(a))
    BY DEF NamesInv, NamesCounted
  <2>3. IsFiniteSet(NamesOf(a)) /\ Cardinality(NamesOf(a)) \in Nat
    BY NamesFinite
  <2>4. (id \in NamesOf(a)) <=> (a = from)
    BY <1>2 DEF NamesOf
  <2>5. CASE a = from /\ a # to
    <3>1. NamesOf(a)' = NamesOf(a) \ {id}
      BY <1>1, <1>2, <2>5 DEF NamesOf
    <3>2. Cardinality(NamesOf(a)') = Cardinality(NamesOf(a)) - 1 /\ Cardinality(NamesOf(a)') \in Nat
      BY <2>3, <2>4, <2>5, <3>1, FS_RemoveElement, FS_CardinalityType
    <3> QED
      BY <2>1, <2>2, <2>3, <2>5, <3>2
  <2>6. CASE a # from /\ a = to
    <3>1. NamesOf(a)' = NamesOf(a) \cup {id}
      BY <1>1, <1>2, <2>6 DEF NamesOf
    <3>2. Cardinality(NamesOf(a)') = Cardinality(NamesOf(a)) + 1
      BY <2>3, <2>4, <2>6, <3>1, FS_AddElement
    <3> QED
      BY <2>1, <2>2, <2>3, <2>6, <3>2
  <2>7. CASE (a = from) <=> (a = to)
    <3>1. NamesOf(a)' = NamesOf(a)
      BY <1>1, <1>2, <2>7 DEF NamesOf
    <3> QED
      BY <2>1, <2>2, <2>3, <2>7, <3>1
  <2> QED
    BY <2>5, <2>6, <2>7
<1>4. NamesTypeOK'
  <2>1. nameBalance' \in [NameHolders -> Nat]
    BY <1>1, <1>2, <1>3 DEF moved
  <2>2. NameERC721TypeOK'
    BY <1>1, <1>2, <2>1 DEF NamesInv, NamesTypeOK, NameERC721TypeOK
  <2> QED
    BY <1>1, <2>2 DEF NamesInv, NamesTypeOK
<1>5. MintedNamesOwned'
  BY <1>1, <1>2 DEF NamesInv, MintedNamesOwned
<1>6. CommunityShareKept'
  BY <1>1 DEF NamesInv, CommunityShareKept
<1>7. GivenUnapproved'
  BY <1>1, <1>2 DEF NamesInv, GivenUnapproved
<1> QED
  BY <1>3, <1>4, <1>5, <1>6, <1>7 DEF NamesInv, NamesCounted

\* Nobody acts for the warrior contract.
LEMMA ApprovingKeeps ==
  ASSUME ZeroNameAssumption, NamesInv, now' \in 0..MaxNow, Approving
  PROVE  NamesInv'
<1> USE Apart
<1>1. UNCHANGED <<nameOwner, nameBalance, currentId, numMintedForCommunity>>
  BY DEF Approving
<1>2. NameERC721TypeOK' /\ GivenUnapproved'
  <2>1. ASSUME NEW caller \in Users, NEW spender \in Spenders, NEW id \in NameIds,
               approve(caller, spender, id)
        PROVE  NameERC721TypeOK' /\ GivenUnapproved'
    <3>1. spender \in Users \cup {NoOne}
      BY <2>1 DEF ZeroNameAssumption
    <3>2. nameOwner[id] # WarriorContract
      BY <2>1 DEF approve, isApprovedForAll, NamesInv, NamesTypeOK, NameERC721TypeOK
    <3> QED
      BY <1>1, <2>1, <3>1, <3>2 DEF approve, NamesInv, NamesTypeOK, NameERC721TypeOK,
                                    GivenUnapproved
  <2>2. ASSUME NEW caller \in Users, NEW operator \in Spenders \cap Users,
               NEW approved \in BOOLEAN, setApprovalForAll(caller, operator, approved)
        PROVE  NameERC721TypeOK' /\ GivenUnapproved'
    BY <1>1, <2>2 DEF setApprovalForAll, NamesInv, NamesTypeOK, NameERC721TypeOK, GivenUnapproved
  <2> QED
    BY <2>1, <2>2 DEF Approving
<1>3. NamesTypeOK' /\ MintedNamesOwned' /\ CommunityShareKept'
  BY <1>1, <1>2 DEF NamesInv, NamesTypeOK, MintedNamesOwned, CommunityShareKept
<1>4. NamesCounted'
  BY <1>1 DEF NamesInv, NamesCounted, NamesOf
<1> QED
  BY <1>2, <1>3, <1>4 DEF NamesInv

LEMMA NamesInvStep ==
  ASSUME ZeroNameAssumption, NamesInv, [Next]_<<now, nameVars>>
  PROVE  NamesInv'
<1>1. NamesTypeOK
  BY DEF NamesInv
<1>2. CASE UNCHANGED nameVars /\ now' \in 0..MaxNow
  BY <1>2 DEF NamesInv, nameVars, nameERC721Vars, NamesTypeOK, NameERC721TypeOK,
              MintedNamesOwned, NamesCounted, NamesOf, CommunityShareKept, GivenUnapproved
<1> QED
  BY <1>1, <1>2, NameSteps, MintingKeeps, MovingKeeps, ApprovingKeeps

LEMMA NamesAlways ==
  ASSUME ZeroNameAssumption
  PROVE  Spec => []NamesInv
<1>1. Init => NamesInv
  BY NamesStart
<1>2. NamesInv /\ [Next]_<<now, nameVars>> => NamesInv'
  BY NamesInvStep
<1> QED
  BY <1>1, <1>2, PTL DEF Spec

\* No step takes a name from the warrior contract.
LEMMA GivenStay ==
  ASSUME ZeroNameAssumption, NamesInv, [Next]_<<now, nameVars>>,
         NEW id \in NameIds, nameOwner[id] = WarriorContract
  PROVE  nameOwner'[id] = WarriorContract
<1> USE Apart
<1>1. NamesTypeOK /\ currentId \in Nat /\ nameOwner \in [NameIds -> NameHolders \cup {NoOne}]
  BY DEF NamesInv, NamesTypeOK, NameERC721TypeOK
<1>2. ASSUME NEW to \in Accounts, NEW n \in Nat, Minting(to, n)
      PROVE  nameOwner'[id] = WarriorContract
  <2>1. id <= currentId
    BY <1>1 DEF NamesInv, MintedNamesOwned
  <2> QED
    BY <1>1, <1>2, <2>1 DEF Minting, batchMint, NameIds
<1>3. ASSUME NEW caller \in Users \cup {WarriorContract}, NEW from \in NameHolders,
             NEW to \in NameHolders, NEW i \in NameIds, Moving(caller, from, to, i)
      PROVE  nameOwner'[id] = WarriorContract
  <2>1. CASE i # id
    BY <1>1, <1>3, <2>1 DEF Moving, transferFrom
  <2>2. CASE i = id
    <3>1. from = WarriorContract /\ nameApproved[id] = NoOne /\ nameOperators \subseteq Users \X Users
      BY <1>3, <2>2 DEF Moving, transferFrom, NamesInv, NamesTypeOK, NameERC721TypeOK,
                        GivenUnapproved
    <3> QED
      BY <1>3, <3>1 DEF Moving, transferFrom, isApprovedForAll
  <2> QED
    BY <2>1, <2>2
<1> QED
  BY <1>1, <1>2, <1>3, NameSteps DEF Approving, nameVars, nameERC721Vars

-------------------------------------------------------------------------------
(* The theorems *)

\* Balances never go below zero and nobody owns a name that is not minted, for
\* every collection.
THEOREM NamesTyped ==
  ASSUME ZeroNameAssumption
  PROVE  Spec => []NamesTypeOK
BY NamesAlways, PTL DEF NamesInv

\* The names up to currentId are owned and no other is.
THEOREM MintedAreOwned ==
  ASSUME ZeroNameAssumption
  PROVE  Spec => []MintedNamesOwned
BY NamesAlways, PTL DEF NamesInv

\* The balance kept for an account is the number of its names.
THEOREM NamesAreCounted ==
  ASSUME ZeroNameAssumption
  PROVE  Spec => []NamesCounted
BY NamesAlways, PTL DEF NamesInv

\* The community never has more than its share, whatever the divisor and the
\* batches.
THEOREM ShareIsKept ==
  ASSUME ZeroNameAssumption
  PROVE  Spec => []CommunityShareKept
BY NamesAlways, PTL DEF NamesInv

\* A name the warrior contract got stays with it.
THEOREM NamesAreGivenForGood ==
  ASSUME ZeroNameAssumption
  PROVE  Spec => GivenForGood
<1> DEFINE Stays == \A id \in NameIds : nameOwner[id] = WarriorContract
                                          => nameOwner'[id] = WarriorContract
<1>1. NamesInv /\ [Next]_<<now, nameVars>> => Stays
  BY GivenStay
<1>2. Stays => [Stays]_<<now, nameVars>>
  OBVIOUS
<1> QED
  BY <1>1, NamesAlways, PTL DEF Spec, GivenForGood
===============================================================================
