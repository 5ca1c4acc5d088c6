---------------------------- MODULE EmissionProofs ----------------------------
(***************************************************************************)
(* What is shuffled, summed and counted over the ids: the indices stay a   *)
(* permutation and each reveal takes ones that are left, the multiple of   *)
(* an account is the sum over its warriors, and its count is the number of *)
(* them.  Then the balances, which only time makes grow.                   *)
(***************************************************************************)
EXTENDS ZeroWarriorProofs, Sequences

(* The indices *)

IndexInv == idx \in IdxType /\ randomSeed \in Seeds /\ Permuted(idx)

\* The shuffle as it stands before a call of revealWarrior.
Before == [idx |-> idx, seed |-> randomSeed, last |-> lastRevealedId]

LEMMA RoomForRound ==
  ASSUME MintInv, RoundInv
  PROVE  /\ lastRevealedId \in Nat /\ toBeRevealed \in Nat /\ FIRST_LEGENDARY_APE_ID \in Nat
         /\ lastRevealedId + toBeRevealed <= FIRST_LEGENDARY_APE_ID - 1
<1>1. lastRevealedId + toBeRevealed <= currentNonLegendaryId
      /\ lastRevealedId \in Nat /\ toBeRevealed \in Nat
  BY DEF RoundInv, RoundCommitted
<1>2. currentNonLegendaryId < FIRST_LEGENDARY_APE_ID
  BY MintInvWithinShares DEF SupplyWithinShares
<1>3. currentNonLegendaryId \in Nat
  BY ClaimsCounted, SupplyNumbers DEF MintInv
<1>4. FIRST_LEGENDARY_APE_ID \in Nat
  BY FirstLegendaryNat
<1> QED
  BY <1>1, <1>2, <1>3, <1>4

\* One call of revealWarrior, whatever round it is in.
LEMMA RevealDraws ==
  ASSUME MintInv, RoundInv, IndexInv, NEW n \in BatchSizes, revealWarrior(n)
  PROVE  /\ n \in Nat /\ n <= toBeRevealed
         /\ idx' \in IdxType /\ randomSeed' \in Seeds /\ Permuted(idx')
         /\ \A id \in 1..lastRevealedId : idx'[id] = idx[id]
         /\ idx' = Draws(Before, n).idx
<1>1. n \in Nat
  BY ZeroWarriorAssumption
<1>2. n <= toBeRevealed /\ idx' = Draws(Before, n).idx /\ randomSeed' = Draws(Before, n).seed
  BY DEF revealWarrior, Before
<1>3. lastRevealedId \in 0..(FIRST_LEGENDARY_APE_ID - 1)
      /\ lastRevealedId + n <= FIRST_LEGENDARY_APE_ID - 1
  BY <1>1, <1>2, RoomForRound
<1>4. Before \in State /\ Before.idx = idx /\ Before.last = lastRevealedId
  BY <1>3 DEF Before, State, IndexInv
<1>5. /\ Draws(Before, n) \in State
      /\ Permuted(Draws(Before, n).idx)
      /\ \A id \in 1..Before.last : Draws(Before, n).idx[id] = Before.idx[id]
  BY <1>1, <1>3, <1>4, DrawsPermute DEF IndexInv
<1>6. Draws(Before, n).idx \in IdxType /\ Draws(Before, n).seed \in Seeds
  BY <1>5 DEF State
<1> QED
  BY <1>1, <1>2, <1>4, <1>5, <1>6

LEMMA IndexChanges ==
  [Next]_vars => \/ UNCHANGED <<idx, randomSeed>>
                 \/ \E r \in requests, s \in Seeds : fulfillRandomness(r, s)
                 \/ \E n \in BatchSizes : revealWarrior(n)
BY DEF Next, WarriorNext, vars, warriorVars, revealVars, claimWarrior, mintFromZero, mintReservedWarrior, Tick,
       mintLegendaryWarrior, requestRandomSeed, upgradeRandProvider, transferFrom, withdraw, moveAll,
       approveWarrior, setWarriorApprovalForAll, addZero, removeZero, burnZeroForZeroName,
       payForZeroName, transferZero

LEMMA IndexStep == MintInv /\ RoundInv /\ IndexInv /\ [Next]_vars => IndexInv'
<1> SUFFICES ASSUME MintInv, RoundInv, IndexInv, [Next]_vars PROVE IndexInv'
  OBVIOUS
<1>1. CASE UNCHANGED <<idx, randomSeed>>
  BY <1>1 DEF IndexInv, Permuted, IndexOf
<1>2. ASSUME NEW r \in requests, NEW s \in Seeds, fulfillRandomness(r, s) PROVE IndexInv'
  <2>1. idx' = idx
    BY <1>2 DEF fulfillRandomness, warriorVars
  <2>2. randomSeed' = s \/ randomSeed' = randomSeed
    BY <1>2 DEF fulfillRandomness, acceptRandomSeed
  <2> QED
    BY <2>1, <2>2 DEF IndexInv, Permuted, IndexOf
<1>3. ASSUME NEW n \in BatchSizes, revealWarrior(n) PROVE IndexInv'
  <2>1. idx' \in IdxType /\ randomSeed' \in Seeds /\ Permuted(idx')
    BY <1>3, RevealDraws
  <2> QED
    BY <2>1 DEF IndexInv, Permuted, IndexOf
<1> QED
  BY <1>1, <1>2, <1>3, IndexChanges

LEMMA IndexInit == Init => IndexInv
<1> SUFFICES ASSUME Init PROVE IndexInv
  OBVIOUS
<1>1. idx = [id \in Ids |-> 0] /\ randomSeed = 0 /\ 0 \in Seeds
  BY SeedAssumption DEF Init
<1>2. NonLegendaryIds \subseteq Ids
  BY FirstLegendaryNat
<1>3. \A id \in NonLegendaryIds : IndexOf(idx, id) = id
  BY <1>1, <1>2 DEF IndexOf
<1> QED
  BY <1>1, <1>3 DEF IndexInv, IdxType, Permuted

LEMMA IndicesInvariant == Spec => [](MintInv /\ RoundInv /\ IndexInv)
<1>1. Init => MintInv /\ RoundInv /\ IndexInv
  BY MintInit, RoundInit, IndexInit
<1>2. MintInv /\ RoundInv /\ IndexInv /\ [Next]_vars => (MintInv /\ RoundInv /\ IndexInv)'
  BY MintStep, RoundStep, IndexStep
<1> QED
  BY <1>1, <1>2, PTL DEF Spec

(***************************************************************************)
(* IndicesPermuted: no two ordinary ids ever share an index, whatever the  *)
(* seeds and however the reveals are cut into rounds and batches.          *)
(***************************************************************************)
THEOREM IndicesArePermuted == Spec => []IndicesPermuted
<1>1. IndexInv => IndicesPermuted
  BY DEF IndexInv, Permuted, IndicesPermuted
<1> QED
  BY <1>1, IndicesInvariant, PTL
-------------------------------------------------------------------------------
(* The multiples *)

\* The ids that can have a multiple: the revealed and the legendary ones.
MayEarn(id) ==
  \/ id \in 1..lastRevealedId
  \/ id \in FIRST_LEGENDARY_APE_ID..(FIRST_LEGENDARY_APE_ID + numSold - 1)

EmissionInv ==
  /\ emissionMultiple \in [Ids -> Nat]
  /\ userMultiple \in [Holders -> Nat]
  /\ \A id \in Ids : emissionMultiple[id] # 0 => MayEarn(id)
  /\ EmissionConserved

\* What a proof about one step starts from.
CoreInv == MintInv /\ RoundInv /\ AuctionInv /\ OwnerInv /\ IndexInv

LEMMA CoreStep == CoreInv /\ [Next]_vars => CoreInv'
BY MintStep, RoundStep, AuctionStep, OwnersStep, IndexStep DEF CoreInv, OwnersKept

LEMMA IdsFinite ==
  ASSUME NEW S \in SUBSET Ids
  PROVE  IsFiniteSet(S)
<1>1. IsFiniteSet(Ids)
  BY FS_Interval, SupplyAssumption DEF Ids
<1> QED
  BY <1>1, FS_Subset

LEMMA EmissionNat ==
  ASSUME EmissionInv, NEW S \in SUBSET Ids
  PROVE  SumFunctionOnSet(emissionMultiple, S) \in Nat
<1>1. IsFiniteSet(S) /\ \A id \in S : emissionMultiple[id] \in Nat
  BY IdsFinite DEF EmissionInv
<1> QED
  BY <1>1, SumNat

LEMMA MayEarnGrows ==
  ASSUME CoreInv, [Next]_vars
  PROVE  \A id \in Ids : MayEarn(id) => MayEarn(id)'
<1>1. lastRevealedId \in Nat /\ lastRevealedId' \in Nat /\ lastRevealedId <= lastRevealedId'
  <2>1. \/ lastRevealedId' = lastRevealedId
        \/ \E n \in BatchSizes : lastRevealedId' = lastRevealedId + n
    BY DEF Next, WarriorNext, vars, revealVars, claimWarrior, mintFromZero, mintReservedWarrior, Tick,
           mintLegendaryWarrior, requestRandomSeed, fulfillRandomness, upgradeRandProvider,
           revealWarrior, transferFrom, withdraw, moveAll, approveWarrior,
           setWarriorApprovalForAll, addZero, removeZero, burnZeroForZeroName, payForZeroName,
           transferZero
  <2>2. BatchSizes \subseteq Nat /\ lastRevealedId \in Nat
    BY ZeroWarriorAssumption DEF CoreInv, RoundInv
  <2> QED
    BY <2>1, <2>2
<1>2. numSold \in Nat /\ numSold' \in Nat /\ numSold <= numSold' /\ FIRST_LEGENDARY_APE_ID \in Nat
  <2>1. ASSUME NEW user \in Users, NEW burned \in SUBSET (OwnedBy(user) \cap NonLegendaryIds),
               mintLegendaryWarrior(user, burned)
        PROVE  numSold' = numSold + 1
    BY <2>1 DEF mintLegendaryWarrior
  <2>2. numSold' = numSold \/ numSold' = numSold + 1
    BY <2>1, AuctionChanges DEF auctionVars
  <2>3. numSold \in Nat /\ FIRST_LEGENDARY_APE_ID \in Nat
    BY SupplyNumbers, FirstLegendaryNat DEF CoreInv, AuctionInv
  <2> QED
    BY <2>2, <2>3
<1> QED
  BY <1>1, <1>2 DEF MayEarn

\* Ids past the revealed and below the legendary ones earn nothing yet.
LEMMA NothingEarned ==
  ASSUME CoreInv, EmissionInv, NEW id \in Ids, id > lastRevealedId, id < FIRST_LEGENDARY_APE_ID
  PROVE  emissionMultiple[id] = 0
<1>1. lastRevealedId \in Nat /\ FIRST_LEGENDARY_APE_ID \in Nat /\ id \in Nat
  BY FirstLegendaryNat, SupplyAssumption DEF CoreInv, RoundInv, Ids
<1>2. ~MayEarn(id)
  BY <1>1 DEF MayEarn
<1> QED
  BY <1>2 DEF EmissionInv

\* Ids that earn nothing may change hands freely.
LEMMA EmissionUnmoved ==
  ASSUME CoreInv, EmissionInv, [Next]_vars, UNCHANGED <<emissionMultiple, userMultiple>>,
         \A id \in Ids : owner'[id] = owner[id] \/ emissionMultiple[id] = 0
  PROVE  EmissionInv'
<1>1. \A id \in Ids : emissionMultiple'[id] # 0 => MayEarn(id)'
  BY MayEarnGrows DEF EmissionInv
<1>2. ASSUME NEW a \in Accounts
      PROVE  userMultiple'[a] = SumFunctionOnSet(emissionMultiple', {id \in Ids : owner'[id] = a})
  <2> DEFINE S == {id \in Ids : owner[id] = a}
             T == {id \in Ids : owner'[id] = a}
  <2>1. userMultiple[a] = SumFunctionOnSet(emissionMultiple, S)
    BY DEF EmissionInv, EmissionConserved, EmissionOf, OwnedBy
  <2>2. S \in SUBSET Ids /\ T \in SUBSET Ids
    OBVIOUS
  <2>3. \A id \in S \cup T : id \notin S \cap T => emissionMultiple[id] = 0
    OBVIOUS
  <2>4. \A id \in S \cup T : emissionMultiple[id] \in Nat
    BY DEF EmissionInv
  <2> HIDE DEF S, T
  <2>5. SumFunctionOnSet(emissionMultiple, S) = SumFunctionOnSet(emissionMultiple, T)
    BY <2>2, <2>3, <2>4, IdsFinite, SumSame
  <2> QED
    BY <2>1, <2>5 DEF T
<1>3. EmissionConserved'
  BY <1>2 DEF EmissionConserved, EmissionOf, OwnedBy
<1> QED
  BY <1>1, <1>3 DEF EmissionInv

LEMMA EmissionMoved ==
  ASSUME CoreInv, EmissionInv, [Next]_vars,
         NEW from \in Accounts, NEW to \in Accounts, NEW ids \in SUBSET OwnedBy(from),
         moveAll(from, to, ids)
  PROVE  EmissionInv'
<1> DEFINE Sum(S) == SumFunctionOnSet(emissionMultiple, S)
           Had(a) == {id \in Ids : owner[id] = a}
           Has(a) == {id \in Ids : owner'[id] = a}
<1>1. /\ owner' = [id \in Ids |-> IF id \in ids THEN to ELSE owner[id]]
      /\ emissionMultiple' = emissionMultiple
      /\ userMultiple' = [a \in Holders |-> userMultiple[a] - (IF a = from THEN EmissionOf(ids) ELSE 0)
                                                         + (IF a = to THEN EmissionOf(ids) ELSE 0)]
  BY DEF moveAll, warriorVars, moved, EmissionInv
<1>2. ids \in SUBSET Ids /\ ids \subseteq Had(from)
  BY DEF OwnedBy
<1>3. \A a \in Accounts : Had(a) \in SUBSET Ids /\ Has(a) \in SUBSET Ids /\ userMultiple[a] = Sum(Had(a))
  BY DEF EmissionInv, EmissionConserved, EmissionOf, OwnedBy
<1>4. from \in Holders /\ to \in Holders /\ Accounts \subseteq Holders
  BY Parties
<1>5. EmissionOf(ids) = Sum(ids) /\ Sum(ids) \in Nat
  BY <1>2, EmissionNat DEF EmissionOf
<1>6. \A S, T \in SUBSET Ids : S \cap T = {} => Sum(S \cup T) = Sum(S) + Sum(T)
  <2> SUFFICES ASSUME NEW S \in SUBSET Ids, NEW T \in SUBSET Ids, S \cap T = {}
               PROVE  Sum(S \cup T) = Sum(S) + Sum(T)
    OBVIOUS
  <2>1. \A id \in S \cup T : emissionMultiple[id] \in Nat
    BY DEF EmissionInv
  <2> QED
    BY <2>1, IdsFinite, SumUnion
<1>7. \A S \in SUBSET Ids : Sum(S) \in Nat
  BY EmissionNat
<1> HIDE DEF Sum
<1>8. userMultiple[from] = Sum(Had(from) \ ids) + Sum(ids)
  <2>1. Had(from) = (Had(from) \ ids) \cup ids /\ (Had(from) \ ids) \cap ids = {}
    BY <1>2
  <2>2. Had(from) \ ids \in SUBSET Ids
    BY <1>2
  <2> HIDE DEF Had
  <2> QED
    BY <1>2, <1>3, <1>6, <2>1, <2>2
<1>9. Sum(Had(from) \ ids) \in Nat
  <2>1. Had(from) \ ids \in SUBSET Ids
    OBVIOUS
  <2> QED
    BY <1>7, <2>1
<1>10. CASE from = to
  <2>1. userMultiple' = userMultiple
    <3>1. userMultiple \in [Holders -> Nat]
      BY DEF EmissionInv
    <3>2. EmissionOf(ids) \in Nat
      BY <1>5
    <3>3. \A a \in Holders : userMultiple'[a] = userMultiple[a]
      BY <1>1, <1>10, <3>1, <3>2
    <3>4. userMultiple' = [a \in Holders |-> userMultiple'[a]]
          /\ userMultiple = [a \in Holders |-> userMultiple[a]]
      BY <1>1, <3>1
    <3> QED
      BY <3>3, <3>4
  <2>2. \A id \in Ids : owner'[id] = owner[id]
    BY <1>1, <1>2, <1>10
  <2> QED
    BY <1>1, <2>1, <2>2, EmissionUnmoved
<1>11. CASE from # to
  <2>1. /\ userMultiple'[from] = Sum(Had(from) \ ids)
        /\ userMultiple'[to] = userMultiple[to] + Sum(ids)
        /\ \A a \in Holders : a # from /\ a # to => userMultiple'[a] = userMultiple[a]
    <3>1. userMultiple \in [Holders -> Nat]
      BY DEF EmissionInv
    <3>2. userMultiple'[from] = userMultiple[from] - Sum(ids)
      BY <1>1, <1>4, <1>5, <1>11, <3>1
    <3> QED
      BY <1>1, <1>4, <1>5, <1>8, <1>9, <1>11, <3>1, <3>2
  <2>2. /\ Has(from) = Had(from) \ ids
        /\ Has(to) = Had(to) \cup ids /\ Had(to) \cap ids = {}
        /\ \A a \in Accounts : a # from /\ a # to => Has(a) = Had(a)
    BY <1>1, <1>2, <1>11
  <2>3. \A a \in Accounts : userMultiple'[a] = Sum(Has(a))
    <3> HIDE DEF Had, Has
    <3>1. Sum(Had(to) \cup ids) = Sum(Had(to)) + Sum(ids)
      BY <1>2, <1>3, <1>6, <2>2
    <3> SUFFICES ASSUME NEW a \in Accounts PROVE userMultiple'[a] = Sum(Has(a))
      OBVIOUS
    <3>2. CASE a = from
      BY <2>1, <2>2, <3>2
    <3>3. CASE a = to
      BY <1>3, <2>1, <2>2, <3>1, <3>3
    <3>4. CASE a # from /\ a # to
      BY <1>3, <1>4, <2>1, <2>2, <3>4
    <3> QED
      BY <3>2, <3>3, <3>4
  <2>4. userMultiple' \in [Holders -> Nat]
    <3>1. userMultiple \in [Holders -> Nat]
      BY DEF EmissionInv
    <3>2. \A a \in Holders : userMultiple'[a] \in Nat
      BY <1>4, <1>5, <1>9, <2>1, <3>1
    <3>3. userMultiple' = [a \in Holders |-> userMultiple'[a]]
      BY <1>1, <3>1
    <3> QED
      BY <3>2, <3>3
  <2>5. EmissionConserved'
    BY <1>1, <2>3 DEF EmissionConserved, EmissionOf, OwnedBy, Sum
  <2>6. \A id \in Ids : emissionMultiple'[id] # 0 => MayEarn(id)'
    BY <1>1, MayEarnGrows DEF EmissionInv
  <2> QED
    BY <1>1, <2>4, <2>5, <2>6 DEF EmissionInv
<1> QED
  BY <1>10, <1>11
\* The id a legendary is minted with is none of the burned and has no owner.
LEMMA LegendaryFresh ==
  ASSUME CoreInv, [Next]_vars,
         NEW user \in Users, NEW burned \in SUBSET (OwnedBy(user) \cap NonLegendaryIds),
         mintLegendaryWarrior(user, burned)
  PROVE  LET w == FIRST_LEGENDARY_APE_ID + numSold
         IN  w \in Ids /\ w \notin burned /\ owner[w] = NoOne
<1> DEFINE w == FIRST_LEGENDARY_APE_ID + numSold
<1>1. /\ FIRST_LEGENDARY_APE_ID \in Nat /\ FIRST_LEGENDARY_APE_ID >= 1 /\ numSold \in Nat
      /\ currentNonLegendaryId \in Nat /\ currentNonLegendaryId < FIRST_LEGENDARY_APE_ID
  BY FirstLegendaryNat, MintedIds DEF CoreInv
<1>2. numSold \in 0..LEGENDARY_SUPPLY /\ LEGENDARY_SUPPLY \in Nat
      /\ MAX_SUPPLY = FIRST_LEGENDARY_APE_ID + LEGENDARY_SUPPLY - 1
  BY SupplyNumbers DEF CoreInv, AuctionInv
<1>3. numSold # LEGENDARY_SUPPLY
  BY DEF mintLegendaryWarrior, LegendaryAuctionOpen
<1>4. w \in Ids
  BY <1>1, <1>2, <1>3 DEF Ids
<1>5. w \notin NonLegendaryIds
  BY <1>1 DEF NonLegendaryIds
<1>6. ~Minted(w)
  BY <1>1 DEF Minted
<1> QED
  BY <1>4, <1>5, <1>6 DEF CoreInv, OwnerInv, NoOwnerNoApproval

\* A legendary takes twice the emission of what is burned for it, half of it
\* from the multiple its buyer already had.
LEMMA EmissionBurned ==
  ASSUME CoreInv, EmissionInv, [Next]_vars,
         NEW user \in Users, NEW burned \in SUBSET (OwnedBy(user) \cap NonLegendaryIds),
         mintLegendaryWarrior(user, burned)
  PROVE  EmissionInv'
<1> DEFINE Had(a) == {id \in Ids : owner[id] = a}
           Has(a) == {id \in Ids : owner'[id] = a}
<1>1. PICK w : w = FIRST_LEGENDARY_APE_ID + numSold
  OBVIOUS
<1>2. PICK half : half = SumFunctionOnSet(emissionMultiple, burned)
  OBVIOUS
<1>3. /\ owner' = [id \in Ids |-> IF id \in burned THEN NoOne
                                  ELSE IF id = w THEN user ELSE owner[id]]
      /\ emissionMultiple' = [emissionMultiple EXCEPT ![w] = 2 * half]
      /\ userMultiple' = [userMultiple EXCEPT ![user] = @ + half]
      /\ numSold' = numSold + 1 /\ numSold # LEGENDARY_SUPPLY
  BY <1>1, <1>2 DEF mintLegendaryWarrior, LegendaryAuctionOpen, EmissionOf
<1>4. FIRST_LEGENDARY_APE_ID \in Nat /\ numSold \in Nat
  BY MintedIds DEF CoreInv
<1>5. w \in Ids /\ w \notin burned /\ owner[w] = NoOne
  BY <1>1, LegendaryFresh
<1>6. burned \in SUBSET Ids /\ burned \subseteq Had(user) /\ user \in Accounts /\ user # NoOne
  BY Parties DEF OwnedBy
<1>7. half \in Nat
  BY <1>2, <1>6, EmissionNat
<1>8. /\ emissionMultiple' \in [Ids -> Nat]
      /\ emissionMultiple'[w] = 2 * half
      /\ \A id \in Ids : id # w => emissionMultiple'[id] = emissionMultiple[id]
  BY <1>3, <1>5, <1>7 DEF EmissionInv
<1>9. /\ userMultiple' \in [Holders -> Nat]
      /\ userMultiple'[user] = userMultiple[user] + half
      /\ \A a \in Holders : a # user => userMultiple'[a] = userMultiple[a]
  BY <1>3, <1>6, <1>7, Parties DEF EmissionInv
<1>10. \A a \in Accounts :
         /\ Had(a) \in SUBSET Ids /\ w \notin Had(a)
         /\ userMultiple[a] = SumFunctionOnSet(emissionMultiple, Had(a))
  BY <1>5, Parties DEF EmissionInv, EmissionConserved, EmissionOf, OwnedBy
<1>11. /\ Has(user) = (Had(user) \ burned) \cup {w}
       /\ \A a \in Accounts : a # user => Has(a) = Had(a)
  BY <1>3, <1>5, <1>6, Parties
<1> HIDE DEF Had, Has
\* Off the legendary, the sums are those of the state before.
<1>12. ASSUME NEW S \in SUBSET Ids, w \notin S
       PROVE  SumFunctionOnSet(emissionMultiple', S) = SumFunctionOnSet(emissionMultiple, S)
  <2>1. IsFiniteSet(S) /\ \A id \in S : emissionMultiple'[id] = emissionMultiple[id]
    BY <1>8, <1>12, IdsFinite
  <2> QED
    BY <2>1, SumCongruent
<1>13. userMultiple'[user] = SumFunctionOnSet(emissionMultiple', Has(user))
  <2> DEFINE Kept == Had(user) \ burned
  <2>1. Kept \in SUBSET Ids /\ w \notin Kept /\ Kept \cap burned = {} /\ Had(user) = Kept \cup burned
        /\ (Kept \cup {w}) \ {w} = Kept
    BY <1>6, <1>10
  <2>2. Has(user) = Kept \cup {w}
    BY <1>11
  <2> HIDE DEF Kept
  <2>3. SumFunctionOnSet(emissionMultiple, Had(user)) = SumFunctionOnSet(emissionMultiple, Kept) + half
    <3>1. \A id \in Kept \cup burned : emissionMultiple[id] \in Nat
      BY <1>6, <2>1 DEF EmissionInv
    <3>2. IsFiniteSet(Kept) /\ IsFiniteSet(burned)
      BY <1>6, <2>1, IdsFinite
    <3> QED
      BY <1>2, <2>1, <3>1, <3>2, SumUnion
  <2>4. SumFunctionOnSet(emissionMultiple', Kept \cup {w})
          = emissionMultiple'[w] + SumFunctionOnSet(emissionMultiple', Kept)
    <3>1. Kept \cup {w} \in SUBSET Ids
      BY <1>5, <2>1
    <3>2. IsFiniteSet(Kept \cup {w}) /\ \A id \in Kept \cup {w} : emissionMultiple'[id] \in Nat
      BY <1>8, <3>1, IdsFinite
    <3> HIDE <1>12
    <3>3. SumFunctionOnSet(emissionMultiple', Kept \cup {w})
            = emissionMultiple'[w] + SumFunctionOnSet(emissionMultiple', (Kept \cup {w}) \ {w})
      BY <3>2, SumRemove
    <3> QED
      BY <2>1, <3>3
  <2>5. SumFunctionOnSet(emissionMultiple', Kept) = SumFunctionOnSet(emissionMultiple, Kept)
    BY <1>12, <2>1
  <2>6. SumFunctionOnSet(emissionMultiple, Kept) \in Nat
    BY <2>1, EmissionNat
  <2> QED
    BY <1>6, <1>7, <1>8, <1>9, <1>10, <2>2, <2>3, <2>4, <2>5, <2>6
<1>14. ASSUME NEW a \in Accounts, a # user
       PROVE  userMultiple'[a] = SumFunctionOnSet(emissionMultiple', Has(a))
  BY <1>9, <1>10, <1>11, <1>12, <1>14, Parties
<1>15. EmissionConserved'
  BY <1>13, <1>14 DEF EmissionConserved, EmissionOf, OwnedBy, Has
<1>16. ASSUME NEW id \in Ids, emissionMultiple'[id] # 0
       PROVE  MayEarn(id)'
  <2>1. CASE id = w
    BY <1>1, <1>3, <1>4, <2>1 DEF MayEarn
  <2>2. CASE id # w
    BY <1>8, <1>16, <2>2, MayEarnGrows DEF EmissionInv
  <2> QED
    BY <2>1, <2>2
<1> QED
  BY <1>8, <1>9, <1>15, <1>16 DEF EmissionInv
LEMMA MultipleNat ==
  ASSUME NEW index
  PROVE  MultipleOf(index) \in Nat
<1> DEFINE Above == {bound \in TierBounds : index < bound}
<1>1. Cardinality(Above) <= Cardinality(TierBounds) /\ Cardinality(Above) \in Nat
      /\ Cardinality(TierBounds) \in Nat
  BY ZeroWarriorAssumption, FS_Subset, FS_CardinalityType
<1>2. TopMultiple \in Nat /\ Cardinality(TierBounds) <= TopMultiple
  BY ZeroWarriorAssumption
<1> QED
  BY <1>1, <1>2 DEF MultipleOf

\* The ids a call of revealWarrior reveals are ordinary ids nothing revealed yet.
LEMMA RevealedIds ==
  ASSUME CoreInv, EmissionInv, NEW n \in BatchSizes, revealWarrior(n),
         NEW id \in (lastRevealedId + 1)..(lastRevealedId + n)
  PROVE  /\ id \in Ids /\ id > lastRevealedId /\ id < FIRST_LEGENDARY_APE_ID
         /\ emissionMultiple[id] = 0
<1>1. n \in Nat /\ n <= toBeRevealed
  BY RevealDraws DEF CoreInv
<1>2. /\ lastRevealedId \in Nat /\ toBeRevealed \in Nat /\ FIRST_LEGENDARY_APE_ID \in Nat
      /\ lastRevealedId + toBeRevealed <= FIRST_LEGENDARY_APE_ID - 1
  BY RoomForRound DEF CoreInv
<1>3. FIRST_LEGENDARY_APE_ID - 1 <= MAX_SUPPLY /\ MAX_SUPPLY \in Nat
  BY FirstLegendaryNat
<1>4. id \in Ids /\ id > lastRevealedId /\ id < FIRST_LEGENDARY_APE_ID
  BY <1>1, <1>2, <1>3 DEF Ids
<1> QED
  BY <1>4, NothingEarned

\* A reveal gives each owner what its ids earn from then on.
LEMMA EmissionRevealed ==
  ASSUME CoreInv, EmissionInv, [Next]_vars, NEW n \in BatchSizes, revealWarrior(n)
  PROVE  EmissionInv'
<1> DEFINE Had(a) == {id \in Ids : owner[id] = a}
           index(id) == Draws(Before, n).idx[id]
<1>1. PICK revealed : revealed = (lastRevealedId + 1)..(lastRevealedId + n)
  OBVIOUS
<1>2. PICK new : new = emissionMultiple'
  OBVIOUS
<1>3. /\ owner' = owner
      /\ new = [id \in Ids |-> IF id \in revealed THEN MultipleOf(index(id))
                                                  ELSE emissionMultiple[id]]
      /\ lastRevealedId' = lastRevealedId + n
  BY <1>1, <1>2 DEF revealWarrior, erc721Vars, Before
<1>4. userMultiple' = [a \in Holders |-> userMultiple[a]
                         + SumFunctionOnSet(new, revealed \cap OwnedBy(a))]
  BY <1>1, <1>2 DEF revealWarrior
<1>5. revealed \in SUBSET Ids /\ \A id \in revealed : emissionMultiple[id] = 0
  BY <1>1, RevealedIds
<1>6. new \in [Ids -> Nat] /\ \A id \in Ids : id \notin revealed => new[id] = emissionMultiple[id]
  <2> HIDE DEF index
  <2>1. \A id \in Ids : emissionMultiple[id] \in Nat
    BY DEF EmissionInv
  <2> QED
    BY <1>3, <2>1, MultipleNat
<1>7. \A S \in SUBSET Ids : SumFunctionOnSet(new, S) \in Nat
  <2> SUFFICES ASSUME NEW S \in SUBSET Ids PROVE SumFunctionOnSet(new, S) \in Nat
    OBVIOUS
  <2>1. IsFiniteSet(S) /\ \A id \in S : new[id] \in Nat
    BY <1>6, IdsFinite
  <2> QED
    BY <2>1, SumNat
<1>8. userMultiple' \in [Holders -> Nat]
  <2>1. \A a \in Holders : userMultiple[a] \in Nat
    BY DEF EmissionInv
  <2>2. \A a \in Holders : SumFunctionOnSet(new, revealed \cap OwnedBy(a)) \in Nat
    BY <1>5, <1>7
  <2> QED
    BY <1>4, <2>1, <2>2
<1>9. ASSUME NEW a \in Accounts
      PROVE  userMultiple'[a] = SumFunctionOnSet(new, Had(a))
  <2> DEFINE O == Had(a)
             Shown == revealed \cap O
             Rest  == O \ revealed
  <2>1. Shown \in SUBSET Ids /\ Rest \in SUBSET Ids /\ O \in SUBSET Ids
        /\ Shown \cap Rest = {} /\ O = Shown \cup Rest
    BY <1>5
  <2>2. \A id \in O \cup Rest : id \notin O \cap Rest => emissionMultiple[id] = 0
    BY <1>5
  <2>3. \A id \in Rest : new[id] = emissionMultiple[id]
    BY <1>6
  <2>4. userMultiple'[a] = userMultiple[a] + SumFunctionOnSet(new, Shown)
    BY <1>4, Parties DEF OwnedBy
  <2>5. userMultiple[a] = SumFunctionOnSet(emissionMultiple, O)
    BY DEF EmissionInv, EmissionConserved, EmissionOf, OwnedBy
  <2> HIDE DEF O, Shown, Rest
  <2>6. \A S \in SUBSET Ids : IsFiniteSet(S) /\ \A id \in S : emissionMultiple[id] \in Nat
    BY IdsFinite DEF EmissionInv
  <2>7. SumFunctionOnSet(emissionMultiple, O) = SumFunctionOnSet(emissionMultiple, Rest)
    <3>1. \A id \in O \cup Rest : emissionMultiple[id] \in Nat
      BY <2>1, <2>6
    <3> QED
      BY <2>1, <2>2, <2>6, <3>1, SumSame
  <2>8. SumFunctionOnSet(new, Rest) = SumFunctionOnSet(emissionMultiple, Rest)
    BY <2>1, <2>3, <2>6, SumCongruent
  <2>9. SumFunctionOnSet(new, Shown \cup Rest)
          = SumFunctionOnSet(new, Shown) + SumFunctionOnSet(new, Rest)
    <3>1. \A id \in Shown \cup Rest : new[id] \in Nat
      BY <1>6, <2>1
    <3> QED
      BY <2>1, <2>6, <3>1, SumUnion
  <2>10. SumFunctionOnSet(new, Shown) \in Nat /\ SumFunctionOnSet(new, Rest) \in Nat
    BY <1>7, <2>1
  <2>11. SumFunctionOnSet(new, O) = SumFunctionOnSet(new, Shown \cup Rest)
    BY <2>1
  <2>12. userMultiple'[a] = SumFunctionOnSet(new, O)
    BY <2>4, <2>5, <2>7, <2>8, <2>9, <2>10, <2>11
  <2> QED
    BY <2>12 DEF O
<1>10. EmissionConserved'
  BY <1>2, <1>3, <1>9 DEF EmissionConserved, EmissionOf, OwnedBy
<1>11. ASSUME NEW id \in Ids, new[id] # 0
       PROVE  MayEarn(id)'
  <2>1. CASE id \in revealed
    <3>1. lastRevealedId \in Nat /\ n \in Nat
      BY RevealDraws DEF CoreInv, RoundInv
    <3> QED
      BY <1>1, <1>3, <2>1, <3>1 DEF MayEarn
  <2>2. CASE id \notin revealed
    BY <1>6, <1>11, <2>2, MayEarnGrows DEF EmissionInv
  <2> QED
    BY <2>1, <2>2
<1> QED
  BY <1>2, <1>6, <1>8, <1>10, <1>11 DEF EmissionInv
\* The ids a step mints have no owner and are past every revealed one.
LEMMA FreshIds ==
  ASSUME CoreInv, [Next]_vars, NEW id \in (currentNonLegendaryId + 1)..currentNonLegendaryId'
  PROVE  /\ id \in Ids /\ owner[id] = NoOne
         /\ id > lastRevealedId /\ id < FIRST_LEGENDARY_APE_ID
<1>1. /\ currentNonLegendaryId \in Nat /\ currentNonLegendaryId' \in Nat
      /\ currentNonLegendaryId' < FIRST_LEGENDARY_APE_ID /\ FIRST_LEGENDARY_APE_ID \in Nat
  BY MintedIds DEF CoreInv
<1>2. /\ lastRevealedId \in Nat /\ toBeRevealed \in Nat
      /\ lastRevealedId + toBeRevealed <= currentNonLegendaryId
  BY DEF CoreInv, RoundInv, RoundCommitted
<1>3. FIRST_LEGENDARY_APE_ID - 1 <= MAX_SUPPLY /\ MAX_SUPPLY \in Nat
  BY FirstLegendaryNat
<1>4. id \in Ids /\ id > lastRevealedId /\ id < FIRST_LEGENDARY_APE_ID
  BY <1>1, <1>2, <1>3 DEF Ids
<1>5. ~Minted(id)
  BY <1>1, <1>4 DEF Minted
<1> QED
  BY <1>4, <1>5 DEF CoreInv, OwnerInv, NoOwnerNoApproval

\* The ways in which owners, counts and multiples change.
LEMMA OwnerChanges ==
  ASSUME CoreInv, [Next]_vars
  PROVE  \/ UNCHANGED <<owner, warriorOwned, emissionMultiple, userMultiple>>
         \/ /\ \E user \in Users : mint(user, currentNonLegendaryId + 1)
            /\ currentNonLegendaryId' = currentNonLegendaryId + 1
            /\ UNCHANGED <<emissionMultiple, userMultiple>>
         \/ \E n \in BatchSizes :
              /\ batchMintEach(n, currentNonLegendaryId)
              /\ currentNonLegendaryId' = currentNonLegendaryId + 2 * n
              /\ UNCHANGED <<emissionMultiple, userMultiple>>
         \/ \E user \in Users : \E burned \in SUBSET (OwnedBy(user) \cap NonLegendaryIds) :
              mintLegendaryWarrior(user, burned)
         \/ \E n \in BatchSizes : revealWarrior(n)
         \/ \E from \in Accounts, to \in Accounts : \E ids \in SUBSET OwnedBy(from) :
              moveAll(from, to, ids)
<1> DEFINE Same == UNCHANGED <<owner, warriorOwned, emissionMultiple, userMultiple>>
           Earned == UNCHANGED <<emissionMultiple, userMultiple>>
           Moved == \E from \in Accounts, to \in Accounts : \E ids \in SUBSET OwnedBy(from) :
                      moveAll(from, to, ids)
<1>1. ASSUME NEW user \in Users, claimWarrior(user)
      PROVE  mint(user, currentNonLegendaryId + 1) /\ Earned
             /\ currentNonLegendaryId' = currentNonLegendaryId + 1
  BY <1>1 DEF claimWarrior, warriorVars, userVars
<1>2. ASSUME NEW user \in Users, NEW maxPrice \in MaxPrices, NEW useVirtualBalance \in BOOLEAN,
             mintFromZero(user, maxPrice, useVirtualBalance)
      PROVE  mint(user, currentNonLegendaryId + 1) /\ Earned
             /\ currentNonLegendaryId' = currentNonLegendaryId + 1
  BY <1>2 DEF mintFromZero, decreaseUserZeroBalance, setUserZeroBalance, warriorVars, userVars
<1>3. ASSUME NEW n \in BatchSizes, mintReservedWarrior(n)
      PROVE  batchMintEach(n, currentNonLegendaryId) /\ Earned
             /\ currentNonLegendaryId' = currentNonLegendaryId + 2 * n
  BY <1>3 DEF mintReservedWarrior, warriorVars, userVars
<1>4. ASSUME NEW caller \in Users, NEW to \in Recipients, NEW id \in Ids, transferFrom(caller, to, id)
      PROVE  Moved
  <2>1. owner[id] # NoOne /\ owner[id] \in Holders
    BY <1>4, Parties DEF transferFrom, MayMove, CoreInv, OwnerInv, NoOwnerNoApproval
  <2>2. owner[id] \in Accounts /\ to \in Accounts /\ {id} \in SUBSET OwnedBy(owner[id])
    BY <2>1, Parties DEF Holders, OwnedBy
  <2>3. moveAll(owner[id], to, {id})
    BY <1>4 DEF transferFrom
  <2> HIDE DEF Moved
  <2>4. \E from \in Accounts, t \in Accounts : \E ids \in SUBSET OwnedBy(from) : moveAll(from, t, ids)
    BY <2>2, <2>3
  <2> QED
    BY <2>4 DEF Moved
<1>5. ASSUME NEW reserve \in Reserves, NEW to \in Recipients, NEW ids \in SUBSET OwnedBy(reserve),
             withdraw(reserve, to, ids)
      PROVE  Moved
  BY <1>5, Parties DEF withdraw, Reserves
<1>6. ASSUME NEW caller \in Users, NEW spender \in Spenders, NEW id \in Ids,
             approveWarrior(caller, spender, id)
      PROVE  Same
  BY <1>6 DEF approveWarrior, approve, warriorVars, userVars
<1>7. ASSUME NEW caller \in Users, NEW operator \in Spenders \cap Users, NEW approved \in BOOLEAN,
             setWarriorApprovalForAll(caller, operator, approved)
      PROVE  Same
  BY <1>7 DEF setWarriorApprovalForAll, setApprovalForAll, warriorVars, userVars
<1>8. ASSUME NEW user \in Users, NEW amount \in Amounts,
             \/ addZero(user, amount) \/ removeZero(user, amount)
             \/ burnZeroForZeroName(user, amount) \/ payForZeroName(user, amount)
      PROVE  Same
  BY <1>8 DEF addZero, removeZero, burnZeroForZeroName, payForZeroName, increaseUserZeroBalance,
              decreaseUserZeroBalance, setUserZeroBalance, erc721Vars, warriorVars, userVars
<1>9. ASSUME \/ Tick \/ requestRandomSeed
             \/ \E request \in requests, randomness \in Seeds : fulfillRandomness(request, randomness)
             \/ \E newRandProvider \in Providers : upgradeRandProvider(newRandProvider)
             \/ \E from, to \in Users, amount \in Amounts : transferZero(from, to, amount)
             \/ UNCHANGED vars
      PROVE  Same
  BY <1>9 DEF Tick, requestRandomSeed, fulfillRandomness, upgradeRandProvider, transferZero, vars,
              erc721Vars, warriorVars, userVars
<1> HIDE DEF Same, Earned, Moved
<1>10. \/ Same
       \/ /\ \E user \in Users : mint(user, currentNonLegendaryId + 1)
          /\ currentNonLegendaryId' = currentNonLegendaryId + 1
          /\ Earned
       \/ \E n \in BatchSizes :
            /\ batchMintEach(n, currentNonLegendaryId)
            /\ currentNonLegendaryId' = currentNonLegendaryId + 2 * n
            /\ Earned
       \/ \E user \in Users : \E burned \in SUBSET (OwnedBy(user) \cap NonLegendaryIds) :
            mintLegendaryWarrior(user, burned)
       \/ \E n \in BatchSizes : revealWarrior(n)
       \/ Moved
  BY <1>1, <1>2, <1>3, <1>4, <1>5, <1>6, <1>7, <1>8, <1>9 DEF Next, WarriorNext
<1> QED
  BY <1>10 DEF Same, Earned, Moved
LEMMA EmissionStep ==
  ASSUME CoreInv, EmissionInv, [Next]_vars
  PROVE  EmissionInv'
<1>1. CASE UNCHANGED <<owner, warriorOwned, emissionMultiple, userMultiple>>
  BY <1>1, EmissionUnmoved
<1>2. ASSUME NEW user \in Users, mint(user, currentNonLegendaryId + 1),
             currentNonLegendaryId' = currentNonLegendaryId + 1,
             UNCHANGED <<emissionMultiple, userMultiple>>
      PROVE  EmissionInv'
  <2>1. owner' = [owner EXCEPT ![currentNonLegendaryId + 1] = user]
    BY <1>2 DEF mint
  <2>2. currentNonLegendaryId + 1 \in (currentNonLegendaryId + 1)..currentNonLegendaryId'
    BY <1>2, MintedIds DEF CoreInv
  <2>3. emissionMultiple[currentNonLegendaryId + 1] = 0
    BY <2>2, FreshIds, NothingEarned
  <2>4. \A id \in Ids : owner'[id] = owner[id] \/ emissionMultiple[id] = 0
    BY <2>1, <2>3 DEF CoreInv, OwnerInv
  <2> QED
    BY <1>2, <2>4, EmissionUnmoved
<1>3. ASSUME NEW n \in BatchSizes, batchMintEach(n, currentNonLegendaryId),
             currentNonLegendaryId' = currentNonLegendaryId + 2 * n,
             UNCHANGED <<emissionMultiple, userMultiple>>
      PROVE  EmissionInv'
  <2> DEFINE c == currentNonLegendaryId
  <2>1. owner' = [id \in Ids |-> IF id \in (c + 1)..(c + n) THEN Team
                                 ELSE IF id \in (c + n + 1)..(c + 2 * n) THEN Community
                                 ELSE owner[id]]
    BY <1>3 DEF batchMintEach
  <2>2. n \in Nat /\ c \in Nat /\ c' = c + 2 * n
    BY <1>3, ZeroWarriorAssumption, MintedIds DEF CoreInv
  <2>3. \A id \in Ids : owner'[id] # owner[id] => id \in (c + 1)..c'
    BY <2>1, <2>2 DEF Ids
  <2>4. \A id \in Ids : owner'[id] = owner[id] \/ emissionMultiple[id] = 0
    BY <2>3, FreshIds, NothingEarned
  <2> QED
    BY <1>3, <2>4, EmissionUnmoved
<1> QED
  BY <1>1, <1>2, <1>3, EmissionBurned, EmissionRevealed, EmissionMoved, OwnerChanges

LEMMA CoreInit == Init => CoreInv
BY MintInit, RoundInit, AuctionInit, OwnersInit, IndexInit DEF CoreInv

LEMMA EmissionInit == Init => EmissionInv
<1> SUFFICES ASSUME Init PROVE EmissionInv
  OBVIOUS
<1>1. /\ emissionMultiple = [id \in Ids |-> 0]
      /\ userMultiple = [a \in Holders |-> 0]
  BY DEF Init
<1>2. ASSUME NEW a \in Accounts
      PROVE  userMultiple[a] = SumFunctionOnSet(emissionMultiple, OwnedBy(a))
  <2>1. OwnedBy(a) \in SUBSET Ids
    BY DEF OwnedBy
  <2>2. IsFiniteSet(OwnedBy(a)) /\ \A id \in OwnedBy(a) : emissionMultiple[id] = 0
    BY <1>1, <2>1, IdsFinite
  <2> QED
    BY <1>1, <2>2, SumZero, Parties
<1> QED
  BY <1>1, <1>2 DEF EmissionInv, EmissionConserved, EmissionOf

LEMMA EmissionInvariant == Spec => [](CoreInv /\ EmissionInv)
<1>1. Init => CoreInv /\ EmissionInv
  BY CoreInit, EmissionInit
<1>2. CoreInv /\ EmissionInv /\ [Next]_vars => (CoreInv /\ EmissionInv)'
  BY CoreStep, EmissionStep
<1> QED
  BY <1>1, <1>2, PTL DEF Spec

(***************************************************************************)
(* EmissionConserved: an account earns with what its warriors earn, after  *)
(* every reveal, transfer, withdrawal and legendary burn.                  *)
(***************************************************************************)
THEOREM EmissionIsConserved == Spec => []EmissionConserved
<1>1. EmissionInv => EmissionConserved
  BY DEF EmissionInv
<1> QED
  BY <1>1, EmissionInvariant, PTL

(***************************************************************************)
(* RevealedForGood: nothing changes the index or the multiple of an id     *)
(* once it is revealed.                                                    *)
(***************************************************************************)
THEOREM RevealsLast == Spec => RevealedForGood
<1> DEFINE Kept == \A id \in 1..lastRevealedId : /\ idx'[id] = idx[id]
                                                 /\ emissionMultiple'[id] = emissionMultiple[id]
<1>1. CoreInv /\ EmissionInv /\ [Next]_vars => Kept
  <2> SUFFICES ASSUME CoreInv, EmissionInv, [Next]_vars, NEW id \in 1..lastRevealedId
               PROVE  idx'[id] = idx[id] /\ emissionMultiple'[id] = emissionMultiple[id]
    OBVIOUS
  <2>1. idx'[id] = idx[id]
    <3>1. CASE UNCHANGED <<idx, randomSeed>>
      BY <3>1
    <3>2. ASSUME NEW r \in requests, NEW s \in Seeds, fulfillRandomness(r, s) PROVE idx'[id] = idx[id]
      BY <3>2 DEF fulfillRandomness, warriorVars
    <3>3. ASSUME NEW n \in BatchSizes, revealWarrior(n) PROVE idx'[id] = idx[id]
      BY <3>3, RevealDraws DEF CoreInv
    <3> QED
      BY <3>1, <3>2, <3>3, IndexChanges
  <2>2. /\ id \in Ids /\ id <= lastRevealedId /\ id < FIRST_LEGENDARY_APE_ID
        /\ lastRevealedId \in Nat /\ FIRST_LEGENDARY_APE_ID \in Nat /\ numSold \in Nat
    BY RoomForRound, FirstLegendaryNat, SupplyNumbers DEF CoreInv, AuctionInv, Ids
  <2>3. ASSUME NEW user \in Users, NEW burned \in SUBSET (OwnedBy(user) \cap NonLegendaryIds),
               mintLegendaryWarrior(user, burned)
        PROVE  emissionMultiple'[id] = emissionMultiple[id]
    <3>1. PICK w : w = FIRST_LEGENDARY_APE_ID + numSold
      OBVIOUS
    <3>2. PICK both : both = 2 * EmissionOf(burned)
      OBVIOUS
    <3>3. emissionMultiple' = [emissionMultiple EXCEPT ![w] = both]
      BY <2>3, <3>1, <3>2 DEF mintLegendaryWarrior
    <3> QED
      BY <2>2, <3>1, <3>3 DEF EmissionInv
  <2>4. ASSUME NEW n \in BatchSizes, revealWarrior(n)
        PROVE  emissionMultiple'[id] = emissionMultiple[id]
    <3>2. id \notin (lastRevealedId + 1)..(lastRevealedId + n)
      BY <2>2, <2>4, RevealDraws DEF CoreInv
    <3> QED
      BY <2>2, <2>4, <3>2 DEF revealWarrior
  <2>5. ASSUME NEW from \in Accounts, NEW to \in Accounts, NEW ids \in SUBSET OwnedBy(from),
               moveAll(from, to, ids)
        PROVE  emissionMultiple'[id] = emissionMultiple[id]
    BY <2>5 DEF moveAll, warriorVars
  <2>6. ASSUME UNCHANGED emissionMultiple
        PROVE  emissionMultiple'[id] = emissionMultiple[id]
    BY <2>6
  <2>7. emissionMultiple'[id] = emissionMultiple[id]
    BY <2>3, <2>4, <2>5, <2>6, OwnerChanges
  <2> QED
    BY <2>1, <2>7
<1>2. CoreInv /\ EmissionInv /\ [Next]_vars => [Kept]_vars
  BY <1>1
<1> QED
  BY <1>2, EmissionInvariant, PTL DEF Spec, RevealedForGood

\* The indices of the ids revealed so far.
Drawn == [id \in 1..lastRevealedId |-> IndexOf(idx, id)]

DrawnWell ==
  Drawn \in [1..lastRevealedId -> 1..(FIRST_LEGENDARY_APE_ID - 1)] /\ Reveals!Distinct(Drawn)

LEMMA DrawnDistinct == MintInv /\ RoundInv /\ IndexInv => DrawnWell
<1> SUFFICES ASSUME MintInv, RoundInv, IndexInv PROVE DrawnWell
  OBVIOUS
<1>1. 1..lastRevealedId \subseteq NonLegendaryIds
  BY RoomForRound DEF NonLegendaryIds
<1>2. \A i, j \in NonLegendaryIds :
        /\ IndexOf(idx, i) \in NonLegendaryIds
        /\ IndexOf(idx, i) = IndexOf(idx, j) => i = j
  BY DEF IndexInv, Permuted
<1> QED
  BY <1>1, <1>2 DEF DrawnWell, Drawn, Reveals!Distinct, NonLegendaryIds

LEMMA DrawnDistinctNext == MintInv' /\ RoundInv' /\ IndexInv' => DrawnWell'
BY DrawnDistinct, PTL

LEMMA MintOrReveal ==
  [Next]_vars => \/ UNCHANGED <<lastRevealedId, idx>>
                 \/ /\ currentNonLegendaryId' = currentNonLegendaryId
                    /\ \E n \in BatchSizes : revealWarrior(n) /\ lastRevealedId' = lastRevealedId + n
BY DEF Next, WarriorNext, vars, warriorVars, revealVars, supplyVars, claimWarrior, mintFromZero,
       mintReservedWarrior, Tick, mintLegendaryWarrior, requestRandomSeed, fulfillRandomness,
       acceptRandomSeed, revealWarrior, upgradeRandProvider, transferFrom, withdraw, moveAll,
       approveWarrior, setWarriorApprovalForAll, addZero, removeZero, burnZeroForZeroName,
       payForZeroName, transferZero

LEMMA RevealStep ==
  ASSUME CoreInv, CoreInv', [Next]_vars
  PROVE  [Reveals!Next]_(Reveals!vars)
<1>1. /\ currentNonLegendaryId \in Nat /\ currentNonLegendaryId' \in Nat
      /\ currentNonLegendaryId <= currentNonLegendaryId'
      /\ currentNonLegendaryId' < FIRST_LEGENDARY_APE_ID /\ FIRST_LEGENDARY_APE_ID \in Nat
  BY MintedIds, FirstLegendaryNat DEF CoreInv
<1>2. CASE UNCHANGED <<lastRevealedId, idx>>
  <2>1. Drawn' = Drawn
    BY <1>2 DEF Drawn, IndexOf
  <2>2. CASE currentNonLegendaryId' = currentNonLegendaryId
    BY <2>1, <2>2 DEF Reveals!vars, Drawn
  <2>3. CASE currentNonLegendaryId' # currentNonLegendaryId
    <3>1. currentNonLegendaryId' \in currentNonLegendaryId + 1..FIRST_LEGENDARY_APE_ID - 1
      BY <1>1, <2>3
    <3> QED
      BY <2>1, <3>1 DEF Reveals!Next, Reveals!Mint, Drawn
  <2> QED
    BY <2>2, <2>3
<1>3. ASSUME NEW n \in BatchSizes, revealWarrior(n), lastRevealedId' = lastRevealedId + n,
             currentNonLegendaryId' = currentNonLegendaryId
      PROVE  [Reveals!Next]_(Reveals!vars)
  <2>1. n \in Nat /\ \A id \in 1..lastRevealedId : idx'[id] = idx[id]
    BY <1>3, RevealDraws DEF CoreInv
  <2>2. CASE n = 0
    <3>1. lastRevealedId' = lastRevealedId
      BY <1>3, <2>2, RoomForRound DEF CoreInv
    <3>2. Drawn' = Drawn
      BY <2>1, <3>1 DEF Drawn, IndexOf
    <3> QED
      BY <1>3, <3>2 DEF Reveals!vars, Drawn
  <2>3. CASE n # 0
    <3>1. lastRevealedId \in Nat /\ lastRevealedId' \in lastRevealedId + 1..currentNonLegendaryId
      <4>1. lastRevealedId' \in Nat /\ lastRevealedId' <= currentNonLegendaryId'
        <5>1. RoundInv'
          BY DEF CoreInv
        <5>2. /\ lastRevealedId' \in Nat /\ toBeRevealed' \in Nat
              /\ lastRevealedId' + toBeRevealed' <= currentNonLegendaryId'
          BY <5>1 DEF RoundInv, RoundCommitted
        <5>3. currentNonLegendaryId' \in Nat
          BY <1>1
        <5>4. ASSUME NEW a \in Nat, NEW b \in Nat, NEW c \in Nat, a + b <= c PROVE a <= c
          BY <5>4
        <5> QED
          BY <5>2, <5>3, <5>4
      <4>2. lastRevealedId \in Nat
        BY RoomForRound DEF CoreInv
      <4> QED
        BY <1>1, <1>3, <2>1, <2>3, <4>1, <4>2
    <3>2. Drawn' \in [1..lastRevealedId' -> 1..(FIRST_LEGENDARY_APE_ID - 1)] /\ Reveals!Distinct(Drawn')
      BY DrawnDistinctNext DEF CoreInv, DrawnWell
    <3>3. Len(Drawn) = lastRevealedId /\ DOMAIN Drawn = 1..lastRevealedId
      BY <3>1 DEF Drawn
    <3>4. \A i \in DOMAIN Drawn : Drawn'[i] = Drawn[i]
      BY <2>1, <3>1, <3>3 DEF Drawn, IndexOf
    <3> QED
      BY <1>3, <3>1, <3>2, <3>3, <3>4 DEF Reveals!Next, Reveals!Reveal, Drawn
  <2> QED
    BY <2>2, <2>3
<1> QED
  BY <1>2, <1>3, MintOrReveal

(***************************************************************************)
(* RefinesReveal: whatever mints, reveals, requests, answers and upgrades  *)
(* come in between, the collection reveals what was minted, in order, each *)
(* id with an index that no id before it has, for good.                    *)
(***************************************************************************)
THEOREM RevealIsRefined == Spec => RefinesReveal
<1>1. Init => Reveals!Init
  <2> SUFFICES ASSUME Init PROVE Reveals!Init
    OBVIOUS
  <2>1. currentNonLegendaryId = 0 /\ lastRevealedId = 0
    BY DEF Init
  <2>2. [id \in 1..lastRevealedId |-> IndexOf(idx, id)] = <<>>
    BY <2>1
  <2> QED
    BY <2>1, <2>2 DEF Reveals!Init
<1>2. CoreInv /\ CoreInv' /\ [Next]_vars => [Reveals!Next]_(Reveals!vars)
  BY RevealStep
<1>3. Spec => []CoreInv
  BY EmissionInvariant, PTL
<1> QED
  BY <1>1, <1>2, <1>3, PTL DEF Spec, RefinesReveal, Reveals!Spec

-------------------------------------------------------------------------------
(* The counts *)

CountInv == warriorOwned \in [Holders -> Int] /\ OwnedCounted

LEMMA CardinalityOfGain ==
  ASSUME NEW S \in SUBSET Ids, NEW gained \in SUBSET Ids, gained \cap S = {}
  PROVE  /\ Cardinality(S) \in Nat
         /\ Cardinality(S \cup gained) = Cardinality(S) + Cardinality(gained)
<1>1. IsFiniteSet(S) /\ IsFiniteSet(gained)
  BY IdsFinite, FS_Subset
<1>2. Cardinality(S) \in Nat /\ Cardinality(gained) \in Nat
  BY <1>1, FS_CardinalityType
<1>3. Cardinality(S \cup gained) = Cardinality(S) + Cardinality(gained) - Cardinality(S \cap gained)
  BY <1>1, FS_Union
<1>4. S \cap gained = {}
  OBVIOUS
<1>5. Cardinality({}) = 0
  BY FS_EmptySet
<1>6. Cardinality(S \cap gained) = 0
  BY <1>4, <1>5
<1> QED
  BY <1>2, <1>3, <1>6

LEMMA CardinalityOfChange ==
  ASSUME NEW S \in SUBSET Ids, NEW lost \in SUBSET S, NEW gained \in SUBSET Ids, gained \cap S = {}
  PROVE  /\ Cardinality(S) \in Nat /\ Cardinality(lost) \in Nat /\ Cardinality(gained) \in Nat
         /\ Cardinality((S \ lost) \cup gained)
              = Cardinality(S) - Cardinality(lost) + Cardinality(gained)
<1>1. IsFiniteSet(S) /\ IsFiniteSet(lost) /\ IsFiniteSet(gained)
  BY IdsFinite, FS_Subset
<1>2. IsFiniteSet(S \ lost) /\ Cardinality(S \ lost) = Cardinality(S) - Cardinality(S \cap lost)
  BY <1>1, FS_Difference
<1>3. Cardinality((S \ lost) \cup gained)
        = Cardinality(S \ lost) + Cardinality(gained) - Cardinality((S \ lost) \cap gained)
  BY <1>1, <1>2, FS_Union
<1>4. S \cap lost = lost /\ (S \ lost) \cap gained = {}
  OBVIOUS
<1>5. Cardinality({}) = 0
  BY FS_EmptySet
<1>6. Cardinality(S) \in Nat /\ Cardinality(lost) \in Nat /\ Cardinality(gained) \in Nat
  BY <1>1, FS_CardinalityType
<1>7. Cardinality(S \ lost) = Cardinality(S) - Cardinality(lost)
  BY <1>2, <1>4
<1>8. Cardinality((S \ lost) \cap gained) = 0
  BY <1>4, <1>5
<1> QED
  BY <1>3, <1>6, <1>7, <1>8

LEMMA CountMinted ==
  ASSUME CoreInv, CountInv, [Next]_vars, NEW user \in Users,
         mint(user, currentNonLegendaryId + 1), currentNonLegendaryId' = currentNonLegendaryId + 1
  PROVE  CountInv'
<1> DEFINE Had(a) == {id \in Ids : owner[id] = a}
           Has(a) == {id \in Ids : owner'[id] = a}
<1>1. PICK new : new = currentNonLegendaryId + 1
  OBVIOUS
<1>2. owner' = [owner EXCEPT ![new] = user] /\ warriorOwned' = [warriorOwned EXCEPT ![user] = @ + 1]
  BY <1>1 DEF mint
<1>3. new \in Ids /\ owner[new] = NoOne
  <2>1. currentNonLegendaryId + 1 \in (currentNonLegendaryId + 1)..currentNonLegendaryId'
    BY MintedIds DEF CoreInv
  <2> QED
    BY <1>1, <2>1, FreshIds
<1>4. owner \in [Ids -> Holders] /\ warriorOwned \in [Holders -> Int]
      /\ \A a \in Accounts : warriorOwned[a] = Cardinality(Had(a))
  BY DEF CoreInv, OwnerInv, CountInv, OwnedCounted, OwnedBy
<1>5. user \in Accounts /\ user \in Holders /\ Accounts \subseteq Holders /\ NoOne \notin Accounts
  BY Parties
<1>6. warriorOwned' \in [Holders -> Int]
  BY <1>2, <1>4, <1>5
<1>7. Has(user) = Had(user) \cup {new} /\ Had(user) \in SUBSET Ids /\ {new} \cap Had(user) = {}
      /\ \A a \in Accounts : a # user => Has(a) = Had(a)
  BY <1>2, <1>3, <1>4, <1>5
<1>8. Cardinality(Had(user)) \in Nat /\ Cardinality({new}) = 1
      /\ Cardinality(Had(user) \cup {new}) = Cardinality(Had(user)) + Cardinality({new})
  <2> HIDE DEF Had
  <2>1. {new} \in SUBSET Ids
    BY <1>3
  <2> QED
    BY <1>7, <2>1, CardinalityOfGain, FS_Singleton
<1> HIDE DEF Had, Has
<1>9. Cardinality(Has(user)) = warriorOwned'[user]
  <2>1. Cardinality(Has(user)) = Cardinality(Had(user)) + 1
    BY <1>7, <1>8
  <2>2. warriorOwned'[user] = warriorOwned[user] + 1
    BY <1>2, <1>4, <1>5
  <2> QED
    BY <1>4, <1>5, <2>1, <2>2
<1>10. \A a \in Accounts : a # user => warriorOwned'[a] = Cardinality(Has(a))
  BY <1>2, <1>4, <1>5, <1>7
<1> QED
  BY <1>6, <1>9, <1>10 DEF CountInv, OwnedCounted, OwnedBy, Has

LEMMA CountBatched ==
  ASSUME CoreInv, CountInv, [Next]_vars, NEW n \in BatchSizes,
         batchMintEach(n, currentNonLegendaryId), currentNonLegendaryId' = currentNonLegendaryId + 2 * n
  PROVE  CountInv'
<1> DEFINE c == currentNonLegendaryId
           A == (c + 1)..(c + n)
           B == (c + n + 1)..(c + 2 * n)
           Had(a) == {id \in Ids : owner[id] = a}
           Has(a) == {id \in Ids : owner'[id] = a}
           ForTeam(a) == IF a = Team THEN A ELSE {}
           ForCommunity(a) == IF a = Community THEN B ELSE {}
           Count(a, reserve) == IF a = reserve THEN n ELSE 0
<1>1. /\ owner' = [id \in Ids |-> IF id \in A THEN Team ELSE IF id \in B THEN Community ELSE owner[id]]
      /\ warriorOwned' = [a \in Holders |-> warriorOwned[a] + Count(a, Team) + Count(a, Community)]
  BY DEF batchMintEach
<1>2. n \in Nat /\ c \in Nat /\ c' = c + 2 * n
  BY ZeroWarriorAssumption, MintedIds DEF CoreInv
<1>3. A \cap B = {} /\ A \cup B \subseteq (c + 1)..c'
      /\ Cardinality(A) = n /\ Cardinality(B) = n /\ Cardinality({}) = 0
  <2>1. Cardinality(A) = n
    BY <1>2, FS_Interval
  <2>2. Cardinality(B) = n
    <3>1. Cardinality(B) = IF c + n + 1 > c + 2 * n THEN 0 ELSE c + 2 * n - (c + n + 1) + 1
      BY <1>2, FS_Interval
    <3> QED
      BY <1>2, <3>1
  <2> QED
    BY <1>2, <2>1, <2>2, FS_EmptySet
<1>4. A \cup B \subseteq Ids /\ \A id \in A \cup B : owner[id] = NoOne
  BY <1>3, FreshIds
<1>5. owner \in [Ids -> Holders] /\ warriorOwned \in [Holders -> Int]
      /\ \A a \in Accounts : warriorOwned[a] = Cardinality(Had(a))
  BY DEF CoreInv, OwnerInv, CountInv, OwnedCounted, OwnedBy
<1>6. Team \in Holders /\ Community \in Holders /\ Accounts \subseteq Holders /\ NoOne \notin Accounts
  BY Parties
<1>7. /\ warriorOwned' \in [Holders -> Int]
      /\ \A a \in Holders :
           warriorOwned'[a] = warriorOwned[a] + Count(a, Team) + Count(a, Community)
  BY <1>1, <1>2, <1>5
<1> HIDE DEF A, B, c
<1>8. ASSUME NEW a \in Accounts
      PROVE  warriorOwned'[a] = Cardinality(Has(a))
  <2>1. warriorOwned'[a] = warriorOwned[a] + Count(a, Team) + Count(a, Community)
    BY <1>6, <1>7
  <2>2. Has(a) = Had(a) \cup (ForTeam(a) \cup ForCommunity(a))
    BY <1>1, <1>3, <1>4, <1>6
  <2>3. ForTeam(a) \cup ForCommunity(a) \in SUBSET Ids /\ (ForTeam(a) \cup ForCommunity(a)) \cap Had(a) = {}
        /\ ForTeam(a) \cap ForCommunity(a) = {} /\ Had(a) \in SUBSET Ids
        /\ ForTeam(a) \in SUBSET Ids /\ ForCommunity(a) \in SUBSET Ids
    BY <1>3, <1>4, <1>6
  <2>4. Cardinality(ForTeam(a)) = Count(a, Team) /\ Cardinality(ForCommunity(a)) = Count(a, Community)
    BY <1>3
  <2>5. warriorOwned[a] = Cardinality(Had(a))
    BY <1>5
  <2>6. Count(a, Team) \in Nat /\ Count(a, Community) \in Nat
    BY <1>2
  <2> HIDE DEF Had, Has, ForTeam, ForCommunity, Count
  <2>7. Cardinality(ForTeam(a) \cup ForCommunity(a)) = Count(a, Team) + Count(a, Community)
    <3>1. IsFiniteSet(ForTeam(a)) /\ IsFiniteSet(ForCommunity(a))
      BY <2>3, IdsFinite
    <3>2. Cardinality(ForTeam(a) \cup ForCommunity(a)) = Cardinality(ForTeam(a))
            + Cardinality(ForCommunity(a)) - Cardinality(ForTeam(a) \cap ForCommunity(a))
      BY <3>1, FS_Union
    <3>3. Cardinality(ForTeam(a) \cap ForCommunity(a)) = 0
      BY <1>3, <2>3
    <3> QED
      BY <2>4, <2>6, <3>2, <3>3
  <2>8. Cardinality(Had(a) \cup (ForTeam(a) \cup ForCommunity(a)))
          = Cardinality(Had(a)) + Cardinality(ForTeam(a) \cup ForCommunity(a))
        /\ Cardinality(Had(a)) \in Nat
    BY <2>3, CardinalityOfGain
  <2> QED
    BY <1>3, <2>1, <2>2, <2>5, <2>6, <2>7, <2>8
<1> QED
  BY <1>7, <1>8 DEF CountInv, OwnedCounted, OwnedBy

LEMMA CountBurned ==
  ASSUME CoreInv, CountInv, [Next]_vars,
         NEW user \in Users, NEW burned \in SUBSET (OwnedBy(user) \cap NonLegendaryIds),
         mintLegendaryWarrior(user, burned)
  PROVE  CountInv'
<1> DEFINE Had(a) == {id \in Ids : owner[id] = a}
           Has(a) == {id \in Ids : owner'[id] = a}
<1>1. PICK w : w = FIRST_LEGENDARY_APE_ID + numSold
  OBVIOUS
<1>2. PICK cost : cost = Cardinality(burned)
  OBVIOUS
<1>3. /\ owner' = [id \in Ids |-> IF id \in burned THEN NoOne
                                  ELSE IF id = w THEN user ELSE owner[id]]
      /\ warriorOwned' = [warriorOwned EXCEPT ![user] = @ - cost + 1]
  BY <1>1, <1>2 DEF mintLegendaryWarrior
<1>4. w \in Ids /\ w \notin burned /\ owner[w] = NoOne
  BY <1>1, LegendaryFresh
<1>5. owner \in [Ids -> Holders] /\ warriorOwned \in [Holders -> Int]
      /\ \A a \in Accounts : warriorOwned[a] = Cardinality(Had(a))
  BY DEF CoreInv, OwnerInv, CountInv, OwnedCounted, OwnedBy
<1>6. user \in Accounts /\ user \in Holders /\ Accounts \subseteq Holders /\ NoOne \notin Accounts
      /\ user # NoOne
  BY Parties
<1>7. Had(user) \in SUBSET Ids /\ burned \in SUBSET Had(user) /\ {w} \in SUBSET Ids
      /\ {w} \cap Had(user) = {}
  BY <1>4, <1>6 DEF OwnedBy
<1>8. /\ Has(user) = (Had(user) \ burned) \cup {w}
      /\ \A a \in Accounts : a # user => Has(a) = Had(a)
  BY <1>3, <1>4, <1>6, <1>7
<1> HIDE DEF Had, Has
<1>9. /\ Cardinality(Had(user)) \in Nat /\ cost \in Nat
      /\ Cardinality(Has(user)) = Cardinality(Had(user)) - cost + 1
  <2>1. Cardinality({w}) = 1
    BY FS_Singleton
  <2>2. Cardinality((Had(user) \ burned) \cup {w})
          = Cardinality(Had(user)) - Cardinality(burned) + Cardinality({w})
    BY <1>7, CardinalityOfChange
  <2>3. Cardinality(Had(user)) \in Nat /\ Cardinality(burned) \in Nat
    <3>1. IsFiniteSet(Had(user)) /\ IsFiniteSet(burned)
      BY <1>7, IdsFinite
    <3> QED
      BY <3>1, FS_CardinalityType
  <2> QED
    BY <1>2, <1>8, <2>1, <2>2, <2>3
<1>10. warriorOwned' \in [Holders -> Int]
  BY <1>3, <1>5, <1>6, <1>9
<1>11. warriorOwned'[user] = Cardinality(Has(user))
  BY <1>3, <1>5, <1>6, <1>9
<1>12. \A a \in Accounts : a # user => warriorOwned'[a] = Cardinality(Has(a))
  BY <1>3, <1>5, <1>6, <1>8
<1> QED
  BY <1>10, <1>11, <1>12 DEF CountInv, OwnedCounted, OwnedBy, Has

LEMMA CountMoved ==
  ASSUME CoreInv, CountInv, [Next]_vars,
         NEW from \in Accounts, NEW to \in Accounts, NEW ids \in SUBSET OwnedBy(from),
         moveAll(from, to, ids)
  PROVE  CountInv'
<1> DEFINE Had(a) == {id \in Ids : owner[id] = a}
           Has(a) == {id \in Ids : owner'[id] = a}
           Lost(a) == IF a = from THEN ids ELSE {}
           Gained(a) == IF a = to THEN ids ELSE {}
<1>1. PICK n : n = Cardinality(ids)
  OBVIOUS
<1>2. /\ owner' = [id \in Ids |-> IF id \in ids THEN to ELSE owner[id]]
      /\ warriorOwned' = [a \in Holders |-> warriorOwned[a] - (IF a = from THEN n ELSE 0)
                                                         + (IF a = to THEN n ELSE 0)]
  BY <1>1 DEF moveAll, moved, CountInv
<1>3. owner \in [Ids -> Holders] /\ warriorOwned \in [Holders -> Int]
      /\ \A a \in Accounts : warriorOwned[a] = Cardinality(Had(a))
  BY DEF CoreInv, OwnerInv, CountInv, OwnedCounted, OwnedBy
<1>4. Accounts \subseteq Holders
  BY Parties
<1>5. ids \in SUBSET Ids /\ ids \subseteq Had(from) /\ n \in Nat
  <2>1. ids \in SUBSET Ids /\ ids \subseteq Had(from)
    BY DEF OwnedBy
  <2> QED
    BY <1>1, <2>1, IdsFinite, FS_CardinalityType
<1>6. warriorOwned' \in [Holders -> Int]
  BY <1>2, <1>3, <1>5
<1>7. ASSUME NEW a \in Accounts
      PROVE  warriorOwned'[a] = Cardinality(Has(a))
  <2>1. Had(a) \in SUBSET Ids /\ Lost(a) \in SUBSET Had(a) /\ Gained(a) \in SUBSET Ids
    BY <1>5
  <2>2. Cardinality({}) = 0
    BY FS_EmptySet
  <2>3. CASE from = to
    <3>1. Has(a) = Had(a)
      BY <1>2, <1>5, <2>3
    <3>2. warriorOwned'[a] = warriorOwned[a]
      BY <1>2, <1>3, <1>4, <1>5, <2>3
    <3> QED
      BY <1>3, <3>1, <3>2
  <2>4. CASE from # to
    <3>1. Has(a) = (Had(a) \ Lost(a)) \cup Gained(a) /\ Gained(a) \cap Had(a) = {}
      BY <1>2, <1>5, <2>4
    <3>2. warriorOwned'[a] = warriorOwned[a] - Cardinality(Lost(a)) + Cardinality(Gained(a))
      BY <1>1, <1>2, <1>4, <2>2
    <3> HIDE DEF Had, Has, Lost, Gained
    <3>3. Cardinality((Had(a) \ Lost(a)) \cup Gained(a))
            = Cardinality(Had(a)) - Cardinality(Lost(a)) + Cardinality(Gained(a))
      BY <2>1, <3>1, CardinalityOfChange
    <3> QED
      BY <1>3, <3>1, <3>2, <3>3
  <2> QED
    BY <2>3, <2>4
<1> QED
  BY <1>6, <1>7 DEF CountInv, OwnedCounted, OwnedBy

LEMMA CountStep ==
  ASSUME CoreInv, CountInv, [Next]_vars
  PROVE  CountInv'
<1>1. CASE UNCHANGED <<owner, warriorOwned>>
  BY <1>1 DEF CountInv, OwnedCounted, OwnedBy
<1>2. ASSUME NEW n \in BatchSizes, revealWarrior(n) PROVE CountInv'
  BY <1>1, <1>2 DEF revealWarrior, erc721Vars
<1> QED
  BY <1>1, <1>2, CountMinted, CountBatched, CountBurned, CountMoved, OwnerChanges

LEMMA CountInit == Init => CountInv
<1> SUFFICES ASSUME Init PROVE CountInv
  OBVIOUS
<1>1. owner = [id \in Ids |-> NoOne] /\ warriorOwned = [a \in Holders |-> 0]
  BY DEF Init, ERC721Init
<1>2. \A a \in Accounts : OwnedBy(a) = {} /\ warriorOwned[a] = 0
  BY <1>1, Parties DEF OwnedBy
<1> QED
  BY <1>1, <1>2, FS_EmptySet DEF CountInv, OwnedCounted

(***************************************************************************)
(* OwnedCounted: balanceOf is the number of warriors an account owns.      *)
(***************************************************************************)
THEOREM OwnedAreCounted == Spec => []OwnedCounted
<1>1. Init => CoreInv /\ CountInv
  BY CoreInit, CountInit
<1>2. CoreInv /\ CountInv /\ [Next]_vars => (CoreInv /\ CountInv)'
  BY CoreStep, CountStep
<1>3. CountInv => OwnedCounted
  BY DEF CountInv
<1> QED
  BY <1>1, <1>2, <1>3, PTL DEF Spec

-------------------------------------------------------------------------------
(* Balances: every variable keeps its type, so no subtraction of the          *)
(* contracts goes below zero, and moving emission leaves every balance as it  *)
(* was at that moment.                                                        *)


\* The time of every snapshot is past, and its balance a natural.
BalanceInv ==
  /\ now \in 0..MaxNow
  /\ lastBalance \in [Holders -> Nat]
  /\ lastTimestamp \in [Holders -> 0..now]

\* The total supply is what its holders have.
TokenInv ==
  /\ balanceOf \in [Users -> Nat]
  /\ totalSupply = SumFunctionOnSet(balanceOf, Users)

RequestInv == RequestsTypeOK /\ randProvider \in Providers

LEMMA BalanceNat ==
  ASSUME BalanceInv, EmissionInv, NEW a \in Holders
  PROVE  zeroBalance(a) \in Nat
<1>1. lastBalance[a] \in Nat /\ userMultiple[a] \in Nat /\ now - lastTimestamp[a] \in Nat
  BY ZeroWarriorAssumption DEF BalanceInv, EmissionInv
<1>2. toDaysWad(now - lastTimestamp[a]) \in Nat
  BY <1>1, DaysNat
<1> QED
  BY <1>1, <1>2, BalanceNeverFalls DEF zeroBalance

LEMMA PriceNat ==
  ASSUME MintInv, BalanceInv, now >= mintStart
  PROVE  warriorPrice \in Nat
<1>1. now - mintStart \in 0..MaxNow /\ numMintedFromZero \in 0..MAX_MINTABLE
  BY ZeroWarriorAssumption DEF BalanceInv, MintInv
<1> QED
  BY <1>1, ZeroWarriorAssumption DEF warriorPrice

\* A snapshot leaves the balances it brings up to date, and the multiples may
\* then change.
LEMMA SnapshotKeeps ==
  ASSUME BalanceInv, EmissionInv, EmissionInv', now' = now,
         NEW accounts, snapshot(accounts),
         \A a \in Holders \ accounts : userMultiple'[a] = userMultiple[a]
  PROVE  \A a \in Holders : zeroBalance(a)' = zeroBalance(a)
<1> SUFFICES ASSUME NEW a \in Holders PROVE zeroBalance(a)' = zeroBalance(a)
  OBVIOUS
<1>1. zeroBalance(a)' = computeZEROBalance(userMultiple'[a], lastBalance'[a],
                                           toDaysWad(now' - lastTimestamp'[a]))
  BY DEF zeroBalance
<1>2. CASE a \in accounts
  <2>1. lastBalance'[a] = zeroBalance(a) /\ lastTimestamp'[a] = now
    BY <1>2 DEF snapshot
  <2>2. now \in Nat /\ now - now = 0
    BY ZeroWarriorAssumption DEF BalanceInv
  <2>3. toDaysWad(0) = 0
    BY DaysNat
  <2>4. zeroBalance(a)' = computeZEROBalance(userMultiple'[a], zeroBalance(a), 0)
    BY <1>1, <2>1, <2>2, <2>3
  <2>5. userMultiple'[a] \in Nat /\ zeroBalance(a) \in Nat
    BY BalanceNat DEF EmissionInv
  <2> QED
    BY <2>4, <2>5, BalanceNeverFalls
<1>3. CASE a \notin accounts
  <2>1. lastBalance'[a] = lastBalance[a] /\ lastTimestamp'[a] = lastTimestamp[a]
        /\ userMultiple'[a] = userMultiple[a]
    BY <1>3 DEF snapshot
  <2> QED
    BY <1>1, <2>1 DEF zeroBalance
<1> QED
  BY <1>2, <1>3

\* The three transactions that change a multiple take the snapshots they need.
LEMMA MovesSnapshot ==
  ASSUME CoreInv, BalanceInv, EmissionInv, [Next]_vars,
         \/ \E user \in Users : \E burned \in SUBSET (OwnedBy(user) \cap NonLegendaryIds) :
              mintLegendaryWarrior(user, burned)
         \/ \E n \in BatchSizes : revealWarrior(n)
         \/ \E from \in Accounts, to \in Accounts : \E ids \in SUBSET OwnedBy(from) :
              moveAll(from, to, ids)
  PROVE  \E accounts : /\ snapshot(accounts) /\ UNCHANGED <<now, zeroVars>>
                       /\ \A a \in Holders \ accounts : userMultiple'[a] = userMultiple[a]
<1>1. userMultiple \in [Holders -> Nat]
  BY DEF EmissionInv
<1>2. ASSUME NEW user \in Users, NEW burned \in SUBSET (OwnedBy(user) \cap NonLegendaryIds),
             mintLegendaryWarrior(user, burned)
      PROVE  /\ snapshot({user}) /\ UNCHANGED <<now, zeroVars>>
             /\ \A a \in Holders \ {user} : userMultiple'[a] = userMultiple[a]
  <2>1. snapshot({user}) /\ UNCHANGED <<now, zeroVars>>
        /\ userMultiple' = [userMultiple EXCEPT ![user] = @ + EmissionOf(burned)]
    BY <1>2 DEF mintLegendaryWarrior
  <2> QED
    BY <1>1, <2>1
<1>3. ASSUME NEW from \in Accounts, NEW to \in Accounts, NEW ids \in SUBSET OwnedBy(from),
             moveAll(from, to, ids)
      PROVE  /\ snapshot({from, to}) /\ UNCHANGED <<now, zeroVars>>
             /\ \A a \in Holders \ {from, to} : userMultiple'[a] = userMultiple[a]
  <2>1. snapshot({from, to}) /\ UNCHANGED <<now, zeroVars>>
        /\ userMultiple' = moved(userMultiple, from, to, EmissionOf(ids))
    BY <1>3 DEF moveAll
  <2> QED
    BY <1>1, <2>1 DEF moved
<1>4. ASSUME NEW n \in BatchSizes, revealWarrior(n)
      PROVE  \E accounts : /\ snapshot(accounts) /\ UNCHANGED <<now, zeroVars>>
                           /\ \A a \in Holders \ accounts : userMultiple'[a] = userMultiple[a]
  <2>1. PICK revealed : revealed = (lastRevealedId + 1)..(lastRevealedId + n)
    OBVIOUS
  <2>2. PICK accounts : accounts = {owner[id] : id \in revealed}
    OBVIOUS
  <2>3. /\ snapshot(accounts) /\ UNCHANGED <<now, zeroVars>>
        /\ userMultiple' = [a \in Holders |-> userMultiple[a]
                              + SumFunctionOnSet(emissionMultiple', revealed \cap OwnedBy(a))]
    BY <1>4, <2>1, <2>2 DEF revealWarrior
  <2>4. ASSUME NEW a \in Holders \ accounts PROVE userMultiple'[a] = userMultiple[a]
    <3>1. revealed \cap OwnedBy(a) = {}
      BY <2>2 DEF OwnedBy
    <3>2. SumFunctionOnSet(emissionMultiple', {}) = 0
      BY SumEmpty
    <3> QED
      BY <1>1, <2>3, <3>1, <3>2
  <2> QED
    BY <2>3, <2>4
<1> QED
  BY <1>2, <1>3, <1>4
\* The ways in which the virtual balances and the tokens change.
LEMMA BalanceChanges ==
  ASSUME CoreInv, BalanceInv, EmissionInv, [Next]_vars
  PROVE  \/ UNCHANGED <<lastBalance, lastTimestamp, zeroVars>> /\ now' \in {now, now + 1} \cap 0..MaxNow
         \/ \E accounts : /\ snapshot(accounts) /\ UNCHANGED <<now, zeroVars>>
                          /\ \A a \in Holders \ accounts : userMultiple'[a] = userMultiple[a]
         \/ \E user \in Users, amount \in Nat :
              /\ decreaseUserZeroBalance(user, amount)
              /\ UNCHANGED <<now, zeroVars>>
         \/ \E user \in Users, amount \in Nat :
              /\ burn(user, amount)
              /\ UNCHANGED <<now, userVars>>
         \/ \E user \in Users, amount \in Amounts : addZero(user, amount) \/ removeZero(user, amount)
         \/ \E from, to \in Users, amount \in Amounts : transferZero(from, to, amount)
<1> DEFINE Idle == UNCHANGED <<lastBalance, lastTimestamp, zeroVars>> /\ now' \in {now, now + 1} \cap 0..MaxNow
           Snapped == \E accounts :
                        /\ snapshot(accounts) /\ UNCHANGED <<now, zeroVars>>
                        /\ \A a \in Holders \ accounts : userMultiple'[a] = userMultiple[a]
           Decreased == \E user \in Users, amount \in Nat :
                          decreaseUserZeroBalance(user, amount) /\ UNCHANGED <<now, zeroVars>>
           Burned == \E user \in Users, amount \in Nat : burn(user, amount) /\ UNCHANGED <<now, userVars>>
<1>0. now \in Nat /\ now \in 0..MaxNow /\ MaxNow \in Nat /\ Amounts \subseteq Nat
  BY ZeroWarriorAssumption DEF BalanceInv
<1>1. ASSUME Tick PROVE Idle
  BY <1>0, <1>1 DEF Tick, userVars
<1>2. ASSUME UNCHANGED <<now, zeroVars, userVars>> PROVE Idle
  BY <1>0, <1>2 DEF userVars
<1>3. ASSUME NEW user \in Users, claimWarrior(user) PROVE Idle
  BY <1>2, <1>3 DEF claimWarrior
<1>4. ASSUME NEW user \in Users, NEW maxPrice \in MaxPrices, NEW useVirtualBalance \in BOOLEAN,
             mintFromZero(user, maxPrice, useVirtualBalance)
      PROVE  Decreased \/ Burned
  <2>1. warriorPrice \in Nat
    BY <1>4, PriceNat DEF mintFromZero, CoreInv
  <2>2. \/ decreaseUserZeroBalance(user, warriorPrice) /\ UNCHANGED <<now, zeroVars>>
        \/ burn(user, warriorPrice) /\ UNCHANGED <<now, userVars>>
    BY <1>4 DEF mintFromZero, burnForWarrior
  <2> QED
    BY <2>1, <2>2
<1>5. ASSUME NEW n \in BatchSizes, mintReservedWarrior(n) PROVE Idle
  BY <1>2, <1>5 DEF mintReservedWarrior
<1>6. ASSUME NEW user \in Users, NEW burned \in SUBSET (OwnedBy(user) \cap NonLegendaryIds),
             mintLegendaryWarrior(user, burned)
      PROVE  Snapped
  BY <1>6, MovesSnapshot
<1>7. ASSUME NEW n \in BatchSizes, revealWarrior(n) PROVE Snapped
  BY <1>7, MovesSnapshot
<1>8. ASSUME \/ requestRandomSeed
             \/ \E request \in requests, randomness \in Seeds : fulfillRandomness(request, randomness)
             \/ \E newRandProvider \in Providers : upgradeRandProvider(newRandProvider)
             \/ UNCHANGED vars
      PROVE  Idle
  BY <1>2, <1>8 DEF requestRandomSeed, fulfillRandomness, upgradeRandProvider, vars
<1>9. ASSUME NEW caller \in Users, NEW to \in Recipients, NEW id \in Ids, transferFrom(caller, to, id)
      PROVE  Snapped
  <2>1. owner[id] # NoOne /\ owner[id] \in Holders
    BY <1>9, Parties DEF transferFrom, MayMove, CoreInv, OwnerInv, NoOwnerNoApproval
  <2>2. owner[id] \in Accounts /\ to \in Accounts /\ {id} \in SUBSET OwnedBy(owner[id])
    BY <2>1, Parties DEF Holders, OwnedBy
  <2>3. moveAll(owner[id], to, {id})
    BY <1>9 DEF transferFrom
  <2> HIDE DEF Snapped
  <2>4. \E from \in Accounts, t \in Accounts : \E ids \in SUBSET OwnedBy(from) : moveAll(from, t, ids)
    BY <2>2, <2>3
  <2> QED
    BY <2>4, MovesSnapshot DEF Snapped
<1>10. ASSUME NEW reserve \in Reserves, NEW to \in Recipients, NEW ids \in SUBSET OwnedBy(reserve),
              withdraw(reserve, to, ids)
       PROVE  Snapped
  <2>1. reserve \in Accounts /\ to \in Accounts /\ moveAll(reserve, to, ids)
    BY <1>10, Parties DEF withdraw, Reserves
  <2> QED
    BY <2>1, MovesSnapshot
<1>11. ASSUME NEW caller \in Users, NEW spender \in Spenders, NEW id \in Ids,
              approveWarrior(caller, spender, id)
       PROVE  Idle
  BY <1>2, <1>11 DEF approveWarrior
<1>12. ASSUME NEW caller \in Users, NEW operator \in Spenders \cap Users, NEW approved \in BOOLEAN,
              setWarriorApprovalForAll(caller, operator, approved)
       PROVE  Idle
  BY <1>2, <1>12 DEF setWarriorApprovalForAll
<1>13. ASSUME NEW user \in Users, NEW amount \in Amounts, burnZeroForZeroName(user, amount)
       PROVE  Decreased
  BY <1>0, <1>13 DEF burnZeroForZeroName
<1>14. ASSUME NEW user \in Users, NEW amount \in Amounts, payForZeroName(user, amount)
       PROVE  Burned
  BY <1>0, <1>14 DEF payForZeroName, burnForZeroName
<1> HIDE DEF Idle, Snapped, Decreased, Burned
<1>15. \/ Idle \/ Snapped \/ Decreased \/ Burned
       \/ \E user \in Users, amount \in Amounts : addZero(user, amount) \/ removeZero(user, amount)
       \/ \E from, to \in Users, amount \in Amounts : transferZero(from, to, amount)
  <2>1. CASE UNCHANGED vars
    BY <1>8, <2>1
  <2>2. CASE Next
    BY <1>1, <1>3, <1>4, <1>5, <1>6, <1>7, <1>8, <1>9, <1>10, <1>11, <1>12, <1>13, <1>14, <2>2
    DEF Next, WarriorNext
  <2> QED
    BY <2>1, <2>2
<1> QED
  BY <1>15 DEF Idle, Snapped, Decreased, Burned

LEMMA BalanceStep ==
  ASSUME CoreInv, BalanceInv, EmissionInv, [Next]_vars
  PROVE  BalanceInv'
<1>1. /\ now \in Nat /\ MaxNow \in Nat /\ now \in 0..MaxNow /\ Amounts \subseteq Nat
      /\ lastBalance \in [Holders -> Nat] /\ lastTimestamp \in [Holders -> 0..now]
      /\ \A a \in Holders : zeroBalance(a) \in Nat
  BY ZeroWarriorAssumption, BalanceNat DEF BalanceInv
<1>2. Users \subseteq Holders
  BY Parties
<1>3. CASE UNCHANGED <<lastBalance, lastTimestamp, zeroVars>> /\ now' \in {now, now + 1} \cap 0..MaxNow
  <2>1. \A a \in Holders : lastTimestamp[a] \in 0..now'
    BY <1>1, <1>3
  <2> QED
    BY <1>1, <1>3, <2>1 DEF BalanceInv
<1>4. ASSUME NEW accounts, snapshot(accounts), now' = now PROVE BalanceInv'
  <2>1. \A a \in Holders : now \in 0..now /\ lastTimestamp[a] \in 0..now
    BY <1>1
  <2>2. lastBalance' \in [Holders -> Nat]
    BY <1>1, <1>4 DEF snapshot
  <2>3. lastTimestamp' \in [Holders -> 0..now]
    BY <2>1, <1>4 DEF snapshot
  <2> QED
    BY <1>1, <1>4, <2>2, <2>3 DEF BalanceInv
<1>5. ASSUME NEW user \in Users, NEW balance \in Nat, setUserZeroBalance(user, balance), now' = now
      PROVE  BalanceInv'
  <2>1. now \in 0..now
    BY <1>1
  <2>2. lastBalance' \in [Holders -> Nat] /\ lastTimestamp' \in [Holders -> 0..now]
    BY <1>1, <1>2, <1>5, <2>1 DEF setUserZeroBalance
  <2> QED
    BY <1>1, <1>5, <2>2 DEF BalanceInv
<1>6. ASSUME NEW user \in Users, NEW amount \in Nat, decreaseUserZeroBalance(user, amount), now' = now
      PROVE  BalanceInv'
  <2>1. zeroBalance(user) - amount \in Nat
    BY <1>1, <1>2, <1>6 DEF decreaseUserZeroBalance
  <2> QED
    BY <1>5, <1>6, <2>1 DEF decreaseUserZeroBalance
<1>7. ASSUME NEW user \in Users, NEW amount \in Amounts, addZero(user, amount)
      PROVE  BalanceInv'
  <2>1. zeroBalance(user) + amount \in Nat
    BY <1>1, <1>2
  <2> QED
    BY <1>5, <1>7, <2>1 DEF addZero, increaseUserZeroBalance
<1>8. ASSUME NEW user \in Users, NEW amount \in Amounts, removeZero(user, amount)
      PROVE  BalanceInv'
  BY <1>1, <1>6, <1>8 DEF removeZero
<1>9. ASSUME UNCHANGED <<now, userVars>> PROVE BalanceInv'
  BY <1>9 DEF BalanceInv, userVars
<1>10. ASSUME NEW from \in Users, NEW to \in Users, NEW amount \in Amounts, transferZero(from, to, amount)
       PROVE  BalanceInv'
  BY <1>9, <1>10 DEF transferZero
<1> QED
  BY <1>3, <1>4, <1>6, <1>7, <1>8, <1>9, <1>10, BalanceChanges-------------------------------------------------------------------------------
(* The token *)

LEMMA TokenBurned ==
  ASSUME TokenInv, NEW user \in Users, NEW amount \in Nat, burn(user, amount)
  PROVE  TokenInv'
<1>1. balanceOf[user] >= amount /\ balanceOf' = [balanceOf EXCEPT ![user] = @ - amount]
      /\ totalSupply' = totalSupply - amount
  BY DEF burn
<1>2. IsFiniteSet(Users) /\ balanceOf \in [Users -> Nat] /\ balanceOf' \in [Users -> Nat]
      /\ balanceOf'[user] = balanceOf[user] - amount
      /\ \A u \in Users : u # user => balanceOf'[u] = balanceOf[u]
  BY <1>1, AddressesAssumption DEF TokenInv
<1>3. /\ SumFunctionOnSet(balanceOf, Users) \in Nat /\ SumFunctionOnSet(balanceOf', Users) \in Nat
      /\ SumFunctionOnSet(balanceOf', Users) - balanceOf'[user]
           = SumFunctionOnSet(balanceOf, Users) - balanceOf[user]
  BY <1>2, SumUpdate
<1> QED
  BY <1>1, <1>2, <1>3 DEF TokenInv

LEMMA TokenMinted ==
  ASSUME TokenInv, NEW user \in Users, NEW amount \in Nat, mintForWarrior(user, amount)
  PROVE  TokenInv'
<1>1. balanceOf' = [balanceOf EXCEPT ![user] = @ + amount] /\ totalSupply' = totalSupply + amount
  BY DEF mintForWarrior
<1>2. IsFiniteSet(Users) /\ balanceOf \in [Users -> Nat] /\ balanceOf' \in [Users -> Nat]
      /\ balanceOf'[user] = balanceOf[user] + amount
      /\ \A u \in Users : u # user => balanceOf'[u] = balanceOf[u]
  BY <1>1, AddressesAssumption DEF TokenInv
<1>3. /\ SumFunctionOnSet(balanceOf, Users) \in Nat /\ SumFunctionOnSet(balanceOf', Users) \in Nat
      /\ SumFunctionOnSet(balanceOf', Users) - balanceOf'[user]
           = SumFunctionOnSet(balanceOf, Users) - balanceOf[user]
  BY <1>2, SumUpdate
<1> QED
  BY <1>1, <1>2, <1>3 DEF TokenInv

LEMMA TokenMoved ==
  ASSUME TokenInv, NEW from \in Users, NEW to \in Users, NEW amount \in Nat, transfer(from, to, amount)
  PROVE  TokenInv'
<1>1. balanceOf \in [Users -> Nat] /\ IsFiniteSet(Users) /\ balanceOf[from] >= amount
      /\ totalSupply' = totalSupply
  BY AddressesAssumption DEF TokenInv, transfer
<1>2. balanceOf' = [u \in Users |-> balanceOf[u] - (IF u = from THEN amount ELSE 0)
                                                 + (IF u = to THEN amount ELSE 0)]
  BY <1>1 DEF transfer, moved
<1>3. balanceOf' \in [Users -> Nat]
  BY <1>1, <1>2
<1>4. CASE from = to
  <2>1. \A u \in Users : balanceOf'[u] = balanceOf[u]
    BY <1>1, <1>2, <1>4
  <2>2. SumFunctionOnSet(balanceOf', Users) = SumFunctionOnSet(balanceOf, Users)
    BY <1>1, <2>1, SumCongruent
  <2> QED
    BY <1>1, <1>3, <2>2 DEF TokenInv
<1>5. CASE from # to
  <2>1. /\ balanceOf'[from] = balanceOf[from] - amount /\ balanceOf'[to] = balanceOf[to] + amount
        /\ \A u \in Users : u # from /\ u # to => balanceOf'[u] = balanceOf[u]
    BY <1>1, <1>2, <1>5
  <2>2. SumFunctionOnSet(balanceOf', Users) = SumFunctionOnSet(balanceOf, Users)
    BY <1>1, <1>3, <1>5, <2>1, SumTrade
  <2> QED
    BY <1>1, <1>3, <2>2 DEF TokenInv
<1> QED
  BY <1>4, <1>5

LEMMA TokenStep ==
  ASSUME CoreInv, BalanceInv, EmissionInv, TokenInv, [Next]_vars
  PROVE  TokenInv'
<1>0. Amounts \subseteq Nat
  BY ZeroWarriorAssumption
<1>1. CASE UNCHANGED zeroVars
  BY <1>1 DEF TokenInv, zeroVars
<1>2. ASSUME NEW user \in Users, NEW amount \in Amounts, addZero(user, amount) \/ removeZero(user, amount)
      PROVE  TokenInv'
  BY <1>0, <1>2, TokenBurned, TokenMinted DEF addZero, removeZero, burnForWarrior
<1>3. ASSUME NEW from \in Users, NEW to \in Users, NEW amount \in Amounts, transferZero(from, to, amount)
      PROVE  TokenInv'
  BY <1>0, <1>3, TokenMoved DEF transferZero
<1> QED
  BY <1>1, <1>2, <1>3, TokenBurned, BalanceChanges

LEMMA RequestStep ==
  ASSUME RequestInv, [Next]_vars
  PROVE  RequestInv'
<1>1. /\ numRequests \in Nat /\ numRequests <= MaxRequests /\ MaxRequests \in Nat
      /\ requests \subseteq [provider : Providers, nonce : 1..numRequests] /\ randProvider \in Providers
  BY ProvidersAssumption DEF RequestInv, RequestsTypeOK
<1>2. CASE requestRandomSeed
  <2>1. /\ numRequests < MaxRequests /\ numRequests' = numRequests + 1 /\ randProvider' = randProvider
        /\ requests' = requests \cup {[provider |-> randProvider, nonce |-> numRequests + 1]}
    BY <1>2 DEF requestRandomSeed, requestRandomBytes
  <2>2. ASSUME NEW r \in requests' PROVE r \in [provider : Providers, nonce : 1..numRequests']
    BY <1>1, <2>1, <2>2
  <2>3. numRequests' \in 0..MaxRequests
    BY <1>1, <2>1
  <2> QED
    BY <1>1, <2>1, <2>2, <2>3 DEF RequestInv, RequestsTypeOK
<1>3. ASSUME NEW r \in requests, NEW s \in Seeds, fulfillRandomness(r, s) PROVE RequestInv'
  BY <1>3 DEF fulfillRandomness, answer, RequestInv, RequestsTypeOK
<1>4. ASSUME NEW p \in Providers, upgradeRandProvider(p) PROVE RequestInv'
  BY <1>4 DEF upgradeRandProvider, requestVars, RequestInv, RequestsTypeOK
<1>5. CASE UNCHANGED oracleVars
  BY <1>5 DEF oracleVars, requestVars, RequestInv, RequestsTypeOK
<1>6. CASE UNCHANGED vars
  BY <1>5, <1>6 DEF vars
<1>7. CASE Next
  BY <1>2, <1>3, <1>4, <1>5, <1>7
  DEF Next, WarriorNext, Tick, claimWarrior, mintFromZero, mintReservedWarrior, mintLegendaryWarrior,
      revealWarrior, transferFrom, withdraw, moveAll, approveWarrior, setWarriorApprovalForAll,
      addZero, removeZero, burnZeroForZeroName, payForZeroName, transferZero
<1> QED
  BY <1>6, <1>7-------------------------------------------------------------------------------
(* The theorems *)

AllInv == CoreInv /\ EmissionInv /\ CountInv /\ BalanceInv /\ TokenInv /\ RequestInv

LEMMA AllInit == Init => AllInv
<1> SUFFICES ASSUME Init PROVE AllInv
  OBVIOUS
<1>1. CoreInv /\ EmissionInv /\ CountInv
  BY CoreInit, EmissionInit, CountInit
<1>2. BalanceInv
  BY ZeroWarriorAssumption DEF Init, BalanceInv
<1>3. TokenInv
  <2>1. balanceOf = [u \in Users |-> 0] /\ totalSupply = 0
    BY DEF Init, ZeroInit
  <2>2. SumFunctionOnSet(balanceOf, Users) = 0
    BY <2>1, AddressesAssumption, SumZero
  <2> QED
    BY <2>1, <2>2 DEF TokenInv
<1>4. RequestInv
  <2>1. numRequests = 0 /\ requests = {} /\ randProvider \in Providers
    BY DEF Init, RequestsInit
  <2> QED
    BY <2>1, ProvidersAssumption DEF RequestInv, RequestsTypeOK
<1> QED
  BY <1>1, <1>2, <1>3, <1>4 DEF AllInv

LEMMA AllStep == AllInv /\ [Next]_vars => AllInv'
BY CoreStep, EmissionStep, CountStep, BalanceStep, TokenStep, RequestStep DEF AllInv

LEMMA AllInvariant == Spec => []AllInv
BY AllInit, AllStep, PTL DEF Spec

(***************************************************************************)
(* TypeOK: every variable keeps its type.  That the naturals stay naturals *)
(* means that no balance, count or supply is ever taken below zero, in the *)
(* unchecked blocks as in the checked ones.                                *)
(***************************************************************************)
THEOREM TypesKept == Spec => []TypeOK
<1>1. AllInv => TypeOK
  <2> SUFFICES ASSUME AllInv PROVE TypeOK
    OBVIOUS
  <2>1. ERC721TypeOK
    BY DEF AllInv, CoreInv, OwnerInv, CountInv, ERC721TypeOK
  <2>2. ZeroTypeOK
    <3>1. balanceOf \in [Users -> Nat] /\ totalSupply = SumFunctionOnSet(balanceOf, Users)
      BY DEF AllInv, TokenInv
    <3>2. IsFiniteSet(Users) /\ \A u \in Users : balanceOf[u] \in Nat
      BY <3>1, AddressesAssumption
    <3>3. totalSupply \in Nat
      BY <3>1, <3>2, SumNat
    <3> QED
      BY <3>1, <3>3 DEF ZeroTypeOK
  <2>3. RequestsTypeOK /\ randProvider \in Providers
    BY DEF AllInv, RequestInv
  <2>4. idx \in [Ids -> {0} \cup NonLegendaryIds] /\ randomSeed \in Seeds
    BY DEF AllInv, CoreInv, IndexInv, IdxType
  <2>5. emissionMultiple \in [Ids -> Nat] /\ userMultiple \in [Holders -> Nat]
    BY DEF AllInv, EmissionInv
  <2>6. now \in 0..MaxNow /\ lastBalance \in [Holders -> Nat] /\ lastTimestamp \in [Holders -> 0..now]
    BY DEF AllInv, BalanceInv
  <2>7. /\ hasClaimed \subseteq MintList
        /\ numMintedFromZero \in Nat /\ numMintedForReserves \in Nat /\ currentNonLegendaryId \in Nat
    <3>1. /\ hasClaimed \subseteq MintList
          /\ numMintedFromZero \in Nat /\ numMintedForReserves \in Nat
          /\ currentNonLegendaryId = Cardinality(hasClaimed) + numMintedFromZero + numMintedForReserves
      BY SupplyNumbers DEF AllInv, CoreInv, MintInv
    <3>2. Cardinality(hasClaimed) \in Nat
      BY <3>1, ClaimsCounted, SupplyNumbers
    <3> QED
      BY <3>1, <3>2
  <2>8. startPrice \in Nat /\ numSold \in Nat
    BY SupplyNumbers DEF AllInv, CoreInv, AuctionInv
  <2>9. /\ nextRevealTimestamp \in Nat
        /\ lastRevealedId \in Nat /\ toBeRevealed \in Nat /\ waitingForSeed \in BOOLEAN
    BY DEF AllInv, CoreInv, RoundInv
  <2> QED
    BY <2>1, <2>2, <2>3, <2>4, <2>5, <2>6, <2>7, <2>8, <2>9 DEF TypeOK
<1> QED
  BY <1>1, AllInvariant, PTL

\* What moves emission leaves every balance as it is.
LEMMA MovesKeep ==
  ASSUME AllInv, AllInv', [Next]_vars,
         emissionMultiple' # emissionMultiple \/ userMultiple' # userMultiple
  PROVE  \A a \in Holders : zeroBalance(a)' = zeroBalance(a)
<1>1. PICK accounts : /\ snapshot(accounts) /\ UNCHANGED <<now, zeroVars>>
                      /\ \A a \in Holders \ accounts : userMultiple'[a] = userMultiple[a]
  BY OwnerChanges, MovesSnapshot DEF AllInv
<1> QED
  BY <1>1, SnapshotKeeps DEF AllInv

(***************************************************************************)
(* BalancesKeptByMoves: a reveal, a transfer or a legendary burn changes   *)
(* what an account will earn and nothing of what it has.                   *)
(***************************************************************************)
THEOREM BalancesAreKeptByMoves == Spec => BalancesKeptByMoves
<1> DEFINE Kept == emissionMultiple' # emissionMultiple \/ userMultiple' # userMultiple
                     => \A a \in Holders : zeroBalance(a)' = zeroBalance(a)
<1>1. AllInv /\ AllInv' /\ [Next]_vars => Kept
  BY MovesKeep
<1>2. AllInv /\ AllInv' /\ [Next]_vars => [Kept]_vars
  BY <1>1
<1> QED
  BY <1>2, AllInvariant, PTL DEF Spec, BalancesKeptByMoves-------------------------------------------------------------------------------
(* Only time makes ZERO *)

LEMMA HoldersFinite == IsFiniteSet(Holders)
<1>1. IsFiniteSet(Users) /\ IsFiniteSet({Team}) /\ IsFiniteSet({Community}) /\ IsFiniteSet({NoOne})
  BY AddressesAssumption, FS_Singleton
<1>2. Holders = ((Users \cup {Team}) \cup {Community}) \cup {NoOne}
  BY DEF Holders, Accounts, Reserves
<1> QED
  BY <1>1, <1>2, FS_Union

\* The wealth of every holder, as a function to sum.
Fortune == [a \in Holders |-> Wealth(a)]

LEMMA FortuneNat == AllInv => Fortune \in [Holders -> Nat]
<1> SUFFICES ASSUME AllInv, NEW a \in Holders PROVE Wealth(a) \in Nat
  BY DEF Fortune
<1>1. zeroBalance(a) \in Nat /\ (a \in Users => balanceOf[a] \in Nat)
  BY BalanceNat DEF AllInv, TokenInv
<1> QED
  BY <1>1 DEF Wealth

LEMMA FortuneNext == AllInv' => (Fortune \in [Holders -> Nat])'
BY FortuneNat, PTL

\* What writing a virtual balance does, at the moment it is written.
LEMMA SetWrites ==
  ASSUME AllInv, now' = now, NEW user \in Users, NEW balance \in Nat, setUserZeroBalance(user, balance)
  PROVE  /\ zeroBalance(user)' = balance
         /\ \A a \in Holders : a # user => zeroBalance(a)' = zeroBalance(a)
<1>1. /\ lastBalance' = [lastBalance EXCEPT ![user] = balance]
      /\ lastTimestamp' = [lastTimestamp EXCEPT ![user] = now]
      /\ userMultiple' = userMultiple
  BY DEF setUserZeroBalance
<1>2. /\ lastBalance \in [Holders -> Nat] /\ lastTimestamp \in [Holders -> 0..now]
      /\ userMultiple \in [Holders -> Nat] /\ now \in Nat /\ user \in Holders
  BY Parties, ZeroWarriorAssumption DEF AllInv, BalanceInv, EmissionInv
<1>3. \A a \in Holders : zeroBalance(a)' = computeZEROBalance(userMultiple'[a], lastBalance'[a],
                                             toDaysWad(now' - lastTimestamp'[a]))
  BY DEF zeroBalance
<1>4. zeroBalance(user)' = balance
  <2>1. lastBalance'[user] = balance /\ lastTimestamp'[user] = now /\ userMultiple[user] \in Nat
        /\ now - now = 0
    BY <1>1, <1>2
  <2>2. toDaysWad(0) = 0
    BY DaysNat
  <2>3. zeroBalance(user)' = computeZEROBalance(userMultiple[user], balance, 0)
    BY <1>1, <1>2, <1>3, <2>1, <2>2
  <2> QED
    BY <2>1, <2>3, BalanceNeverFalls
<1>5. ASSUME NEW a \in Holders, a # user PROVE zeroBalance(a)' = zeroBalance(a)
  <2>1. lastBalance'[a] = lastBalance[a] /\ lastTimestamp'[a] = lastTimestamp[a]
    BY <1>1, <1>2, <1>5
  <2> QED
    BY <1>1, <1>3, <2>1 DEF zeroBalance
<1> QED
  BY <1>4, <1>5

\* Steps after which no holder has more.
LEMMA NobodyGains ==
  ASSUME AllInv, AllInv', NEW x \in Holders, Fortune'[x] <= Fortune[x],
         \A a \in Holders : a # x => Fortune'[a] = Fortune[a]
  PROVE  SumFunctionOnSet(Fortune', Holders) <= SumFunctionOnSet(Fortune, Holders)
<1>1. Fortune \in [Holders -> Nat] /\ Fortune' \in [Holders -> Nat]
  BY FortuneNat, FortuneNext
<1>2. /\ SumFunctionOnSet(Fortune, Holders) \in Nat /\ SumFunctionOnSet(Fortune', Holders) \in Nat
      /\ SumFunctionOnSet(Fortune', Holders) - Fortune'[x] = SumFunctionOnSet(Fortune, Holders) - Fortune[x]
  BY <1>1, HoldersFinite, SumUpdate
<1>3. Fortune[x] \in Nat /\ Fortune'[x] \in Nat
  BY <1>1
<1> QED
  BY <1>2, <1>3

LEMMA FortuneStep ==
  ASSUME AllInv, AllInv', [Next]_vars, now' = now
  PROVE  SumFunctionOnSet(Fortune', Holders) <= SumFunctionOnSet(Fortune, Holders)
<1> DEFINE Richer == ~(SumFunctionOnSet(Fortune', Holders) <= SumFunctionOnSet(Fortune, Holders))
           Tokens(a) == IF a \in Users THEN balanceOf[a] ELSE 0
<1>1. /\ balanceOf \in [Users -> Nat] /\ balanceOf' \in [Users -> Nat]
      /\ \A a \in Holders : zeroBalance(a) \in Nat
      /\ Users \subseteq Holders /\ NoOne \in Holders /\ Amounts \subseteq Nat
  BY BalanceNat, Parties, ZeroWarriorAssumption DEF AllInv, TokenInv
<1>2. /\ \A a \in Holders : Fortune[a] = zeroBalance(a) + Tokens(a)
      /\ \A a \in Holders : Fortune'[a] = zeroBalance(a)' + (IF a \in Users THEN balanceOf'[a] ELSE 0)
  BY DEF Fortune, Wealth
<1> HIDE DEF Richer
\* Neither tokens nor balances change.
<1>3. ASSUME UNCHANGED zeroVars, \A a \in Holders : zeroBalance(a)' = zeroBalance(a)
      PROVE  ~Richer
  <2>1. \A a \in Holders : Fortune'[a] = Fortune[a]
    BY <1>2, <1>3 DEF zeroVars
  <2>2. Fortune'[NoOne] <= Fortune[NoOne]
    BY <1>1, <2>1, FortuneNat
  <2> QED
    BY <1>1, <2>1, <2>2, NobodyGains DEF Richer
<1>4. ASSUME UNCHANGED <<lastBalance, lastTimestamp, userMultiple>>
      PROVE  \A a \in Holders : zeroBalance(a)' = zeroBalance(a)
  BY <1>4 DEF zeroBalance
<1>5. CASE UNCHANGED <<lastBalance, lastTimestamp, zeroVars>>
  <2>1. CASE userMultiple' = userMultiple
    BY <1>3, <1>4, <1>5, <2>1 DEF Richer
  <2>2. CASE userMultiple' # userMultiple
    BY <1>3, <1>5, <2>2, MovesKeep DEF Richer
  <2> QED
    BY <2>1, <2>2
<1>6. ASSUME NEW accounts, snapshot(accounts), UNCHANGED zeroVars,
             \A a \in Holders \ accounts : userMultiple'[a] = userMultiple[a]
      PROVE  ~Richer
  BY <1>3, <1>6, SnapshotKeeps DEF AllInv
<1>7. ASSUME NEW user \in Users, NEW amount \in Nat, decreaseUserZeroBalance(user, amount),
             UNCHANGED zeroVars
      PROVE  ~Richer
  <2>1. zeroBalance(user) - amount \in Nat /\ setUserZeroBalance(user, zeroBalance(user) - amount)
    BY <1>1, <1>7 DEF decreaseUserZeroBalance
  <2>2. /\ zeroBalance(user)' = zeroBalance(user) - amount
        /\ \A a \in Holders : a # user => zeroBalance(a)' = zeroBalance(a)
    BY <2>1, SetWrites
  <2>3. Fortune'[user] <= Fortune[user]
    BY <1>1, <1>2, <1>7, <2>2 DEF zeroVars
  <2>4. \A a \in Holders : a # user => Fortune'[a] = Fortune[a]
    BY <1>2, <1>7, <2>2 DEF zeroVars
  <2> QED
    BY <1>1, <2>3, <2>4, NobodyGains DEF Richer
<1>8. ASSUME NEW user \in Users, NEW amount \in Nat, burn(user, amount), UNCHANGED userVars
      PROVE  ~Richer
  <2>1. \A a \in Holders : zeroBalance(a)' = zeroBalance(a)
    BY <1>4, <1>8 DEF userVars
  <2>2. /\ balanceOf'[user] = balanceOf[user] - amount
        /\ \A u \in Users : u # user => balanceOf'[u] = balanceOf[u]
    BY <1>1, <1>8 DEF burn
  <2>3. Fortune'[user] <= Fortune[user]
    BY <1>1, <1>2, <2>1, <2>2
  <2>4. \A a \in Holders : a # user => Fortune'[a] = Fortune[a]
    BY <1>2, <2>1, <2>2
  <2> QED
    BY <1>1, <2>3, <2>4, NobodyGains DEF Richer
\* A deposit or a withdrawal exchanges the two kinds of ZERO of one account.
<1>9. ASSUME NEW user \in Users, NEW amount \in Amounts, addZero(user, amount) \/ removeZero(user, amount)
      PROVE  ~Richer
  <2>1. PICK balance \in Nat, tokens \in Nat :
          /\ balance + tokens = zeroBalance(user) + balanceOf[user]
          /\ setUserZeroBalance(user, balance)
          /\ balanceOf' = [balanceOf EXCEPT ![user] = tokens]
    <3>1. zeroBalance(user) \in Nat /\ balanceOf[user] \in Nat /\ amount \in Nat
      BY <1>1
    <3>2. CASE addZero(user, amount)
      <4>1. PICK b, t : b = zeroBalance(user) + amount /\ t = balanceOf[user] - amount
        OBVIOUS
      <4>2. /\ setUserZeroBalance(user, b)
            /\ balanceOf' = [balanceOf EXCEPT ![user] = t]
            /\ balanceOf[user] >= amount
        BY <3>2, <4>1 DEF addZero, increaseUserZeroBalance, burnForWarrior, burn
      <4>3. b \in Nat /\ t \in Nat /\ b + t = zeroBalance(user) + balanceOf[user]
        BY <3>1, <4>1, <4>2
      <4> QED
        BY <4>2, <4>3
    <3>3. CASE removeZero(user, amount)
      <4>1. PICK b, t : b = zeroBalance(user) - amount /\ t = balanceOf[user] + amount
        OBVIOUS
      <4>2. /\ setUserZeroBalance(user, b)
            /\ balanceOf' = [balanceOf EXCEPT ![user] = t]
            /\ zeroBalance(user) >= amount
        BY <3>3, <4>1 DEF removeZero, decreaseUserZeroBalance, mintForWarrior
      <4>3. b \in Nat /\ t \in Nat /\ b + t = zeroBalance(user) + balanceOf[user]
        BY <3>1, <4>1, <4>2
      <4> QED
        BY <4>2, <4>3
    <3> QED
      BY <1>9, <3>2, <3>3
  <2>2. /\ zeroBalance(user)' = balance
        /\ \A a \in Holders : a # user => zeroBalance(a)' = zeroBalance(a)
    BY <2>1, SetWrites
  <2>3. /\ balanceOf'[user] = tokens
        /\ \A u \in Users : u # user => balanceOf'[u] = balanceOf[u]
    BY <1>1, <2>1
  <2>4. Fortune'[user] <= Fortune[user]
    BY <1>1, <1>2, <2>1, <2>2, <2>3
  <2>5. \A a \in Holders : a # user => Fortune'[a] = Fortune[a]
    BY <1>2, <2>2, <2>3
  <2> QED
    BY <1>1, <2>4, <2>5, NobodyGains DEF Richer
<1>10. ASSUME NEW from \in Users, NEW to \in Users, NEW amount \in Amounts, transferZero(from, to, amount)
       PROVE  ~Richer
  <2>1. \A a \in Holders : zeroBalance(a)' = zeroBalance(a)
    BY <1>4, <1>10 DEF transferZero, userVars
  <2>2. \A u \in Users : balanceOf'[u] = balanceOf[u] - (IF u = from THEN amount ELSE 0)
                                                      + (IF u = to THEN amount ELSE 0)
    BY <1>1, <1>10 DEF transferZero, transfer, moved
  <2>3. CASE from = to
    <3>1. \A a \in Holders : Fortune'[a] = Fortune[a]
      BY <1>1, <1>2, <2>1, <2>2, <2>3
    <3>2. Fortune'[from] <= Fortune[from]
      BY <1>1, <3>1, FortuneNat
    <3> QED
      BY <1>1, <3>1, <3>2, NobodyGains DEF Richer
  <2>4. CASE from # to
    <3>1. /\ Fortune'[from] = Fortune[from] - amount
          /\ Fortune'[to] = Fortune[to] + amount
          /\ \A a \in Holders : a # from /\ a # to => Fortune'[a] = Fortune[a]
      BY <1>1, <1>2, <2>1, <2>2, <2>4
    <3>2. Fortune \in [Holders -> Nat] /\ Fortune' \in [Holders -> Nat]
      BY FortuneNat, FortuneNext
    <3>3. SumFunctionOnSet(Fortune', Holders) = SumFunctionOnSet(Fortune, Holders)
      BY <1>1, <2>4, <3>1, <3>2, HoldersFinite, SumTrade
    <3>4. SumFunctionOnSet(Fortune, Holders) \in Nat
      BY <3>2, HoldersFinite, SumNat
    <3> QED
      BY <3>3, <3>4 DEF Richer
  <2> QED
    BY <2>3, <2>4
<1>11. ~Richer
  <2>1. CoreInv /\ BalanceInv /\ EmissionInv
    BY DEF AllInv
  <2> QED
    BY <2>1, <1>5, <1>6, <1>7, <1>8, <1>9, <1>10, BalanceChanges DEF Richer
<1> QED
  BY <1>11 DEF Richer

(***************************************************************************)
(* NoInstantGain: only the passing of time makes ZERO.                     *)
(***************************************************************************)
THEOREM NothingIsGainedAtOnce == Spec => NoInstantGain
<1> DEFINE Kept == now' = now => SumFunction([a \in Holders |-> Wealth(a)])'
                                   <= SumFunction([a \in Holders |-> Wealth(a)])
<1>1. AllInv /\ AllInv' /\ [Next]_vars => Kept
  <2> SUFFICES ASSUME AllInv, AllInv', [Next]_vars, now' = now
               PROVE  SumFunction([a \in Holders |-> Wealth(a)])'
                        <= SumFunction([a \in Holders |-> Wealth(a)])
    OBVIOUS
  <2>1. /\ SumFunction([a \in Holders |-> Wealth(a)]) = SumFunctionOnSet(Fortune, Holders)
        /\ SumFunction([a \in Holders |-> Wealth(a)])' = SumFunctionOnSet(Fortune', Holders)
    BY DEF SumFunction, Fortune
  <2> QED
    BY <2>1, FortuneStep
<1>2. AllInv /\ AllInv' /\ [Next]_vars => [Kept]_vars
  BY <1>1
<1> QED
  BY <1>2, AllInvariant, PTL DEF Spec, NoInstantGain
===============================================================================
