-------------------------- MODULE LogBroadcasterProofs -------------------------
(***************************************************************************)
(* The log broadcaster for every chain, number of confirmations, depth of  *)
(* a backfill, crash and error: each variable keeps its type, no log of    *)
(* the pool is out of reach of the heap, and every step is one that the    *)
(* abstract delivery of logs may take.                                     *)
(***************************************************************************)
EXTENDS LogBroadcaster, NumberTheorems, SequenceTheorems

-------------------------------------------------------------------------------
(* Numbers and sequences *)

LEMMA LargerIsMax ==
  ASSUME NEW a \in Int, NEW b \in Int
  PROVE  /\ Max({a, b}) \in {a, b} /\ a <= Max({a, b}) /\ b <= Max({a, b})
<1>1. \E x \in {a, b} : \A y \in {a, b} : x >= y
  BY a >= b \/ b >= a
<1>2. Max({a, b}) \in {a, b} /\ \A y \in {a, b} : Max({a, b}) >= y
  BY <1>1 DEF Max
<1> QED
  BY <1>2

LEMMA MinOfNats ==
  ASSUME NEW S \in SUBSET Nat, S # {}
  PROVE  Min(S) \in S /\ \A y \in S : Min(S) <= y
<1>1. IsWellFoundedOn(OpToRel(<, Nat), Nat)
  BY NatLessThanWellFounded
<1>2. PICK m \in S : \A y \in S : ~ (<<y, m>> \in OpToRel(<, Nat))
  BY <1>1, WFMin
<1>3. \A y \in S : ~ (y < m)
  BY <1>2 DEF OpToRel
<1>4. \A y \in S : m <= y
  BY <1>3
<1> QED
  BY <1>4 DEF Min

LEMMA LowestOfSome ==
  ASSUME NEW S, S \subseteq Nat \cup {None}
  PROVE  Lowest(S) \in S \cup {None}
<1>1. CASE S \ {None} = {}
  BY <1>1 DEF Lowest
<1>2. CASE S \ {None} # {}
  <2>1. Min(S \ {None}) \in S \ {None}
    BY <1>2, MinOfNats
  <2> QED
    BY <1>2, <2>1 DEF Lowest
<1> QED
  BY <1>1, <1>2

Sorted(s, n) == \A i, j \in 1..n : i < j => s[i].block <= s[j].block

\* Logs can be put in the order of their blocks.
LEMMA OrderExists ==
  ASSUME NEW n \in Nat, NEW logs \in SUBSET Logs, IsFiniteSet(logs), Cardinality(logs) = n
  PROVE  \E s \in SetToSeqs(logs) : Sorted(s, n)
<1> DEFINE N == {k \in Nat : \A T \in SUBSET logs : Cardinality(T) = k =>
                    \E s \in SetToSeqs(T) : Sorted(s, k)}
<1>fin. \A T \in SUBSET logs : IsFiniteSet(T) /\ Cardinality(T) \in Nat
  BY FS_Subset, FS_CardinalityType
<1>nat. MaxHeight \in Nat /\ \A l \in logs : l.block \in 0..MaxHeight
  BY ChainAssumption DEF Logs
<1>1. 0 \in N
  <2> SUFFICES ASSUME NEW T \in SUBSET logs, Cardinality(T) = 0
               PROVE  \E s \in SetToSeqs(T) : Sorted(s, 0)
    OBVIOUS
  <2>1. [i \in 1..0 |-> i] \in SetToSeqs(T)
    BY DEF SetToSeqs
  <2> QED
    BY <2>1 DEF Sorted
<1>2. ASSUME NEW k \in N PROVE k + 1 \in N
  <2> SUFFICES ASSUME NEW T \in SUBSET logs, Cardinality(T) = k + 1
               PROVE  \E s \in SetToSeqs(T) : Sorted(s, k + 1)
    OBVIOUS
  <2> DEFINE blocks == {l.block : l \in T}
  <2>1. PICK last \in T : \A l \in T : l.block <= last.block
    <3>1. blocks # {}
      <4>1. T # {}
        BY <1>fin, FS_EmptySet
      <4> QED
        BY <4>1
    <3>2. blocks \in SUBSET (0..MaxHeight)
      BY <1>nat
    <3>3. \E m \in blocks : \A b \in blocks : b <= m
      BY <1>nat, <3>1, <3>2, BoundedHasMax
    <3> QED
      BY <3>3
  <2>2. Cardinality(T \ {last}) = k
    <3>1. Cardinality(T \ {last}) = Cardinality(T) - 1
      BY <1>fin, FS_RemoveElement
    <3> QED
      BY <3>1
  <2>3. PICK s \in SetToSeqs(T \ {last}) : Sorted(s, k)
    BY <2>2
  <2>4. s \in [1..k -> T \ {last}] /\ \A i, j \in 1..k : i # j => s[i] # s[j]
    BY <2>2, <2>3 DEF SetToSeqs
  <2> DEFINE t == [i \in 1..k + 1 |-> IF i <= k THEN s[i] ELSE last]
  <2>5. /\ t[k + 1] = last
        /\ \A i \in 1..k : t[i] = s[i] /\ s[i] \in T \ {last}
    BY <2>4
  <2>6. \A i \in 1..k + 1 : i \in 1..k \/ i = k + 1
    OBVIOUS
  <2>7. t \in [1..k + 1 -> T]
    BY <2>5, <2>6
  <2>8. \A i, j \in 1..k + 1 : i # j => t[i] # t[j]
    BY <2>4, <2>5, <2>6
  <2>9. Sorted(t, k + 1)
    <3> SUFFICES ASSUME NEW i \in 1..k + 1, NEW j \in 1..k + 1, i < j
                 PROVE  t[i].block <= t[j].block
      BY DEF Sorted
    <3>1. i \in 1..k
      OBVIOUS
    <3>2. CASE j \in 1..k
      BY <2>3, <2>5, <3>1, <3>2 DEF Sorted
    <3>3. CASE j = k + 1
      BY <2>1, <2>5, <3>1, <3>3
    <3> QED
      BY <2>6, <3>2, <3>3
  <2> HIDE DEF t
  <2>10. t \in SetToSeqs(T)
    BY <2>7, <2>8 DEF SetToSeqs
  <2> QED
    BY <2>9, <2>10
<1>3. N = Nat
  BY <1>1, <1>2, NatSetInduction
<1> QED
  BY <1>3

\* What the node of the chain sends: each of the logs once, as added or removed.
LEMMA RawIsASeq ==
  ASSUME NEW logs \in SUBSET Logs, IsFiniteSet(logs), NEW removed \in BOOLEAN
  PROVE  Raw(logs, removed) \in Seq([log : logs, removed : {removed}])
<1> DEFINE n == Cardinality(logs)
<1>1. n \in Nat
  BY FS_CardinalityType
<1> HIDE DEF n
<1>2. InOrder(logs) \in SetToSeqs(logs)
  BY <1>1, OrderExists DEF InOrder, Sorted, n
<1>3. InOrder(logs) \in [1..n -> logs]
  BY <1>2 DEF SetToSeqs, n
<1> DEFINE S == [log : logs, removed : {removed}]
<1>4. Raw(logs, removed) \in [1..n -> S]
  BY <1>3 DEF Raw, n
<1> HIDE DEF S
<1>5. Seq(S) = UNION {[1..k -> S] : k \in Nat}
  BY SeqDef
<1>6. Raw(logs, removed) \in Seq(S)
  BY <1>1, <1>4, <1>5
<1> QED
  BY <1>6 DEF S

-------------------------------------------------------------------------------
(* The types, and what they rest on: a raw log was mined, nothing is left   *)
(* to send outside of the step that sends, and only with a head.            *)

ChainOK ==
  /\ height \in 0..MaxHeight /\ fork \in 0..MaxForks
  /\ mined \subseteq Logs /\ canonical \subseteq mined

DatabaseOK ==
  /\ consumed \subseteq mined /\ unconsumed \subseteq mined \ consumed
  /\ pending \in Blocks /\ highestSavedHead \in 0..MaxHeight

MinedRaw == [log : mined, removed : BOOLEAN]

StreamOK ==
  /\ live \in BOOLEAN /\ since \in 0..MaxHeight
  /\ chRawLogs \in Seq(MinedRaw) /\ newLogs \in Seq(MinedRaw)
  /\ fetched \in 0..Len(chRawLogs)

LoopOK ==
  /\ step \in {"start", "clean", "subscribe", "backfill", "loop", "send"}
  /\ newHeads \in Blocks /\ backfillBlockNumber \in Blocks
  /\ latestHead \in Blocks /\ (step = "send" => latestHead # None)

PoolOK ==
  /\ pool \subseteq mined /\ heap \subseteq 1..MaxHeight
  /\ HeapCoversPool
  /\ toSend \subseteq pool /\ (step # "send" => toSend = {})
  /\ received \subseteq mined

BroadcasterInv == ChainOK /\ DatabaseOK /\ StreamOK /\ LoopOK /\ PoolOK

LEMMA Depths ==
  /\ MaxHeight \in Nat /\ MaxForks \in Nat /\ ReorgDepth \in Nat
  /\ Confs \in Nat \ {0} /\ BackfillDepth \in Nat \ {0} /\ keptLogsDepth \in Nat
<1>1. FinalityDepth \in Int /\ Confs \in Int
  BY BroadcasterAssumption
<1>2. keptLogsDepth \in {FinalityDepth, Confs}
  BY <1>1, LargerIsMax DEF keptLogsDepth
<1> QED
  BY <1>2, ChainAssumption, BroadcasterAssumption

LEMMA BroadcasterInit == Init => BroadcasterInv
<1> SUFFICES ASSUME Init PROVE BroadcasterInv
  OBVIOUS
<1>1. StreamOK
  <2>1. chRawLogs = <<>> /\ newLogs = <<>> /\ fetched = 0 /\ live = FALSE /\ since = 0
    BY DEF Init
  <2>2. <<>> \in Seq(MinedRaw) /\ Len(<<>>) = 0
    BY EmptySeq
  <2>3. chRawLogs \in Seq(MinedRaw) /\ newLogs \in Seq(MinedRaw) /\ Len(chRawLogs) = 0
    BY <2>1, <2>2, Zenon
  <2>4. fetched = 0 /\ live \in BOOLEAN /\ since = 0
    BY DEF Init
  <2>5. fetched \in 0..Len(chRawLogs) /\ since \in 0..MaxHeight
    BY <2>3, <2>4, Depths
  <2> QED
    BY <2>3, <2>4, <2>5 DEF StreamOK
<1>2. ChainOK /\ DatabaseOK
  BY Depths DEF Init, ChainInit, ChainOK, DatabaseOK, Blocks
<1>3. LoopOK
  BY DEF Init, LoopOK, Blocks
<1>4. PoolOK
  BY DEF Init, PoolOK, HeapCoversPool
<1> QED
  BY <1>1, <1>2, <1>3, <1>4 DEF BroadcasterInv

LEMMA LogsFinite ==
  ASSUME NEW logs \in SUBSET Logs
  PROVE  IsFiniteSet(logs)
<1>1. IsFiniteSet(1..MaxHeight) /\ IsFiniteSet(0..MaxForks)
  BY Depths, FS_Interval
<1>2. IsFiniteSet((1..MaxHeight) \X (0..MaxForks))
  BY <1>1, FS_Product
<1> DEFINE f == [l \in Logs |-> <<l.block, l.fork>>]
<1>3. f \in Injection(Logs, (1..MaxHeight) \X (0..MaxForks))
  <2>1. \A k, l \in Logs : f[k] = f[l] => k = l
    BY DEF Logs
  <2>2. f \in [Logs -> (1..MaxHeight) \X (0..MaxForks)]
    BY DEF Logs
  <2> QED
    BY <2>1, <2>2 DEF Injection, IsInjective
<1>4. IsFiniteSet(Logs)
  BY <1>2, <1>3, FS_Injection
<1> QED
  BY <1>4, FS_Subset

-------------------------------------------------------------------------------
(* What a step leaves alone *)

LEMMA Unaffected ==
  ASSUME BroadcasterInv, UNCHANGED chainVars
  PROVE  /\ ChainOK'
         /\ UNCHANGED dbVars => DatabaseOK'
         /\ UNCHANGED streamVars => StreamOK'
         /\ UNCHANGED <<step, poolVars, toSend, received>> => PoolOK'
<1> mined' = mined /\ MinedRaw' = MinedRaw
  BY DEF chainVars, MinedRaw
<1>1. ChainOK'
  BY DEF BroadcasterInv, ChainOK, chainVars
<1>2. UNCHANGED dbVars => DatabaseOK'
  BY DEF BroadcasterInv, DatabaseOK, dbVars
<1>3. UNCHANGED streamVars => StreamOK'
  BY DEF BroadcasterInv, StreamOK, streamVars
<1>4. UNCHANGED <<step, poolVars, toSend, received>> => PoolOK'
  BY DEF BroadcasterInv, PoolOK, HeapCoversPool, poolVars
<1> QED
  BY <1>1, <1>2, <1>3, <1>4

LEMMA LowestIsBlock ==
  ASSUME NEW S \in SUBSET Blocks
  PROVE  Lowest(S) \in Blocks
<1>1. S \subseteq Nat \cup {None}
  BY Depths DEF Blocks
<1> QED
  BY <1>1, LowestOfSome DEF Blocks

LEMMA BlocksOfLogs ==
  ASSUME ChainOK, NEW logs \in SUBSET mined
  PROVE  /\ {l.block : l \in logs} \subseteq 1..MaxHeight
         /\ Lowest({l.block : l \in logs}) \in Blocks
<1> DEFINE blocks == {l.block : l \in logs}
<1>1. blocks \subseteq 1..MaxHeight
  BY DEF ChainOK, Logs
<1> HIDE DEF blocks
<1>2. blocks \in SUBSET Blocks
  BY <1>1, Depths DEF Blocks
<1>3. Lowest(blocks) \in Blocks
  BY <1>2, LowestIsBlock
<1> QED
  BY <1>1, <1>3 DEF blocks

\* What is not read yet was on the chain.
LEMMA ReadUpToIsBlock ==
  ASSUME ChainOK, StreamOK
  PROVE  readUpTo \in 0..MaxHeight
<1> DEFINE unread == {chRawLogs[i].log.block - 1 : i \in fetched + 1..Len(chRawLogs)}
<1>1. Len(chRawLogs) \in Nat /\ fetched \in Nat
  BY LenProperties DEF StreamOK
<1>2. \A i \in fetched + 1..Len(chRawLogs) : chRawLogs[i].log.block \in 1..MaxHeight
  <2>1. \A i \in 1..Len(chRawLogs) : chRawLogs[i] \in MinedRaw
    BY ElementOfSeq DEF StreamOK
  <2>2. \A raw \in MinedRaw : raw.log.block \in 1..MaxHeight
    BY DEF MinedRaw, ChainOK, Logs
  <2> QED
    BY <1>1, <2>1, <2>2
<1>3. unread \subseteq 0..MaxHeight
  BY <1>2, Depths
<1>4. {height} \cup unread \subseteq 0..MaxHeight
  BY <1>3 DEF ChainOK
<1> HIDE DEF unread
<1>5. Min({height} \cup unread) \in {height} \cup unread
  <2>1. {height} \cup unread \in SUBSET Nat /\ {height} \cup unread # {}
    BY <1>4
  <2> QED
    BY <2>1, MinOfNats
<1> QED
  BY <1>4, <1>5 DEF readUpTo, unread

-------------------------------------------------------------------------------
(* The steps *)

\* A subscription takes what the chain emits.
LEMMA EmitKeeps ==
  ASSUME StreamOK, mined \subseteq mined', NEW raw \in Seq(MinedRaw'), emit(raw),
         since' \in 0..MaxHeight
  PROVE  StreamOK'
<1>1. chRawLogs \in Seq(MinedRaw') /\ newLogs \in Seq(MinedRaw')
  <2>1. MinedRaw \subseteq MinedRaw'
    BY DEF MinedRaw
  <2> QED
    BY <2>1, SeqMonotonic DEF StreamOK
<1>2. /\ chRawLogs \o raw \in Seq(MinedRaw') /\ newLogs \o raw \in Seq(MinedRaw')
      /\ Len(chRawLogs \o raw) = Len(chRawLogs) + Len(raw)
      /\ Len(raw) \in Nat /\ Len(chRawLogs) \in Nat
  BY <1>1, ConcatProperties, LenProperties
<1>3. chRawLogs' \in {chRawLogs, chRawLogs \o raw} /\ newLogs' \in {newLogs, newLogs \o raw}
  BY DEF emit
<1>4. chRawLogs' \in Seq(MinedRaw') /\ newLogs' \in Seq(MinedRaw')
  BY <1>1, <1>2, <1>3
<1>5. fetched' \in 0..Len(chRawLogs')
  <2>1. Len(chRawLogs') \in {Len(chRawLogs), Len(chRawLogs) + Len(raw)}
    BY <1>2, <1>3
  <2> QED
    BY <1>2, <2>1 DEF StreamOK, emit
<1> QED
  BY <1>4, <1>5 DEF StreamOK, emit

\* The chain grows, or takes blocks back: what was mined stays known.
LEMMA ChainMovesOn ==
  ASSUME ChainOK, since \in 0..MaxHeight
  PROVE  /\ Mine => /\ ChainOK' /\ mined \subseteq mined' /\ since' \in 0..MaxHeight
                    /\ \E raw \in Seq(MinedRaw') : emit(raw)
         /\ \A depth \in 1..ReorgDepth :
              TakeBack(depth) => /\ ChainOK' /\ mined \subseteq mined' /\ since' \in 0..MaxHeight
                                 /\ \E raw \in Seq(MinedRaw') : emit(raw)
<1>1. ASSUME Mine
      PROVE  /\ ChainOK' /\ mined \subseteq mined' /\ since' \in 0..MaxHeight
             /\ \E raw \in Seq(MinedRaw') : emit(raw)
  <2>1. PICK logs \in {{}, {[block |-> height + 1, fork |-> fork]}} :
               extend(logs) /\ emit(Raw(logs, FALSE))
    BY <1>1 DEF Mine
  <2>2. height + 1 \in 1..MaxHeight
    BY <2>1, Depths DEF extend, ChainOK
  <2>3. logs \subseteq Logs
    BY <2>2 DEF Logs, ChainOK
  <2>4. ChainOK' /\ mined \subseteq mined' /\ logs \subseteq mined'
    BY <2>1, <2>2, <2>3 DEF extend, ChainOK
  <2>5. Raw(logs, FALSE) \in Seq([log : logs, removed : {FALSE}])
    BY <2>3, LogsFinite, RawIsASeq
  <2>6. [log : logs, removed : {FALSE}] \subseteq MinedRaw'
    BY <2>4 DEF MinedRaw
  <2>7. Raw(logs, FALSE) \in Seq(MinedRaw')
    BY <2>5, <2>6, SeqMonotonic
  <2>8. since' = since
    BY <1>1 DEF Mine
  <2> QED
    BY <2>1, <2>4, <2>7, <2>8
<1>2. ASSUME NEW depth \in 1..ReorgDepth, TakeBack(depth)
      PROVE  /\ ChainOK' /\ mined \subseteq mined' /\ since' \in 0..MaxHeight
             /\ \E raw \in Seq(MinedRaw') : emit(raw)
  <2> DEFINE logs == TakenBack(depth)
  <2>1. Reorg(depth) /\ emit(Raw(logs, TRUE))
    BY <1>2 DEF TakeBack
  <2>2. logs \subseteq mined
    BY DEF ChainOK, TakenBack
  <2>3. ChainOK' /\ mined' = mined
    BY <2>1, Depths DEF Reorg, ChainOK
  <2>4. Raw(logs, TRUE) \in Seq([log : logs, removed : {TRUE}])
    BY <2>2, LogsFinite, RawIsASeq DEF ChainOK
  <2>5. [log : logs, removed : {TRUE}] \subseteq MinedRaw'
    BY <2>2, <2>3 DEF MinedRaw
  <2>6. Raw(logs, TRUE) \in Seq(MinedRaw')
    BY <2>4, <2>5, SeqMonotonic
  <2>7. since' \in 0..MaxHeight
    <3>1. depth \in Nat /\ height \in 0..MaxHeight /\ depth <= height
      BY <2>1, Depths DEF Reorg, ChainOK
    <3>2. {since, height - depth} \in SUBSET Nat /\ {since, height - depth} # {}
      BY <3>1, Depths
    <3>3. Min({since, height - depth}) \in {since, height - depth}
      BY <3>2, MinOfNats
    <3> QED
      BY <1>2, <3>1, <3>3, Depths DEF TakeBack
  <2> QED
    BY <2>1, <2>3, <2>6, <2>7
<1> QED
  BY <1>1, <1>2

LEMMA ChainKeeps ==
  ASSUME BroadcasterInv, chainStep
  PROVE  BroadcasterInv'
<1>1. /\ ChainOK' /\ mined \subseteq mined' /\ since' \in 0..MaxHeight
      /\ \E raw \in Seq(MinedRaw') : emit(raw)
  BY ChainMovesOn DEF BroadcasterInv, StreamOK, chainStep
<1>2. StreamOK'
  BY <1>1, EmitKeeps DEF BroadcasterInv
<1>3. DatabaseOK' /\ LoopOK' /\ PoolOK'
  BY <1>1 DEF BroadcasterInv, DatabaseOK, LoopOK, PoolOK, HeapCoversPool, chainStep,
              dbVars, poolVars, sendVars
<1> QED
  BY <1>1, <1>2, <1>3 DEF BroadcasterInv

LEMMA HeadsKeep ==
  ASSUME BroadcasterInv, OnNewLongestChain
  PROVE  BroadcasterInv'
<1>1. UNCHANGED <<chainVars, consumed, unconsumed, pending, streamVars, step,
                  backfillBlockNumber, poolVars, sendVars, received>>
  BY DEF OnNewLongestChain
<1>2. height \in 0..MaxHeight /\ highestSavedHead \in 0..MaxHeight
  BY DEF BroadcasterInv, ChainOK, DatabaseOK
<1>3. Max({highestSavedHead, height}) \in {highestSavedHead, height}
  BY <1>2, Depths, LargerIsMax
<1>4. newHeads' = height /\ highestSavedHead' \in 0..MaxHeight
  BY <1>2, <1>3 DEF OnNewLongestChain
<1>5. ChainOK' /\ StreamOK' /\ PoolOK'
  BY <1>1, Unaffected DEF sendVars
<1>6. DatabaseOK'
  BY <1>1, <1>4 DEF BroadcasterInv, DatabaseOK, chainVars
<1>7. LoopOK'
  BY <1>1, <1>2, <1>4 DEF BroadcasterInv, LoopOK, sendVars, Blocks
<1> QED
  BY <1>5, <1>6, <1>7 DEF BroadcasterInv

LEMMA StartKeeps ==
  ASSUME BroadcasterInv, startResubscribeLoop
  PROVE  BroadcasterInv'
<1>1. UNCHANGED <<chainVars, consumed, unconsumed, highestSavedHead, streamVars, newHeads,
                  poolVars, sendVars, received>>
  BY DEF startResubscribeLoop
<1>2. step = "start" /\ step' = "clean"
  BY DEF startResubscribeLoop
<1>3. minUnconsumed \in Blocks /\ pending \in Blocks
  BY BlocksOfLogs DEF BroadcasterInv, DatabaseOK, minUnconsumed
<1>4. fromHighestSavedHead \in Blocks
  <2> DEFINE from == highestSavedHead - Confs - BackfillDepth
  <2>1. highestSavedHead \in 0..MaxHeight
    BY DEF BroadcasterInv, DatabaseOK
  <2>2. from \in Int /\ from <= MaxHeight
    BY <2>1, Depths
  <2> HIDE DEF from
  <2>3. Max({from, 0}) \in {from, 0} /\ from <= Max({from, 0}) /\ 0 <= Max({from, 0})
    BY <2>2, LargerIsMax
  <2> QED
    BY <2>2, <2>3, Depths DEF fromHighestSavedHead, from, Blocks
<1>5. Lowest({minUnconsumed, pending}) \in Blocks
  BY <1>3, LowestIsBlock
<1>6. backfillBlockNumber' \in Blocks /\ pending' \in Blocks
  <2>1. Lowest({fromHighestSavedHead, Lowest({minUnconsumed, pending})}) \in Blocks
    BY <1>4, <1>5, LowestIsBlock
  <2> QED
    BY <1>3, <1>5, <2>1 DEF startResubscribeLoop
<1>7. ChainOK' /\ StreamOK'
  BY <1>1, Unaffected
<1>8. DatabaseOK'
  BY <1>1, <1>6 DEF BroadcasterInv, DatabaseOK, chainVars
<1>9. LoopOK' /\ PoolOK'
  BY <1>1, <1>2, <1>6 DEF BroadcasterInv, LoopOK, PoolOK, HeapCoversPool, chainVars, poolVars,
                          sendVars
<1> QED
  BY <1>7, <1>8, <1>9 DEF BroadcasterInv

LEMMA CleanKeeps ==
  ASSUME BroadcasterInv, removeUnconsumed
  PROVE  BroadcasterInv'
<1>1. /\ step = "clean" /\ step' = "subscribe" /\ unconsumed' = {}
      /\ UNCHANGED <<chainVars, consumed, pending, highestSavedHead, streamVars, newHeads,
                     backfillBlockNumber, poolVars, sendVars, received>>
  BY DEF removeUnconsumed
<1>2. ChainOK' /\ StreamOK'
  BY <1>1, Unaffected
<1>3. DatabaseOK'
  BY <1>1 DEF BroadcasterInv, DatabaseOK, chainVars
<1>4. LoopOK' /\ PoolOK'
  BY <1>1 DEF BroadcasterInv, LoopOK, PoolOK, HeapCoversPool, chainVars, poolVars, sendVars
<1> QED
  BY <1>2, <1>3, <1>4 DEF BroadcasterInv

LEMMA SubscribeKeeps ==
  ASSUME BroadcasterInv, createSubscription
  PROVE  BroadcasterInv'
<1>1. /\ step = "subscribe" /\ step' = "backfill"
      /\ live' = TRUE /\ newLogs' = <<>>
      /\ UNCHANGED <<chainVars, dbVars, fetched, since, newHeads, backfillBlockNumber,
                     poolVars, sendVars, received>>
  BY DEF createSubscription
<1>2. PICK n \in fetched..Len(chRawLogs) : chRawLogs' = SubSeq(chRawLogs, 1, n)
  BY DEF createSubscription
<1>3. chRawLogs \in Seq(MinedRaw) /\ Len(chRawLogs) \in Nat /\ fetched \in 0..Len(chRawLogs)
  BY LenProperties DEF BroadcasterInv, StreamOK
<1>4. SubSeq(chRawLogs, 1, n) \in Seq(MinedRaw) /\ Len(SubSeq(chRawLogs, 1, n)) = n
  <2>1. \A i \in 1..n : chRawLogs[i] \in MinedRaw
    BY <1>2, <1>3, ElementOfSeq
  <2>2. /\ SubSeq(chRawLogs, 1, n) \in Seq(MinedRaw)
        /\ Len(SubSeq(chRawLogs, 1, n)) = IF 1 <= n THEN n - 1 + 1 ELSE 0
    BY <1>2, <1>3, <2>1, SubSeqProperties
  <2> QED
    BY <1>2, <1>3, <2>2
<1>5. StreamOK'
  <2>1. chRawLogs' \in Seq(MinedRaw) /\ Len(chRawLogs') = n /\ newLogs' \in Seq(MinedRaw)
    BY <1>1, <1>2, <1>4, EmptySeq, Zenon
  <2>2. MinedRaw' = MinedRaw
    BY <1>1 DEF MinedRaw, chainVars
  <2> QED
    BY <1>1, <1>2, <1>3, <2>1, <2>2 DEF BroadcasterInv, StreamOK
<1>6. ChainOK' /\ DatabaseOK'
  BY <1>1, Unaffected
<1>7. LoopOK' /\ PoolOK'
  BY <1>1 DEF BroadcasterInv, LoopOK, PoolOK, HeapCoversPool, chainVars, poolVars, sendVars
<1> QED
  BY <1>5, <1>6, <1>7 DEF BroadcasterInv

LEMMA BackfillKeeps ==
  ASSUME BroadcasterInv, backfillLogs
  PROVE  BroadcasterInv'
<1> DEFINE logs == {l \in canonical : l.block >= backfillFrom}
           backfilled == chRawLogs \o Raw(logs, FALSE)
<1>1. /\ step = "backfill" /\ step' = "loop"
      /\ chRawLogs' = backfilled \o newLogs /\ fetched' = Len(backfilled)
      /\ newLogs' = <<>> /\ backfillBlockNumber' = None /\ since' = height
      /\ UNCHANGED <<chainVars, dbVars, live, newHeads, poolVars, sendVars, received>>
  BY DEF backfillLogs
<1>2. backfilled \in Seq(MinedRaw)
  <2>1. logs \subseteq mined
    BY DEF BroadcasterInv, ChainOK
  <2>2. Raw(logs, FALSE) \in Seq([log : logs, removed : {FALSE}])
    BY <2>1, LogsFinite, RawIsASeq DEF BroadcasterInv, ChainOK
  <2>3. [log : logs, removed : {FALSE}] \subseteq MinedRaw
    BY <2>1 DEF MinedRaw
  <2>4. Raw(logs, FALSE) \in Seq(MinedRaw)
    BY <2>2, <2>3, SeqMonotonic
  <2> QED
    BY <2>4, ConcatProperties DEF BroadcasterInv, StreamOK
<1> HIDE DEF backfilled
<1>3. /\ chRawLogs' \in Seq(MinedRaw)
      /\ Len(backfilled) \in Nat /\ Len(newLogs) \in Nat
      /\ Len(chRawLogs') = Len(backfilled) + Len(newLogs)
  <2>1. newLogs \in Seq(MinedRaw)
    BY DEF BroadcasterInv, StreamOK
  <2>2. /\ backfilled \o newLogs \in Seq(MinedRaw)
        /\ Len(backfilled \o newLogs) = Len(backfilled) + Len(newLogs)
    BY <1>2, <2>1, ConcatProperties
  <2> QED
    BY <1>1, <1>2, <2>1, <2>2, LenProperties
<1>4. StreamOK'
  <2>1. newLogs' \in Seq(MinedRaw)
    BY <1>1, EmptySeq, Zenon
  <2>2. MinedRaw' = MinedRaw
    BY <1>1 DEF MinedRaw, chainVars
  <2>3. height \in 0..MaxHeight
    BY DEF BroadcasterInv, ChainOK
  <2> QED
    BY <1>1, <1>3, <2>1, <2>2, <2>3 DEF BroadcasterInv, StreamOK
<1>5. ChainOK' /\ DatabaseOK'
  BY <1>1, Unaffected
<1>6. LoopOK' /\ PoolOK'
  BY <1>1 DEF BroadcasterInv, LoopOK, PoolOK, HeapCoversPool, chainVars, poolVars, sendVars,
              Blocks
<1> QED
  BY <1>4, <1>5, <1>6 DEF BroadcasterInv

-------------------------------------------------------------------------------
(* The event loop *)

LEMMA NewLogKeeps ==
  ASSUME BroadcasterInv, onNewLog
  PROVE  BroadcasterInv'
<1> DEFINE raw == Head(chRawLogs)
<1>1. /\ step = "loop" /\ chRawLogs # <<>> /\ chRawLogs' = Tail(chRawLogs)
      /\ fetched' = Max({fetched - 1, 0})
      /\ IF raw.removed THEN removeBlock(raw.log) ELSE addLog(raw.log)
      /\ UNCHANGED <<chainVars, consumed, unconsumed, highestSavedHead, live, newLogs, since,
                     step, newHeads, backfillBlockNumber, sendVars, received>>
  BY DEF onNewLog
<1>2. /\ raw \in MinedRaw /\ Tail(chRawLogs) \in Seq(MinedRaw)
      /\ Len(Tail(chRawLogs)) = Len(chRawLogs) - 1 /\ Len(chRawLogs) \in Nat \ {0}
  <2>1. chRawLogs \in Seq(MinedRaw)
    BY DEF BroadcasterInv, StreamOK
  <2> QED
    BY <1>1, <2>1, HeadTailProperties, EmptySeq
<1> HIDE DEF raw
<1>3. raw.log \in mined /\ raw.log.block \in 1..MaxHeight
  BY <1>2 DEF MinedRaw, BroadcasterInv, ChainOK, Logs
<1>4. fetched' \in 0..Len(chRawLogs')
  <2>1. fetched \in 0..Len(chRawLogs)
    BY DEF BroadcasterInv, StreamOK
  <2>2. fetched - 1 \in Int /\ 0 \in Int
    BY <1>2, <2>1
  <2>3. Max({fetched - 1, 0}) \in {fetched - 1, 0} /\ 0 <= Max({fetched - 1, 0})
    BY <2>2, LargerIsMax
  <2>4. fetched' \in 0..Len(chRawLogs) - 1
    BY <1>1, <1>2, <2>1, <2>3
  <2> QED
    BY <1>1, <1>2, <2>4
<1>5. StreamOK'
  <2>1. MinedRaw' = MinedRaw /\ chRawLogs' \in Seq(MinedRaw)
    BY <1>1, <1>2 DEF MinedRaw, chainVars
  <2> QED
    BY <1>1, <1>4, <2>1 DEF BroadcasterInv, StreamOK
<1>6. pool' \subseteq pool \cup {raw.log} /\ heap \subseteq heap'
      /\ heap' \subseteq heap \cup {raw.log.block}
      /\ (raw.log \in pool' \ pool => raw.log.block \in heap')
      /\ pending' \in {pending, raw.log.block}
  <2>1. CASE raw.removed
    BY <1>1, <2>1 DEF removeBlock
  <2>2. CASE ~ raw.removed
    BY <1>1, <2>2 DEF addLog
  <2> QED
    BY <2>1, <2>2
<1>7. ChainOK'
  BY <1>1, Unaffected
<1>8. DatabaseOK'
  BY <1>1, <1>3, <1>6 DEF BroadcasterInv, DatabaseOK, Blocks, chainVars
<1>9. LoopOK'
  BY <1>1 DEF BroadcasterInv, LoopOK, sendVars
<1>10. PoolOK'
  <2>1. toSend = {} /\ toSend' = {}
    BY <1>1 DEF BroadcasterInv, PoolOK, sendVars
  <2> QED
    BY <1>1, <1>3, <1>6, <2>1 DEF BroadcasterInv, PoolOK, HeapCoversPool, chainVars
<1> QED
  BY <1>5, <1>7, <1>8, <1>9, <1>10 DEF BroadcasterInv

LEMMA NewHeadsKeep ==
  ASSUME BroadcasterInv, onNewHeads
  PROVE  BroadcasterInv'
<1>1. /\ step = "loop" /\ newHeads # None /\ newHeads' = None
      /\ latestHead' = newHeads /\ toSend' \subseteq pool /\ step' = "send"
      /\ UNCHANGED <<chainVars, dbVars, streamVars, backfillBlockNumber, poolVars, received>>
  BY DEF onNewHeads, getLogsToSend
<1>2. ChainOK' /\ DatabaseOK' /\ StreamOK'
  BY <1>1, Unaffected
<1>3. LoopOK' /\ PoolOK'
  BY <1>1 DEF BroadcasterInv, LoopOK, PoolOK, HeapCoversPool, chainVars, poolVars, Blocks
<1> QED
  BY <1>2, <1>3 DEF BroadcasterInv

LEMMA SendKeeps ==
  ASSUME BroadcasterInv, NEW l \in toSend, sendLog(l)
  PROVE  BroadcasterInv'
<1>1. /\ step = "send" /\ l \in pool /\ l \in mined
      /\ toSend' = toSend \ {l} /\ received' = received \cup {l}
      /\ unconsumed' = unconsumed \cup ({l} \ consumed)
      /\ UNCHANGED <<chainVars, consumed, pending, highestSavedHead, streamVars, step, newHeads,
                     backfillBlockNumber, poolVars, latestHead>>
  BY DEF sendLog, BroadcasterInv, PoolOK
<1>2. ChainOK' /\ StreamOK'
  BY <1>1, Unaffected
<1>3. DatabaseOK'
  BY <1>1 DEF BroadcasterInv, DatabaseOK, chainVars
<1>4. LoopOK' /\ PoolOK'
  BY <1>1 DEF BroadcasterInv, LoopOK, PoolOK, HeapCoversPool, chainVars, poolVars
<1> QED
  BY <1>2, <1>3, <1>4 DEF BroadcasterInv

LEMMA DeleteKeeps ==
  ASSUME BroadcasterInv, deleteOlderLogs
  PROVE  BroadcasterInv'
<1>1. PICK old \in SUBSET heap :
        /\ step = "send" /\ toSend = {} /\ step' = "loop"
        /\ pool' = {l \in pool : l.block \notin old}
        /\ heap' = heap \ old /\ pending' = Lowest(heap \ old)
        /\ UNCHANGED <<chainVars, consumed, unconsumed, highestSavedHead, streamVars, newHeads,
                       backfillBlockNumber, sendVars, received>>
  <2>1. {b \in heap : b < latestHead - keptLogsDepth} \in SUBSET heap
    OBVIOUS
  <2> QED
    BY <2>1 DEF deleteOlderLogs
<1>2. ChainOK' /\ StreamOK'
  BY <1>1, Unaffected
<1>3. Lowest(heap \ old) \in Blocks
  <2>1. heap \ old \in SUBSET Blocks
    BY Depths DEF BroadcasterInv, PoolOK, Blocks
  <2> QED
    BY <2>1, LowestIsBlock
<1>4. DatabaseOK'
  BY <1>1, <1>3 DEF BroadcasterInv, DatabaseOK, chainVars
<1>5. LoopOK' /\ PoolOK'
  BY <1>1 DEF BroadcasterInv, LoopOK, PoolOK, HeapCoversPool, chainVars, sendVars
<1> QED
  BY <1>2, <1>4, <1>5 DEF BroadcasterInv

\* Back to a new subscription, with the pool or without.
LEMMA ResubscribeKeeps ==
  ASSUME BroadcasterInv, NEW from \in Blocks, resubscribe(from),
         live' \in BOOLEAN, UNCHANGED poolVars \/ invalidatePool,
         consumed' \subseteq mined, unconsumed' \subseteq mined \ consumed'
  PROVE  BroadcasterInv'
<1>1. /\ step = "loop" /\ step' = "subscribe" /\ backfillBlockNumber' = from /\ since' = readUpTo
      /\ UNCHANGED <<chainVars, pending, highestSavedHead, chRawLogs, fetched, newLogs, newHeads,
                     sendVars, received>>
  BY DEF resubscribe
<1>2. readUpTo \in 0..MaxHeight
  BY ReadUpToIsBlock DEF BroadcasterInv
<1>3. ChainOK'
  BY <1>1, Unaffected
<1>4. mined' = mined /\ MinedRaw' = MinedRaw
  BY <1>1 DEF MinedRaw, chainVars
<1>5. DatabaseOK'
  BY <1>1, <1>4 DEF BroadcasterInv, DatabaseOK
<1>6. StreamOK'
  BY <1>1, <1>2, <1>4 DEF BroadcasterInv, StreamOK
<1>7. LoopOK' /\ PoolOK'
  BY <1>1, <1>4 DEF BroadcasterInv, LoopOK, PoolOK, HeapCoversPool, poolVars, sendVars,
                    invalidatePool
<1> QED
  BY <1>3, <1>5, <1>6, <1>7 DEF BroadcasterInv

LEMMA ErrorKeeps ==
  ASSUME BroadcasterInv, connectionError \/ addressesChanged
  PROVE  BroadcasterInv'
<1>1. Lowest(heap) \in Blocks /\ None \in Blocks
  <2>1. heap \in SUBSET Blocks
    BY Depths DEF BroadcasterInv, PoolOK, Blocks
  <2> QED
    BY <2>1, LowestIsBlock DEF Blocks
<1>2. consumed \subseteq mined /\ unconsumed \subseteq mined \ consumed /\ live \in BOOLEAN
  BY DEF BroadcasterInv, DatabaseOK, StreamOK
<1>3. CASE connectionError
  BY <1>1, <1>2, <1>3, ResubscribeKeeps DEF connectionError
<1>4. CASE addressesChanged
  BY <1>1, <1>2, <1>4, ResubscribeKeeps DEF addressesChanged
<1> QED
  BY <1>3, <1>4

LEMMA ReplayKeeps ==
  ASSUME BroadcasterInv, NEW fromBlock \in 0..height, NEW forceBroadcast \in BOOLEAN,
         onReplayRequest(fromBlock, forceBroadcast)
  PROVE  BroadcasterInv'
<1>1. PICK again \in SUBSET consumed :
        consumed' = consumed \ again /\ unconsumed' = unconsumed \cup again
  <2>1. {l \in consumed : forceBroadcast /\ l.block >= fromBlock} \in SUBSET consumed
    OBVIOUS
  <2> QED
    BY <2>1 DEF onReplayRequest
<1>2. fromBlock \in Blocks
  BY Depths DEF BroadcasterInv, ChainOK, Blocks
<1>3. consumed' \subseteq mined /\ unconsumed' \subseteq mined \ consumed' /\ live' \in BOOLEAN
  BY <1>1 DEF BroadcasterInv, DatabaseOK, StreamOK, onReplayRequest
<1> QED
  BY <1>2, <1>3, ResubscribeKeeps DEF onReplayRequest

-------------------------------------------------------------------------------
(* The job, crashes *)

LEMMA ConsumeKeeps ==
  ASSUME BroadcasterInv, NEW l \in received, MarkConsumed(l)
  PROVE  BroadcasterInv'
<1>1. /\ l \in mined /\ consumed' = consumed \cup {l} /\ unconsumed' = unconsumed \ {l}
      /\ UNCHANGED <<chainVars, pending, highestSavedHead, streamVars, step, newHeads,
                     backfillBlockNumber, poolVars, sendVars, received>>
  BY DEF MarkConsumed, BroadcasterInv, PoolOK
<1>2. ChainOK' /\ StreamOK' /\ PoolOK'
  BY <1>1, Unaffected DEF sendVars
<1>3. DatabaseOK'
  BY <1>1 DEF BroadcasterInv, DatabaseOK, chainVars
<1>4. LoopOK'
  BY <1>1 DEF BroadcasterInv, LoopOK, sendVars
<1> QED
  BY <1>2, <1>3, <1>4 DEF BroadcasterInv

LEMMA CrashKeeps ==
  ASSUME BroadcasterInv, Crash
  PROVE  BroadcasterInv'
<1>1. /\ live' = FALSE /\ chRawLogs' = <<>> /\ fetched' = 0 /\ newLogs' = <<>>
      /\ step' = "start" /\ newHeads' = None /\ backfillBlockNumber' = None
      /\ pool' = {} /\ heap' = {} /\ toSend' = {} /\ latestHead' = None
      /\ received' = {}
      /\ since' = IF Running THEN readUpTo ELSE since
      /\ UNCHANGED <<chainVars, dbVars>>
  BY DEF Crash
<1>2. ChainOK' /\ DatabaseOK'
  BY <1>1, Unaffected
<1>3. StreamOK'
  <2>1. <<>> \in Seq(MinedRaw') /\ Len(<<>>) = 0
    BY EmptySeq
  <2>2. chRawLogs' \in Seq(MinedRaw') /\ newLogs' \in Seq(MinedRaw') /\ Len(chRawLogs') = 0
    BY <1>1, <2>1, Zenon
  <2>3. since' \in 0..MaxHeight
    BY <1>1, ReadUpToIsBlock DEF BroadcasterInv, StreamOK
  <2>4. fetched' = 0 /\ live' = FALSE
    BY <1>1
  <2>5. fetched' \in 0..Len(chRawLogs')
    BY <2>2, <2>4
  <2> QED
    BY <2>2, <2>3, <2>4, <2>5 DEF StreamOK
<1>4. LoopOK' /\ PoolOK'
  BY <1>1 DEF BroadcasterInv, LoopOK, PoolOK, HeapCoversPool, Blocks
<1> QED
  BY <1>2, <1>3, <1>4 DEF BroadcasterInv

LEMMA BroadcasterKept ==
  ASSUME BroadcasterInv, [Next]_vars
  PROVE  BroadcasterInv'
<1>1. CASE UNCHANGED vars
  <2>1. UNCHANGED <<chainVars, dbVars, streamVars, step, newHeads, backfillBlockNumber, poolVars,
                    sendVars, received>>
    BY <1>1 DEF vars
  <2>2. LoopOK'
    BY <2>1 DEF BroadcasterInv, LoopOK, sendVars
  <2> QED
    BY <2>1, <2>2, Unaffected DEF BroadcasterInv, sendVars
<1>2. CASE chainStep
  BY <1>2, ChainKeeps
<1>3. CASE OnNewLongestChain
  BY <1>3, HeadsKeep
<1>4. CASE startResubscribeLoop \/ removeUnconsumed \/ createSubscription \/ backfillLogs
  BY <1>4, StartKeeps, CleanKeeps, SubscribeKeeps, BackfillKeeps
<1>5. CASE onNewLog \/ onNewHeads \/ (\E l \in toSend : sendLog(l)) \/ deleteOlderLogs
  BY <1>5, NewLogKeeps, NewHeadsKeep, SendKeeps, DeleteKeeps
<1>6. CASE connectionError \/ addressesChanged
  BY <1>6, ErrorKeeps
<1>7. CASE \E fromBlock \in 0..height, forceBroadcast \in BOOLEAN :
             onReplayRequest(fromBlock, forceBroadcast)
  BY <1>7, ReplayKeeps
<1>8. CASE \E l \in received : MarkConsumed(l)
  BY <1>8, ConsumeKeeps
<1>9. CASE Crash
  BY <1>9, CrashKeeps
<1> QED
  BY <1>1, <1>2, <1>3, <1>4, <1>5, <1>6, <1>7, <1>8, <1>9 DEF Next

-------------------------------------------------------------------------------
(* The theorems *)

LEMMA BroadcasterInvariant == Spec => []BroadcasterInv
<1>1. Init => BroadcasterInv
  BY BroadcasterInit
<1>2. BroadcasterInv /\ [Next]_vars => BroadcasterInv'
  BY BroadcasterKept
<1> QED
  BY <1>1, <1>2, PTL DEF Spec

LEMMA MinedRawLogs ==
  ASSUME ChainOK, NEW s \in Seq(MinedRaw)
  PROVE  s \in Seq(RawLogs)
<1>1. MinedRaw \subseteq RawLogs
  BY DEF ChainOK, MinedRaw, RawLogs
<1> QED
  BY <1>1, SeqMonotonic

\* Every variable of the log broadcaster keeps its type: in particular a row
\* of the database is for a log that was on the chain, and no log has a row
\* that is consumed and one that is not.
THEOREM TypesOfBroadcaster == Spec => []BroadcasterTypeOK
<1>1. BroadcasterInv => BroadcasterTypeOK
  <2> SUFFICES ASSUME BroadcasterInv PROVE BroadcasterTypeOK
    OBVIOUS
  <2>1. chRawLogs \in Seq(RawLogs) /\ newLogs \in Seq(RawLogs)
    BY MinedRawLogs DEF BroadcasterInv, StreamOK
  <2> QED
    BY <2>1 DEF BroadcasterInv, ChainOK, DatabaseOK, StreamOK, LoopOK, PoolOK, BroadcasterTypeOK
<1> QED
  BY <1>1, BroadcasterInvariant, PTL

\* A log of the pool is always found through the heap of block numbers, though
\* a reorganisation removes logs of the pool and not their numbers: none stays
\* for ever, and none is passed over at a new head.
THEOREM PoolCovered == Spec => []HeapCoversPool
<1>1. BroadcasterInv => HeapCoversPool
  BY DEF BroadcasterInv, PoolOK
<1> QED
  BY <1>1, BroadcasterInvariant, PTL

\* Each step of the broadcaster is one the abstract delivery may take.
LEMMA DeliverySteps ==
  ASSUME BroadcasterInv, [Next]_vars
  PROVE  [Delivery!Next]_Delivery!vars
<1> USE DEF Delivery!vars
<1> mined \subseteq Logs /\ canonical \subseteq mined
  BY DEF BroadcasterInv, ChainOK
<1>1. CASE UNCHANGED vars
  BY <1>1 DEF vars, chainVars, dbVars
<1>2. CASE chainStep
  <2>1. ChainOK' /\ mined \subseteq mined'
    BY <1>2, ChainMovesOn DEF BroadcasterInv, StreamOK, chainStep
  <2>2. mined' \in SUBSET Logs /\ canonical' \in SUBSET mined'
    BY <2>1 DEF ChainOK, Logs
  <2>3. UNCHANGED <<consumed, received>>
    BY <1>2 DEF chainStep, dbVars
  <2> QED
    BY <2>1, <2>2, <2>3 DEF Delivery!Next, Delivery!ChainMoves
<1>3. CASE OnNewLongestChain \/ startResubscribeLoop \/ removeUnconsumed \/ createSubscription
           \/ backfillLogs \/ onNewLog \/ onNewHeads \/ deleteOlderLogs
  BY <1>3 DEF OnNewLongestChain, startResubscribeLoop, removeUnconsumed, createSubscription,
              backfillLogs, onNewLog, onNewHeads, deleteOlderLogs, chainVars, dbVars
<1>4. CASE connectionError \/ addressesChanged
  BY <1>4 DEF connectionError, addressesChanged, resubscribe, chainVars
<1>5. ASSUME NEW l \in toSend, sendLog(l)
      PROVE  [Delivery!Next]_Delivery!vars
  <2>1. l \in mined /\ received' = received \cup {l} /\ UNCHANGED <<mined, canonical, consumed>>
    BY <1>5 DEF sendLog, BroadcasterInv, PoolOK, chainVars
  <2> QED
    BY <2>1 DEF Delivery!Next, Delivery!Deliver
<1>6. ASSUME NEW l \in received, MarkConsumed(l)
      PROVE  [Delivery!Next]_Delivery!vars
  <2>1. l \in Logs /\ consumed' = consumed \cup {l} /\ UNCHANGED <<mined, canonical, received>>
    BY <1>6 DEF MarkConsumed, BroadcasterInv, PoolOK, chainVars
  <2> QED
    BY <2>1 DEF Delivery!Next, Delivery!Consume
<1>7. ASSUME NEW fromBlock \in 0..height, NEW forceBroadcast \in BOOLEAN,
             onReplayRequest(fromBlock, forceBroadcast)
      PROVE  [Delivery!Next]_Delivery!vars
  <2>1. consumed' \in SUBSET consumed /\ UNCHANGED <<mined, canonical, received>>
    BY <1>7 DEF onReplayRequest, resubscribe, chainVars
  <2> QED
    BY <2>1 DEF Delivery!Next, Delivery!Replay
<1>8. CASE Crash
  <2>1. received' = {} /\ UNCHANGED <<mined, canonical, consumed>>
    BY <1>8 DEF Crash, chainVars, dbVars
  <2> QED
    BY <2>1 DEF Delivery!Next, Delivery!Crash
<1> QED
  BY <1>1, <1>2, <1>3, <1>4, <1>5, <1>6, <1>7, <1>8 DEF Next

\* The broadcaster implements the abstract delivery, without its fairness: it
\* sends the job logs that were on the chain and no others, nothing is consumed
\* that the job was not sent since the start of the node, and what is consumed
\* becomes unconsumed by a replay only.
THEOREM ImplementsDelivery == Spec => Delivery!Spec
<1>1. Init => Delivery!Init
  BY DEF Init, ChainInit, Delivery!Init
<1>2. BroadcasterInv /\ [Next]_vars => [Delivery!Next]_Delivery!vars
  BY DeliverySteps
<1> QED
  BY <1>1, <1>2, BroadcasterInvariant, PTL DEF Spec, Delivery!Spec
===============================================================================
