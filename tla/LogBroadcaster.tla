---------------------------- MODULE LogBroadcaster ----------------------------
(***************************************************************************)
(* The log broadcaster of the oracle node                                  *)
(* (src/lib/chainlink/core/chains/evm/log): one goroutine that subscribes  *)
(* to logs, fetches older ones, keeps them in a pool until they have their *)
(* confirmations, and sends them to a job at every new head until they are *)
(* final.  What must survive a crash is in the database: the broadcasts    *)
(* not consumed yet and the lowest block with logs still pending.          *)
(***************************************************************************)
EXTENDS Chain, Integers, FiniteSets, Sequences, SequencesExt, FiniteSetsExt

CONSTANTS
  Confs,               \* highestNumConfirmations, those of the job
  FinalityDepth,       \* EvmFinalityDepth
  BackfillDepth,       \* BlockBackfillDepth
  \* Bounds of an instance.
  LongStops,           \* the node may be stopped for long: see KeepsUp
  LastLogBlock, MaxCrashes,
  MaxErrors            \* connections lost, jobs that come or go, replays

VARIABLES
  \* The database.
  consumed, unconsumed,   \* log_broadcasts
  pending,                \* log_broadcasts_pending
  highestSavedHead,
  \* The subscription.
  live,                   \* the node of the chain sends logs
  chRawLogs,              \* logs not read yet, in order
  fetched,                \* how many of its first a lost subscription spares
  newLogs,                \* those of a new subscription, not appended yet
  since,                  \* readUpTo, when the subscription was last sound
  \* The broadcaster.
  step, newHeads, backfillBlockNumber,
  pool, heap,             \* logs of the pool; block numbers
  toSend, latestHead,
  \* The job.
  received,
  \* Of the bounds.
  crashes, errors

dbVars == <<consumed, unconsumed, pending, highestSavedHead>>
streamVars == <<live, chRawLogs, fetched, newLogs, since>>
poolVars == <<pool, heap>>
sendVars == <<toSend, latestHead>>
boundVars == <<crashes, errors>>
vars == <<chainVars, dbVars, streamVars, step, newHeads, backfillBlockNumber, poolVars,
          sendVars, received, boundVars>>

ASSUME BroadcasterAssumption ==
  /\ Confs \in Nat \ {0} /\ FinalityDepth \in Nat /\ BackfillDepth \in Nat \ {0}
  /\ LastLogBlock \in Nat /\ LongStops \in BOOLEAN
  /\ MaxCrashes \in Nat /\ MaxErrors \in Nat

Logs == [block : 1..MaxHeight, fork : 0..MaxForks]

None == -1   \* a null of the database or of the program

keptLogsDepth == Max({FinalityDepth, Confs})

Init ==
  /\ ChainInit
  /\ consumed = {} /\ unconsumed = {} /\ pending = None /\ highestSavedHead = 0
  /\ live = FALSE /\ chRawLogs = <<>> /\ fetched = 0 /\ newLogs = <<>> /\ since = 0
  /\ step = "start" /\ newHeads = None /\ backfillBlockNumber = None
  /\ pool = {} /\ heap = {}
  /\ toSend = {} /\ latestHead = None
  /\ received = {}
  /\ crashes = 0 /\ errors = 0

-------------------------------------------------------------------------------
(* The chain and the node of the chain *)

Running == step \in {"loop", "send"}

InOrder(logs) ==
  CHOOSE s \in SetToSeqs(logs) :
    \A i, j \in 1..Cardinality(logs) : i < j => s[i].block <= s[j].block

Raw(logs, removed) ==
  [i \in 1..Cardinality(logs) |-> [log |-> InOrder(logs)[i], removed |-> removed]]

\* A subscription that is sound gets every log, and every log taken back.
emit(raw) ==
  /\ chRawLogs' = IF live /\ step # "backfill" THEN chRawLogs \o raw ELSE chRawLogs
  /\ newLogs' = IF step = "backfill" THEN newLogs \o raw ELSE newLogs
  /\ UNCHANGED <<live, fetched>>

\* The last block whose logs a broken connection does not lose.
readUpTo ==
  Min({height} \cup
      {chRawLogs[i].log.block - 1 : i \in fetched + 1..Len(chRawLogs)})

\* What BlockBackfillDepth is for: a log is sent within so many blocks of its
\* confirmations, and a broken connection is over within so many blocks of the
\* last log read.  How long the node is stopped does not matter.
UpToDate ==
  \A l \in canonical \ (consumed \cup unconsumed) :
    height - l.block < BackfillDepth + Confs

KeepsUp ==
  IF LongStops /\ step = "start" THEN TRUE
  ELSE UpToDate /\ (Running \/ height - since < BackfillDepth)

Mine ==
  /\ KeepsUp
  /\ \E logs \in {{}, {[block |-> height + 1, fork |-> fork]}} :
       /\ logs # {} => height < LastLogBlock
       /\ extend(logs)
       /\ emit(Raw(logs, FALSE))
  /\ UNCHANGED since

TakeBack(depth) ==
  /\ Reorg(depth)
  /\ emit(Raw(TakenBack(depth), TRUE))
  /\ since' = Min({since, height - depth})

chainStep ==
  /\ Mine \/ \E depth \in 1..ReorgDepth : TakeBack(depth)
  /\ UNCHANGED <<dbVars, step, newHeads, backfillBlockNumber, poolVars, sendVars,
                 received, boundVars>>

\* The head tracker saves a head, then announces it; a mailbox keeps the last.
OnNewLongestChain ==
  /\ step # "start"
  /\ highestSavedHead' = Max({highestSavedHead, height})
  /\ newHeads' = height
  /\ UNCHANGED <<chainVars, consumed, unconsumed, pending, streamVars, step,
                 backfillBlockNumber, poolVars, sendVars, received, boundVars>>

-------------------------------------------------------------------------------
(* Start and subscription *)

\* The lowest of the blocks given, of which some may be missing.
Lowest(blocks) == IF blocks \ {None} = {} THEN None ELSE Min(blocks \ {None})

minUnconsumed == Lowest({l.block : l \in unconsumed})

fromHighestSavedHead == Max({highestSavedHead - Confs - BackfillDepth, 0})

\* startResubscribeLoop and the first half of Reinitialize.
startResubscribeLoop ==
  /\ step = "start"
  /\ LET lowest == Lowest({minUnconsumed, pending})
     IN  /\ backfillBlockNumber' = Lowest({fromHighestSavedHead, lowest})
         /\ pending' = IF minUnconsumed = None THEN pending ELSE lowest
         /\ step' = "clean"
  /\ UNCHANGED <<chainVars, consumed, unconsumed, highestSavedHead, streamVars, newHeads,
                 poolVars, sendVars, received, boundVars>>

removeUnconsumed ==
  /\ step = "clean"
  /\ unconsumed' = {}
  /\ step' = "subscribe"
  /\ UNCHANGED <<chainVars, consumed, pending, highestSavedHead, streamVars, newHeads,
                 backfillBlockNumber, poolVars, sendVars, received, boundVars>>

\* What the old subscription had not handed over yet may be lost with it; the
\* logs of a backfill are in memory.
createSubscription ==
  /\ step = "subscribe"
  /\ live' = TRUE
  /\ \E n \in fetched..Len(chRawLogs) : chRawLogs' = SubSeq(chRawLogs, 1, n)
  /\ newLogs' = <<>>
  /\ step' = "backfill"
  /\ UNCHANGED <<chainVars, dbVars, fetched, since, newHeads, backfillBlockNumber, poolVars,
                 sendVars, received, boundVars>>

backfillFrom ==
  IF backfillBlockNumber # None THEN backfillBlockNumber
  ELSE IF height >= BackfillDepth THEN height - BackfillDepth ELSE 0

backfillLogs ==
  /\ step = "backfill"
  /\ LET backfilled == chRawLogs \o Raw({l \in canonical : l.block >= backfillFrom}, FALSE)
     IN chRawLogs' = backfilled \o newLogs /\ fetched' = Len(backfilled)
  /\ newLogs' = <<>>
  /\ backfillBlockNumber' = None
  /\ step' = "loop"
  /\ since' = height
  /\ UNCHANGED <<chainVars, dbVars, live, newHeads, poolVars, sendVars, received, boundVars>>

-------------------------------------------------------------------------------
(* The event loop *)

\* The blocks of the heap stay when a block is removed: only its logs go.
addLog(l) ==
  /\ pool' = pool \cup {l}
  /\ heap' = heap \cup {l.block}
  /\ pending' = IF \A b \in heap : l.block < b THEN l.block ELSE pending

\* A fault checked against removeBlock: its number leaves the heap too.
removeBlockNumber(l) ==
  pool' = pool \ {l} /\ heap' = heap \ {l.block} /\ UNCHANGED pending

removeBlock(l) == pool' = pool \ {l} /\ UNCHANGED <<heap, pending>>

onNewLog ==
  /\ step = "loop"
  /\ chRawLogs # <<>>
  /\ chRawLogs' = Tail(chRawLogs)
  /\ fetched' = Max({fetched - 1, 0})
  /\ LET raw == Head(chRawLogs)
     IN IF raw.removed THEN removeBlock(raw.log) ELSE addLog(raw.log)
  /\ UNCHANGED <<chainVars, consumed, unconsumed, highestSavedHead, live, newLogs, since,
                 step, newHeads, backfillBlockNumber, sendVars, received, boundVars>>

getLogsToSend(head) == {l \in pool : l.block \in Min(heap)..head}

\* isOldEnough, and not consumed when the database was asked.
onNewHeads ==
  /\ step = "loop"
  /\ newHeads # None
  /\ newHeads' = None
  /\ latestHead' = newHeads
  /\ toSend' = {l \in getLogsToSend(newHeads) :
                  l.block + Confs - 1 <= newHeads /\ l \notin consumed}
  /\ step' = "send"
  /\ UNCHANGED <<chainVars, dbVars, streamVars, backfillBlockNumber, poolVars, received,
                 boundVars>>

\* A fault checked against sendLog: the row is overwritten if there is one.
overwriteBroadcast(l) ==
  /\ step = "send"
  /\ l \in toSend
  /\ toSend' = toSend \ {l}
  /\ unconsumed' = unconsumed \cup {l}
  /\ received' = received \cup {l}
  /\ UNCHANGED <<chainVars, consumed, pending, highestSavedHead, streamVars, step, newHeads,
                 backfillBlockNumber, poolVars, latestHead, boundVars>>

\* CreateBroadcast, unless there is one, and HandleLog of the job.
sendLog(l) ==
  /\ step = "send"
  /\ l \in toSend
  /\ toSend' = toSend \ {l}
  /\ unconsumed' = unconsumed \cup ({l} \ consumed)
  /\ received' = received \cup {l}
  /\ UNCHANGED <<chainVars, consumed, pending, highestSavedHead, streamVars, step, newHeads,
                 backfillBlockNumber, poolVars, latestHead, boundVars>>

\* deleteOlderLogs and SetPendingMinBlock.
deleteOlderLogs ==
  LET old == {b \in heap : b < latestHead - keptLogsDepth}
  IN  /\ step = "send"
      /\ toSend = {}
      /\ pool' = {l \in pool : l.block \notin old}
      /\ heap' = heap \ old
      /\ pending' = Lowest(heap \ old)
      /\ step' = "loop"
      /\ UNCHANGED <<chainVars, consumed, unconsumed, highestSavedHead, streamVars, newHeads,
                     backfillBlockNumber, sendVars, received, boundVars>>

\* Back to a new subscription, with what invalidatePool leaves.  BackfillDepth
\* is more than the blocks whose logs are still on their way.
resubscribe(from) ==
  /\ step = "loop"
  /\ height - readUpTo <= BackfillDepth
  /\ step' = "subscribe"
  /\ backfillBlockNumber' = from
  /\ since' = readUpTo
  /\ UNCHANGED <<chainVars, pending, highestSavedHead, chRawLogs, fetched, newLogs, newHeads,
                 sendVars, received, crashes>>

invalidatePool == pool' = {} /\ heap' = {}

\* A fault checked against connectionError: the pool goes, its blocks are not
\* fetched again.
dropPool ==
  /\ errors < MaxErrors
  /\ errors' = errors + 1
  /\ live' = FALSE
  /\ invalidatePool
  /\ resubscribe(None)
  /\ UNCHANGED <<consumed, unconsumed>>

connectionError ==
  /\ errors < MaxErrors
  /\ errors' = errors + 1
  /\ live' = FALSE
  /\ invalidatePool
  /\ resubscribe(Lowest(heap))
  /\ UNCHANGED <<consumed, unconsumed>>

\* Another job came or went, so the addresses to subscribe to changed.
addressesChanged ==
  /\ errors < MaxErrors
  /\ errors' = errors + 1
  /\ resubscribe(None)
  /\ UNCHANGED <<consumed, unconsumed, live, poolVars>>

\* "It is generally assumed that this will only be performed rarely and manually
\* by someone who knows what he is doing": no log still to be sent is left out.
KnowsWhatHeIsDoing(fromBlock) ==
  \A l \in canonical \ (consumed \cup received) : fromBlock <= l.block

onReplayRequest(fromBlock, forceBroadcast) ==
  /\ KnowsWhatHeIsDoing(fromBlock)
  /\ errors < MaxErrors
  /\ errors' = errors + 1
  /\ invalidatePool
  /\ resubscribe(fromBlock)
  /\ LET again == {l \in consumed : forceBroadcast /\ l.block >= fromBlock}
     IN consumed' = consumed \ again /\ unconsumed' = unconsumed \cup again
  /\ UNCHANGED live

-------------------------------------------------------------------------------
(* The job, crashes *)

MarkConsumed(l) ==
  /\ l \in received \ consumed
  /\ consumed' = consumed \cup {l}
  /\ unconsumed' = unconsumed \ {l}
  /\ UNCHANGED <<chainVars, pending, highestSavedHead, streamVars, step, newHeads,
                 backfillBlockNumber, poolVars, sendVars, received, boundVars>>

\* The node does not crash again before it caught up with what it missed.
Crash ==
  /\ UpToDate
  /\ crashes < MaxCrashes
  /\ crashes' = crashes + 1
  /\ live' = FALSE /\ chRawLogs' = <<>> /\ fetched' = 0 /\ newLogs' = <<>>
  /\ step' = "start" /\ newHeads' = None /\ backfillBlockNumber' = None
  /\ pool' = {} /\ heap' = {} /\ toSend' = {} /\ latestHead' = None
  /\ received' = {}
  /\ since' = IF Running THEN readUpTo ELSE since
  /\ UNCHANGED <<chainVars, dbVars, errors>>

Next ==
  \/ chainStep
  \/ OnNewLongestChain
  \/ startResubscribeLoop \/ removeUnconsumed \/ createSubscription \/ backfillLogs
  \/ onNewLog \/ onNewHeads \/ (\E l \in toSend : sendLog(l)) \/ deleteOlderLogs
  \/ connectionError \/ addressesChanged
  \/ \E fromBlock \in 0..height, forceBroadcast \in BOOLEAN :
       onReplayRequest(fromBlock, forceBroadcast)
  \/ \E l \in received : MarkConsumed(l)
  \/ Crash

Spec == Init /\ [][Next]_vars

\* The chain grows and its heads are announced; the goroutine runs, and its
\* select, which picks at random, leaves neither logs nor heads for ever.
FairSpec ==
  /\ Spec
  /\ WF_vars(Mine /\ chainStep) /\ WF_vars(OnNewLongestChain)
  /\ WF_vars(startResubscribeLoop) /\ WF_vars(removeUnconsumed)
  /\ WF_vars(createSubscription) /\ WF_vars(backfillLogs)
  /\ SF_vars(onNewLog) /\ SF_vars(onNewHeads)
  /\ WF_vars(\E l \in toSend : sendLog(l)) /\ WF_vars(deleteOlderLogs)

-------------------------------------------------------------------------------
(* Properties *)

Blocks == {None} \cup 0..MaxHeight
RawLogs == [log : Logs, removed : BOOLEAN]

\* Every variable stays in the set its Go type and use give it.
BroadcasterTypeOK ==
  /\ mined \subseteq Logs /\ canonical \subseteq mined
  /\ consumed \subseteq mined /\ unconsumed \subseteq mined \ consumed
  /\ pending \in Blocks /\ highestSavedHead \in 0..MaxHeight
  /\ live \in BOOLEAN /\ since \in 0..MaxHeight
  /\ chRawLogs \in Seq(RawLogs) /\ newLogs \in Seq(RawLogs)
  /\ fetched \in 0..Len(chRawLogs)
  /\ step \in {"start", "clean", "subscribe", "backfill", "loop", "send"}
  /\ newHeads \in Blocks /\ backfillBlockNumber \in Blocks
  /\ pool \subseteq mined /\ heap \subseteq 1..MaxHeight
  /\ toSend \subseteq pool /\ latestHead \in Blocks
  /\ received \subseteq mined

\* Every log of the pool is found through the heap, though blocks are removed
\* from the pool and not from the heap: none is forgotten or kept for ever.
HeapCoversPool == \A l \in pool : l.block \in heap

RestartBlock == Lowest({fromHighestSavedHead, minUnconsumed, pending})

\* Were the node to crash now, the backfill of its next start would reach back
\* to every log of the chain the job did not consume.  Reinitialize says it:
\* "Safe to delete old unconsumed entries since the pending minimum block
\* covers this range."
CrashSafe == \A l \in canonical \ consumed : l.block >= RestartBlock

\* After a lost connection the logs of the last BackfillDepth blocks are fetched
\* again: "the number of blocks before the current HEAD that the log broadcaster
\* will try to re-consume logs from" (docs/CONFIG.md:3716).
NonePassedOver ==
  step = "subscribe" /\ ~ live =>
    \A l \in canonical : l.block > height - BackfillDepth => l.block >= backfillFrom

Delivery == INSTANCE LogDelivery

\* The job is sent logs of the chain only, and every log that stays on the
\* chain and that it did not consume, after every start.
RefinesDelivery == Delivery!FairSpec
==============================================================================
