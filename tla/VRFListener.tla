----------------------------- MODULE VRFListener ------------------------------
(***************************************************************************)
(* The job of the oracle node that answers randomness requests             *)
(* (src/lib/chainlink/core/services/vrf/listener_v1.go).  Three threads    *)
(* meet in it: the log broadcaster delivers logs into a mailbox, the log   *)
(* goroutine empties it into a list of requests that wait for their        *)
(* confirmations, and the head goroutine takes those that have them and    *)
(* runs a pipeline for each.  Only what the database holds survives a      *)
(* crash.                                                                  *)
(***************************************************************************)
EXTENDS VRFCoordinator, Integers, FiniteSets, Sequences, SequencesExt, FiniteSetsExt

CONSTANTS
  MinConfs,          \* MinIncomingConfirmations of the job
  MaxConfs,          \* 200
  MailboxCapacity,
  Lookback, PruneInterval,   \* of the deduper: the finality depth, and 100
  CountDepth,        \* 10000: for how many blocks fulfilments are counted
  IndexLag,          \* 5: how far behind the head the coordinator is asked
  Word,              \* 2^64, the modulus of a block number
  Faults,            \* what may fail: see Faulty
  \* Bounds of an instance.
  MaxCrashes, MaxReplays

VARIABLES
  \* The database.
  consumed,    \* log_broadcasts.consumed
  unfinished,  \* pipeline runs created and not finished
  \* What was done, for the properties.
  runs,        \* pipeline runs started for each request log
  \* The listener.
  latestHead, newHead,
  delivered, lastPruneHeight,   \* the deduper
  mailbox,                      \* reqLogs, the oldest first
  reqs,
  respCount, blockNumberToReqID,
  \* The head goroutine.
  step, toProcess, toRetry,
  \* The pipeline runner.
  resuming,    \* runs found unfinished at the start
  \* Of the bounds.
  crashes, replays

dbVars == <<consumed, unfinished, runs>>
queueVars == <<delivered, lastPruneHeight, mailbox>>
countVars == <<respCount, blockNumberToReqID>>
workVars == <<step, toProcess, toRetry, resuming>>
boundVars == <<crashes, replays>>
vars == <<chainVars, sent, dbVars, latestHead, newHead, queueVars, reqs, countVars,
          workVars, boundVars>>

\* db: a query or a transaction fails; call: the node of the chain gives no
\* answer; run: a task of the pipeline fails; age: a request gets too old.
FaultKinds == {"db", "call", "run", "age"}

ASSUME ListenerAssumption ==
  /\ MinConfs \in Nat /\ MaxConfs \in Nat /\ MailboxCapacity \in Nat
  /\ Lookback \in Nat /\ PruneInterval \in Nat
  /\ CountDepth \in Nat /\ IndexLag \in Nat /\ Word \in Nat
  /\ MaxHeight < Word
  /\ Faults \subseteq FaultKinds
  /\ MaxCrashes \in Nat /\ MaxReplays \in Nat

MayFail(kind) == kind \in Faults

Idle == "idle"

Init ==
  /\ ChainInit /\ sent = {}
  /\ consumed = {} /\ unfinished = {}
  /\ runs = [l \in RequestLogs |-> 0]
  /\ latestHead = 0 /\ newHead = FALSE
  /\ delivered = {} /\ lastPruneHeight = 0 /\ mailbox = <<>> /\ reqs = <<>>
  /\ respCount = [id \in Requests |-> 0] /\ blockNumberToReqID = {}
  /\ step = Idle /\ toProcess = <<>> /\ toRetry = <<>> /\ resuming = {}
  /\ crashes = 0 /\ replays = 0

-------------------------------------------------------------------------------
(* Delivery *)

prune(keys, block) ==
  IF block - lastPruneHeight < PruneInterval THEN keys
  ELSE {l \in keys : l.block >= block - Lookback}

Deliver(l) ==
  IF Len(mailbox) = MailboxCapacity /\ MailboxCapacity > 0
  THEN Append(Tail(mailbox), l)
  ELSE Append(mailbox, l)

\* A fault checked against Known: a log known by the number of its block.
KnownByNumber(l) == \E k \in delivered : k.id = l.id /\ k.kind = l.kind /\ k.block = l.block

\* shouldDeliver: a log is known by the hash of its block.
Known(l) == l \in delivered

\* The broadcaster may deliver a log many times, also one that was consumed
\* or taken back by a reorganisation since it looked.
HandleLog(l) ==
  /\ delivered' = prune(delivered \cup {l}, l.block)
  /\ lastPruneHeight' = IF l.block - lastPruneHeight < PruneInterval
                        THEN lastPruneHeight ELSE l.block
  /\ mailbox' = IF Known(l) THEN mailbox ELSE Deliver(l)
  /\ UNCHANGED <<chainVars, sent, dbVars, latestHead, newHead, reqs, countVars,
                 workVars, boundVars>>

ReplayStartedCallback ==
  /\ replays < MaxReplays
  /\ replays' = replays + 1
  /\ delivered' = {}
  /\ UNCHANGED <<chainVars, sent, dbVars, latestHead, newHead, lastPruneHeight,
                 mailbox, reqs, countVars, workVars, crashes>>

\* A head announced late may be behind the latest one.
OnNewLongestChain ==
  /\ latestHead' = Max({latestHead, height})
  /\ newHead' = TRUE
  /\ UNCHANGED <<chainVars, sent, dbVars, queueVars, reqs, countVars, workVars, boundVars>>

-------------------------------------------------------------------------------
(* The log goroutine *)

\* The doubled confirmations are an unsigned number of the width of a block number.
getConfirmedAt(l) ==
  l.block + Min({(MinConfs * 2 ^ respCount[l.id]) % Word, MaxConfs})

\* markLogAsConsumed logs an error and goes on.
markConsumed(l) ==
  consumed' \in {consumed \cup {l}} \cup (IF MayFail("db") THEN {consumed} ELSE {})

\* A fulfilment is counted unless it was seen before; on an error it is left
\* to be sent again.
countFulfilment(l) ==
  \/ /\ l \notin consumed
     /\ respCount' = [respCount EXCEPT ![l.id] = @ + 1]
     /\ blockNumberToReqID' = blockNumberToReqID \cup {[block |-> l.block, id |-> l.id]}
     /\ markConsumed(l)
  \/ /\ l \in consumed \/ MayFail("db")
     /\ UNCHANGED <<countVars, consumed>>

handleLog ==
  /\ mailbox # <<>>
  /\ mailbox' = Tail(mailbox)
  /\ LET l == Head(mailbox)
     IN  \/ l.kind = "fulfilled" /\ countFulfilment(l) /\ UNCHANGED reqs
         \/ /\ l.kind = "request"
            /\ reqs' = Append(reqs, [log |-> l, confirmedAt |-> getConfirmedAt(l)])
            /\ UNCHANGED <<countVars, consumed>>
  /\ UNCHANGED <<chainVars, sent, unfinished, runs, latestHead, newHead, delivered,
                 lastPruneHeight, workVars, boundVars>>

-------------------------------------------------------------------------------
(* The head goroutine *)

\* The places of the list with the requests that are confirmed, or that are not.
Places(confirmed) == {i \in DOMAIN reqs : confirmed <=> reqs[i].confirmedAt <= latestHead}

\* The list of what is at some places is in their order.
InOrder(places) ==
  {order \in SetToSeqs(places) : \A i, j \in DOMAIN order : i < j => order[i] < order[j]}

reqsAt(order) == [i \in DOMAIN order |-> reqs[order[i]]]

extractConfirmedLogs ==
  /\ step = Idle
  /\ newHead
  /\ newHead' = FALSE
  /\ \E ready \in InOrder(Places(TRUE)), rest \in InOrder(Places(FALSE)) :
       toProcess' = reqsAt(ready) /\ reqs' = reqsAt(rest)
  /\ step' = IF toProcess' = <<>> THEN "finish" ELSE "check"
  /\ UNCHANGED <<chainVars, sent, dbVars, latestHead, queueVars, countVars, toRetry,
                 resuming, boundVars>>

request == Head(toProcess)

\* The end of ProcessRequest: what did not succeed is kept for the next head.
processed(success) ==
  /\ toProcess' = Tail(toProcess)
  /\ toRetry' = IF success THEN toRetry ELSE Append(toRetry, request)
  /\ step' = IF Len(toProcess) = 1 THEN "finish" ELSE "check"

goOn(next) == step' = next /\ UNCHANGED <<toProcess, toRetry>>

listening == <<chainVars, latestHead, newHead, queueVars, reqs,
               countVars, resuming, boundVars>>

\* A fault checked against checkConsumed: the pending list is trusted.
trustList == step = "check" /\ goOn("callback") /\ UNCHANGED <<listening, sent, dbVars>>

\* shouldProcessLog: an error counts as consumed.
checkConsumed ==
  /\ step = "check"
  /\ \/ request.log \notin consumed /\ goOn("callback")
     \/ (request.log \in consumed \/ MayFail("db")) /\ processed(TRUE)
  /\ UNCHANGED <<listening, sent, dbVars>>

\* The coordinator is asked as of a block; there is no answer when the chain
\* is not that long, and the request is processed anyway.
checkFulfilled ==
  LET block == Max({request.confirmedAt, (latestHead - IndexLag) % Word})
      answered == block <= height
  IN  /\ step = "callback"
      /\ \/ /\ (answered /\ Open(request.log.id, block)) \/ ~answered \/ MayFail("call")
            /\ goOn("run")
            /\ UNCHANGED consumed
         \/ /\ (answered /\ ~Open(request.log.id, block)) \/ MayFail("age")
            /\ markConsumed(request.log)
            /\ processed(TRUE)
      /\ UNCHANGED <<listening, sent, unfinished, runs>>

\* A fault checked against startRun: the run is created on its own, and nothing
\* marks the log when the node stops after it.
startRunFirst ==
  /\ step = "run"
  /\ unfinished' = unfinished \cup {request.log}
  /\ runs' = [runs EXCEPT ![request.log] = @ + 1]
  /\ goOn("tasks")
  /\ UNCHANGED <<listening, sent, consumed>>

\* One transaction creates the run and marks the log as consumed.
startRun ==
  /\ step = "run"
  /\ \/ /\ consumed' = consumed \cup {request.log}
        /\ unfinished' = unfinished \cup {request.log}
        /\ runs' = [runs EXCEPT ![request.log] = @ + 1]
        /\ goOn("tasks")
     \/ MayFail("db") /\ processed(FALSE) /\ UNCHANGED dbVars
  /\ UNCHANGED <<listening, sent>>

\* The tasks of a run and StoreRun.  The transaction is created by its task
\* and stays when the run cannot be stored.
execute(l, success) ==
  \/ success /\ sent' = sent \cup {l} /\ unfinished' = unfinished \ {l}
  \/ ~success /\ MayFail("run") /\ UNCHANGED sent /\ unfinished' = unfinished \ {l}
  \/ ~success /\ MayFail("db") /\ sent' = sent \cup {l} /\ UNCHANGED unfinished

finishRun ==
  /\ step = "tasks"
  /\ \E success \in BOOLEAN : execute(request.log, success) /\ processed(success)
  /\ UNCHANGED <<listening, consumed, runs>>

\* Block numbers are unsigned: before block CountDepth every entry is old.
pruneConfirmedRequestCounts ==
  LET old == {e \in blockNumberToReqID : e.block <= (latestHead - CountDepth) % Word}
  IN  /\ blockNumberToReqID' = blockNumberToReqID \ old
      /\ respCount' = [id \in Requests |->
                         IF \E e \in old : e.id = id THEN 0 ELSE respCount[id]]

\* A fault checked against keepForRetry: requests that came meanwhile are lost.
keepOnlyRetries ==
  /\ step = "finish"
  /\ step' = Idle
  /\ reqs' = toRetry
  /\ toRetry' = <<>>
  /\ pruneConfirmedRequestCounts
  /\ UNCHANGED <<chainVars, sent, dbVars, latestHead, newHead, queueVars, toProcess,
                 resuming, boundVars>>

keepForRetry ==
  /\ step = "finish"
  /\ step' = Idle
  /\ reqs' = reqs \o toRetry
  /\ toRetry' = <<>>
  /\ pruneConfirmedRequestCounts
  /\ UNCHANGED <<chainVars, sent, dbVars, latestHead, newHead, queueVars, toProcess,
                 resuming, boundVars>>

runHeadListener ==
  \/ extractConfirmedLogs \/ checkConsumed \/ checkFulfilled
  \/ startRun \/ finishRun \/ keepForRetry

-------------------------------------------------------------------------------
(* Crash and restart *)

\* scheduleUnfinishedRuns of the pipeline runner.
ResumeRun(l) ==
  /\ l \in resuming
  /\ resuming' = resuming \ {l}
  /\ \E success \in BOOLEAN : execute(l, success)
  /\ UNCHANGED <<chainVars, consumed, runs, latestHead, newHead,
                 queueVars, reqs, countVars, step, toProcess, toRetry, boundVars>>

\* The fulfilments counted at a start are read from the transactions of the
\* node: those waiting, or those in the blocks not final yet.
GetStartingResponseCounts ==
  {counts \in [Requests -> 0..Cardinality(sent)] :
     \A id \in Requests : counts[id] <= Cardinality({l \in sent : l.id = id})}

\* What the listener holds is gone; the head broadcaster may have no head yet.
Restart ==
  /\ crashes < MaxCrashes
  /\ crashes' = crashes + 1
  /\ latestHead' \in {0, height} /\ newHead' = FALSE
  /\ delivered' = {} /\ lastPruneHeight' = 0 /\ mailbox' = <<>> /\ reqs' = <<>>
  /\ respCount' \in GetStartingResponseCounts /\ blockNumberToReqID' = {}
  /\ step' = Idle /\ toProcess' = <<>> /\ toRetry' = <<>> /\ resuming' = unfinished
  /\ UNCHANGED <<chainVars, sent, dbVars, replays>>

-------------------------------------------------------------------------------

ChainStep ==
  CoordinatorNext /\ UNCHANGED <<dbVars, latestHead, newHead, queueVars, reqs, countVars,
                           workVars, boundVars>>

Next ==
  \/ ChainStep
  \/ \E l \in mined : HandleLog(l)
  \/ ReplayStartedCallback
  \/ OnNewLongestChain
  \/ handleLog
  \/ runHeadListener
  \/ \E l \in resuming : ResumeRun(l)
  \/ Restart

Spec == Init /\ [][Next]_vars

\* The goroutines run, heads go on being announced, the runner resumes what it
\* found, and the broadcaster sends a log of the chain again as long as it was
\* not consumed.
FairSpec ==
  /\ Spec
  /\ WF_vars(ChainStep /\ extend({}))
  /\ WF_vars(OnNewLongestChain)
  /\ WF_vars(handleLog)
  /\ WF_vars(runHeadListener)
  /\ \A l \in RequestLogs :
       /\ WF_vars(l \in canonical \ consumed /\ HandleLog(l))
       /\ WF_vars(ResumeRun(l))

-------------------------------------------------------------------------------
(* Properties *)

Request == [log : RequestLogs, confirmedAt : Nat]

\* Every variable stays in the set its Go type and use give it.
TypeOK ==
  /\ height \in 0..MaxHeight /\ fork \in 0..MaxForks
  /\ mined \subseteq Logs /\ canonical \subseteq mined
  /\ sent \subseteq RequestLogs
  /\ consumed \subseteq mined /\ unfinished \subseteq consumed
  /\ runs \in [RequestLogs -> Nat]
  /\ latestHead \in 0..MaxHeight /\ newHead \in BOOLEAN
  /\ delivered \subseteq mined /\ lastPruneHeight \in 0..MaxHeight
  /\ mailbox \in Seq(mined)
  /\ MailboxCapacity > 0 => Len(mailbox) <= MailboxCapacity
  /\ reqs \in Seq(Request) /\ toProcess \in Seq(Request) /\ toRetry \in Seq(Request)
  /\ respCount \in [Requests -> Nat]
  /\ blockNumberToReqID \subseteq [block : 1..MaxHeight, id : Requests]
  /\ step \in {Idle, "check", "callback", "run", "tasks", "finish"}
  /\ resuming \subseteq unfinished

\* However often a log is delivered, and through crashes and replays, one run
\* at most is started for it.
RunsOnce == \A l \in RequestLogs : runs[l] <= 1

held == {r.log : r \in ToSet(reqs) \cup ToSet(toProcess) \cup ToSet(toRetry)}
          \cup ToSet(mailbox)

\* shouldProcessLog says: "Do not process, let lb resend it as a retry mechanism."
\* A request that is not consumed and that the listener no longer holds can be
\* sent again: the deduper lets it through.
ResendIsARetry ==
  \A l \in RequestLogs : l \in delivered => l \in consumed \/ l \in held

\* "we only mark them confirmed once we send a corresponding fulfillment
\* transaction": what is consumed was answered, was no longer asked, or has a
\* run that is not over.
ConsumedOnceSent ==
  \A l \in RequestLogs : runs[l] > 0 => l \in sent \cup unfinished

\* "Remove all entries 10000 blocks or older": a count is not removed before.
PrunesOnlyOld ==
  [][crashes' = crashes =>
       \A e \in blockNumberToReqID \ blockNumberToReqID' :
         e.block + CountDepth <= latestHead]_vars

\* A request on the chain gets its answer sent unless a reorganisation takes it
\* back or it is answered already, through crashes, replays and redeliveries.
EveryRequestServed ==
  \A l \in RequestLogs :
    l \in canonical ~> l \notin canonical \/ l \in sent \/ ~Open(l.id, height)
==============================================================================
