------------------------------- MODULE TxManager ------------------------------
(***************************************************************************)
(* The transaction manager of the oracle node                              *)
(* (src/lib/chainlink/core/chains/evm/txmgr) for one of its keys.  The     *)
(* broadcaster gives the queued transactions their nonces and sends them,  *)
(* the confirmer looks for their receipts at every head, raises the price  *)
(* of those that wait, and sends those again that a reorganisation took    *)
(* back.  Both work on the database, which is all that survives a crash.   *)
(***************************************************************************)
EXTENDS Chain, Integers, FiniteSets, FiniteSetsExt

CONSTANTS
  Txs,             \* the transactions, by their id
  FinalityDepth, BumpThreshold, BumpDepth, MaxInFlight,
  MinConfirmations,   \* those a job waits for
  NoTx,
  HasChecker,      \* are the transactions checked before they are sent
  Faults,          \* what may go wrong: see FaultKinds
  \* Bounds of an instance.
  MaxPrice,        \* the ceiling of the gas price
  MaxFaults,
  MaxGap,          \* blocks the node may lag behind
  Slack            \* blocks kept for reorganisations

VARIABLES
  \* The network.
  mempool,
  \* The database: eth_txes, eth_tx_attempts, eth_receipts, evm_key_states.
  state, nonce, attempts, receipts, nextNonce,
  \* What the job that waits for a transaction was told.
  result,
  \* The broadcaster.
  bStep, bTx, bNonce, bAnswer,
  \* The confirmer.
  newHead, head, stage, todo,
  ensured,     \* the head up to which it last made sure of the receipts
  \* Of the bounds.
  faults

networkVars == <<chainVars, mempool>>
dbVars == <<state, nonce, attempts, receipts, nextNonce>>
broadcasterVars == <<bStep, bTx, bNonce, bAnswer>>
confirmerVars == <<newHead, head, stage, todo, ensured>>
vars == <<networkVars, dbVars, result, broadcasterVars, confirmerVars, faults>>

\* lag: a node that lags takes a nonce for used; lost: a transaction is not
\* kept by the node that took it; floor, eth: the price, the balance is too
\* low; timeout: no answer, or one nobody knows; fatal: rejected for good;
\* crash: of the node.
FaultKinds == {"lag", "lost", "floor", "eth", "timeout", "fatal", "crash"}

ASSUME TxManagerAssumption ==
  /\ IsFiniteSet(Txs)
  /\ FinalityDepth \in Nat /\ MaxGap \in Nat \ {0} /\ MaxGap + MaxForks * ReorgDepth <= FinalityDepth
  /\ BumpThreshold \in Nat \ {0} /\ BumpDepth \in Nat \ {0} /\ MaxInFlight \in Nat \ {0}
  /\ MinConfirmations \in Nat
  /\ HasChecker \in BOOLEAN
  /\ Faults \subseteq FaultKinds
  /\ MaxPrice \in Nat \ {0} /\ MaxFaults \in Nat

fails(kind) == kind \in Faults /\ faults < MaxFaults /\ faults' = faults + 1
works == UNCHANGED faults

None == -1

Idle == "idle"

Nonces == 0..Cardinality(Txs)
Hashes == [tx : Txs, nonce : Nonces, price : 1..MaxPrice]
Logs == [hash : Hashes, block : 1..MaxHeight, fork : 0..MaxForks]

Init ==
  /\ ChainInit /\ mempool = {}
  /\ state = [tx \in Txs |-> "none"] /\ nonce = [tx \in Txs |-> None]
  /\ attempts = {} /\ receipts = {} /\ nextNonce = 0
  /\ result = [tx \in Txs |-> "none"]
  /\ bStep = Idle /\ bTx = NoTx /\ bNonce = None /\ bAnswer = "none"
  /\ newHead = FALSE /\ head = [number |-> 0, logs |-> {}]
  /\ stage = Idle /\ todo = {} /\ ensured = 0
  /\ faults = 0

In(states) == {tx \in Txs : state[tx] \in states}

AttemptsOf(tx) == {a \in attempts : a.hash.tx = tx}
ReceiptsOf(tx) == {r \in receipts : r.hash.tx = tx}

\* The attempt at the highest price: the first, in the order of the queries.
Highest(tx) == CHOOSE a \in AttemptsOf(tx) :
                 \A b \in AttemptsOf(tx) : b.hash.price <= a.hash.price

InProgress(hash) == [hash |-> hash, state |-> "in_progress", before |-> None]
replaced(a, new) == (attempts \ {a}) \cup {new}

-------------------------------------------------------------------------------
(* The network *)

NonceAt == Cardinality(canonical)

NextNonces == 0..Cardinality(Txs) + 1

\* n is the first nonce that no transaction on the chain or in the pool has.
PendingNonceAt(n) ==
  /\ n >= NonceAt
  /\ ~\E h \in mempool : h.nonce = n
  /\ \A m \in NonceAt..n - 1 : \E h \in mempool : h.nonce = m

\* VRFV1Checker: what the transaction is for is on the chain.
Done(tx) == \E l \in canonical : l.hash.tx = tx

\* So that the bound on the blocks does not stop a transaction: there is a block
\* left for each that is under way, those it has to wait for, and the Slack that
\* a reorganisation may take when nothing can be included.
UnderWay == {tx \in Txs : state[tx] \notin {"none", "removed", "fatal_error"} /\ ~Done(tx)}
RoomFor(n) == height + n + MinConfirmations <= MaxHeight

\* The node is not stopped, and its heads do not fail, for so long that a
\* receipt leaves the depth it makes sure of.
KeepsUp == height < ensured + MaxGap

Mine ==
  /\ KeepsUp
  /\ \/ /\ \/ UnderWay = {}
           \/ RoomFor(Cardinality(UnderWay) + 1 + Slack)
           \/ /\ RoomFor(Cardinality(UnderWay) + 1) /\ fork > 0
              /\ \A h \in mempool : h.nonce # NonceAt
        /\ extend({})
     \/ \E h \in mempool :
          /\ h.nonce = NonceAt
          /\ extend({[hash |-> h, block |-> height + 1, fork |-> fork]})

networkStep ==
  /\ \/ (Mine \/ \E depth \in 1..ReorgDepth : Reorg(depth)) /\ works /\ UNCHANGED mempool
     \/ fails("lost") /\ (\E h \in mempool : mempool' = mempool \ {h}) /\ UNCHANGED chainVars
  /\ UNCHANGED <<dbVars, result, broadcasterVars, confirmerVars>>

\* The answers of sendTransaction, as the broadcaster and the confirmer tell
\* them apart: a known transaction is accepted again, and one that is outbid or
\* pays too little for now is not kept, which the manager takes for success.
sendTransaction(h, answer) ==
  LET used == h.nonce < NonceAt
      outbid == \E k \in mempool : k # h /\ k.nonce = h.nonce /\ k.price >= h.price
      unknown == ~used /\ h \notin mempool
      accepted == ~used /\ ~outbid /\ mempool' = mempool \cup {h}
      refused == mempool' = mempool
  IN  \/ answer = "sent" /\ accepted /\ works
      \/ answer = "sent" /\ ~used /\ refused /\ ((outbid /\ works) \/ fails("lost"))
      \/ answer = "nonceTooLow" /\ refused /\ ((used /\ works) \/ (~used /\ fails("lag")))
      \/ answer = "terminallyUnderpriced" /\ unknown /\ refused /\ fails("floor")
      \/ answer = "insufficientEth" /\ unknown /\ refused /\ fails("eth")
      \/ answer = "fatal" /\ unknown /\ refused /\ fails("fatal")
      \/ answer = "timeout" /\ (refused \/ accepted) /\ fails("timeout")

Answers == {"sent", "nonceTooLow", "terminallyUnderpriced", "insufficientEth", "fatal",
            "timeout"}

-------------------------------------------------------------------------------
(* The queue *)

CreateEthTransaction(tx) ==
  /\ state[tx] = "none"
  /\ RoomFor(Cardinality(UnderWay) + 1 + Slack)
  /\ state' = [state EXCEPT ![tx] = "unstarted"]
  /\ UNCHANGED <<networkVars, nonce, attempts, receipts, nextNonce, result,
                 broadcasterVars, confirmerVars, faults>>

\* Of the transactions of a subject only the newest stay in the queue.
PruneQueue(tx) ==
  /\ state[tx] = "unstarted"
  /\ \E other \in Txs : other # tx /\ state[other] = "unstarted"
  /\ state' = [state EXCEPT ![tx] = "removed"]
  /\ UNCHANGED <<networkVars, nonce, attempts, receipts, nextNonce, result,
                 broadcasterVars, confirmerVars, faults>>

-------------------------------------------------------------------------------
(* The broadcaster *)

besideBroadcaster == <<chainVars, receipts, confirmerVars, faults>>

backToIdle == bStep' = Idle /\ bTx' = NoTx /\ bNonce' = None /\ bAnswer' = "none"

handleAnyInProgressEthTx ==
  /\ bStep = Idle
  /\ bTx' \in In({"in_progress"})
  /\ bStep' = "check"
  /\ UNCHANGED <<besideBroadcaster, mempool, state, nonce, attempts, nextNonce, result, bNonce,
                 bAnswer>>

\* A fault checked against nextUnstartedTransactionWithNonce: a transaction in
\* progress is left for later.
nextUnstartedAtOnce ==
  /\ bStep = Idle
  /\ Cardinality(In({"unconfirmed"})) < MaxInFlight
  /\ bTx' \in In({"unstarted"})
  /\ bNonce' = nextNonce
  /\ bStep' = "save"
  /\ UNCHANGED <<besideBroadcaster, mempool, state, nonce, attempts, nextNonce, result,
                 bAnswer>>

nextUnstartedTransactionWithNonce ==
  /\ bStep = Idle
  /\ In({"in_progress"}) = {}
  /\ Cardinality(In({"unconfirmed"})) < MaxInFlight
  /\ bTx' \in In({"unstarted"})
  /\ bNonce' = nextNonce
  /\ bStep' = "save"
  /\ UNCHANGED <<besideBroadcaster, mempool, state, nonce, attempts, nextNonce, result,
                 bAnswer>>

\* A transaction that was pruned meanwhile is gone.
saveInProgressTransaction ==
  /\ bStep = "save"
  /\ \/ /\ state[bTx] = "unstarted"
        /\ state' = [state EXCEPT ![bTx] = "in_progress"]
        /\ nonce' = [nonce EXCEPT ![bTx] = bNonce]
        /\ attempts' = attempts \cup
                         {InProgress([tx |-> bTx, nonce |-> bNonce, price |-> 1])}
        /\ bStep' = "check"
        /\ UNCHANGED <<bTx, bNonce, bAnswer>>
     \/ state[bTx] = "removed" /\ backToIdle /\ UNCHANGED <<state, nonce, attempts>>
  /\ UNCHANGED <<besideBroadcaster, mempool, nextNonce, result>>

\* A transmit check that fails is an error for good; one that gives no answer
\* lets the transaction pass.
handleInProgressEthTx ==
  /\ bStep = "check"
  /\ \/ /\ HasChecker /\ Done(bTx)
        /\ bStep' = "fatal"
        /\ UNCHANGED <<mempool, bAnswer, faults>>
     \/ /\ \E answer \in Answers :
             sendTransaction(Highest(bTx).hash, answer) /\ bAnswer' = answer
        /\ bStep' = "answered"
  /\ UNCHANGED <<chainVars, receipts, confirmerVars, state, nonce, attempts, nextNonce, result,
                 bTx, bNonce>>

\* A fault checked against saveAttempt: the next nonce of the key is left.
saveAttemptOnly ==
  /\ state' = [state EXCEPT ![bTx] = "unconfirmed"]
  /\ attempts' = replaced(Highest(bTx), [Highest(bTx) EXCEPT !.state = "broadcast"])
  /\ backToIdle
  /\ UNCHANGED nextNonce

\* It fails when the next nonce of the key is not the transaction's.
saveAttempt ==
  /\ IF nextNonce = nonce[bTx]
     THEN /\ state' = [state EXCEPT ![bTx] = "unconfirmed"]
          /\ attempts' = replaced(Highest(bTx), [Highest(bTx) EXCEPT !.state = "broadcast"])
          /\ nextNonce' = nextNonce + 1
     ELSE UNCHANGED <<state, attempts, nextNonce>>
  /\ backToIdle

\* A fault checked against tryAgainBumpingGas: the attempt that was refused is kept.
tryAgainKeepingAttempt ==
  LET hash == Highest(bTx).hash
  IN  /\ \/ /\ hash.price < MaxPrice
            /\ attempts' = attempts \cup {InProgress([hash EXCEPT !.price = @ + 1])}
            /\ bStep' = "check"
            /\ UNCHANGED <<bTx, bNonce, bAnswer>>
         \/ hash.price = MaxPrice /\ backToIdle /\ UNCHANGED attempts
      /\ UNCHANGED <<state, nextNonce>>

tryAgainBumpingGas ==
  LET hash == Highest(bTx).hash
  IN  /\ \/ /\ hash.price < MaxPrice
            /\ attempts' = replaced(Highest(bTx), InProgress([hash EXCEPT !.price = @ + 1]))
            /\ bStep' = "check"
            /\ UNCHANGED <<bTx, bNonce, bAnswer>>
         \/ hash.price = MaxPrice /\ backToIdle /\ UNCHANGED attempts
      /\ UNCHANGED <<state, nextNonce>>

\* What was not accepted for sure is tried again with the same attempt; an
\* error nobody knows counts as success once the chain has the nonce.
handleAnswer ==
  /\ bStep = "answered"
  /\ \/ bAnswer \in {"sent", "nonceTooLow"} /\ saveAttempt
     \/ bAnswer = "terminallyUnderpriced" /\ tryAgainBumpingGas
     \/ /\ bAnswer \in {"insufficientEth", "timeout"}
        /\ backToIdle
        /\ UNCHANGED <<state, attempts, nextNonce>>
     \/ /\ bAnswer = "timeout"
        /\ \E pending \in NextNonces : PendingNonceAt(pending) /\ pending > nonce[bTx]
        /\ saveAttempt
     \/ /\ bAnswer = "fatal"
        /\ bStep' = "fatal"
        /\ UNCHANGED <<state, attempts, nextNonce, bTx, bNonce, bAnswer>>
  /\ UNCHANGED <<besideBroadcaster, mempool, nonce, result>>

\* saveFatallyErroredTransaction: the job is told first.
resumeWithError ==
  /\ bStep = "fatal"
  /\ result' = [result EXCEPT ![bTx] = IF @ = "none" THEN "error" ELSE @]
  /\ bStep' = "errored"
  /\ UNCHANGED <<besideBroadcaster, mempool, state, nonce, attempts, nextNonce, bTx, bNonce,
                 bAnswer>>

saveFatallyErroredTransaction ==
  /\ bStep = "errored"
  /\ state' = [state EXCEPT ![bTx] = "fatal_error"]
  /\ nonce' = [nonce EXCEPT ![bTx] = None]
  /\ attempts' = attempts \ AttemptsOf(bTx)
  /\ backToIdle
  /\ UNCHANGED <<besideBroadcaster, mempool, nextNonce, result>>

processUnstartedEthTxs ==
  \/ handleAnyInProgressEthTx \/ nextUnstartedTransactionWithNonce
  \/ saveInProgressTransaction \/ handleInProgressEthTx \/ handleAnswer
  \/ resumeWithError \/ saveFatallyErroredTransaction

-------------------------------------------------------------------------------
(* The confirmer *)

besideConfirmer == <<chainVars, nextNonce, broadcasterVars>>

OnNewLongestChain ==
  /\ newHead' = TRUE
  /\ UNCHANGED <<networkVars, dbVars, result, broadcasterVars, head, stage, todo,
                 ensured, faults>>

goTo(next, txs) == stage' = next /\ todo' = txs

\* An error ends the work for this head.
giveUp == goTo(Idle, {})

retrieveHead ==
  /\ stage = Idle
  /\ newHead
  /\ newHead' = FALSE
  /\ head' = [number |-> height, logs |-> canonical]
  /\ goTo("before", {})
  /\ UNCHANGED <<besideConfirmer, mempool, state, nonce, attempts, receipts, result, ensured,
                 faults>>

SetBroadcastBeforeBlockNum ==
  /\ stage = "before"
  /\ attempts' = {IF a.state = "broadcast" /\ a.before = None
                  THEN [a EXCEPT !.before = head.number] ELSE a : a \in attempts}
  /\ goTo("missing", {tx \in In({"confirmed_missing_receipt"}) : AttemptsOf(tx) # {}})
  /\ UNCHANGED <<besideConfirmer, mempool, state, nonce, receipts, result, newHead, head,
                 ensured, faults>>

SentTxs == In({"unconfirmed", "confirmed", "confirmed_missing_receipt"})
Unsent == {tx \in SentTxs : \E a \in AttemptsOf(tx) : a.state = "in_progress"}

RequiringReceipt ==
  {tx \in In({"unconfirmed", "confirmed_missing_receipt"}) :
     \E a \in AttemptsOf(tx) : a.state # "insufficient_eth"}

\* Sent again; unless the nonce is used, it is not on the chain after all.
CheckConfirmedMissingReceipt ==
  /\ stage = "missing"
  /\ \/ /\ todo = {}
        /\ IF RequiringReceipt = {} THEN goTo("rebroadcast", Unsent)
                                    ELSE goTo("receipts", RequiringReceipt)
        /\ UNCHANGED <<mempool, state, faults>>
     \/ \E tx \in todo, answer \in Answers :
          /\ sendTransaction(Highest(tx).hash, answer)
          /\ state' = IF answer = "nonceTooLow" THEN state
                      ELSE [state EXCEPT ![tx] = "unconfirmed"]
          /\ goTo(stage, todo \ {tx})
  /\ UNCHANGED <<besideConfirmer, nonce, attempts, receipts, result, newHead, head, ensured>>

\* A receipt confirms its transaction and tells that its attempt was sent.
fetchAndSaveReceipts ==
  /\ stage = "receipts"
  /\ \/ todo = {} /\ goTo("mark", {}) /\ UNCHANGED <<state, attempts, receipts>>
     \/ \E tx \in todo :
          LET asked == {a \in AttemptsOf(tx) : a.state # "insufficient_eth"}
              found == {l \in canonical : \E a \in asked : a.hash = l.hash}
              blockOf(a) == (CHOOSE l \in found : l.hash = a.hash).block
              sent(a) == [a EXCEPT !.state = "broadcast",
                                   !.before = IF @ = None THEN blockOf(a) ELSE @]
          IN  /\ receipts' = receipts \cup found
              /\ state' = IF found = {} THEN state ELSE [state EXCEPT ![tx] = "confirmed"]
              /\ attempts' = {IF \E l \in found : l.hash = a.hash THEN sent(a) ELSE a :
                               a \in attempts}
              /\ goTo(stage, todo \ {tx})
  /\ UNCHANGED <<besideConfirmer, mempool, nonce, result, newHead, head, ensured,
                 faults>>

\* A transaction with a lower nonce than a confirmed one must be on the chain.
markAllConfirmedMissingReceipt ==
  LET missing == {tx \in In({"unconfirmed"}) :
                    \E other \in In({"confirmed"}) : nonce[other] > nonce[tx]}
  IN  /\ stage = "mark"
      /\ state' = [tx \in Txs |->
                     IF tx \in missing THEN "confirmed_missing_receipt" ELSE state[tx]]
      /\ goTo("old", {})
      /\ UNCHANGED <<besideConfirmer, mempool, nonce, attempts, receipts, result, newHead,
                     head, ensured, faults>>

cutoff == head.number - FinalityDepth

\* The maximum of SQL leaves out what is null.
Old(tx) ==
  LET before == {a.before : a \in AttemptsOf(tx)} \ {None}
  IN  cutoff > 0 /\ before # {} /\ Max(before) < cutoff

markOldTxesMissingReceiptAsErrored ==
  LET old == {tx \in In({"confirmed_missing_receipt"}) : Old(tx)}
  IN  /\ stage = "old"
      /\ state' = [tx \in Txs |-> IF tx \in old THEN "fatal_error" ELSE state[tx]]
      /\ nonce' = [tx \in Txs |-> IF tx \in old THEN None ELSE nonce[tx]]
      /\ goTo("rebroadcast", Unsent \ old)
      /\ UNCHANGED <<besideConfirmer, mempool, attempts, receipts, result, newHead, head,
                     ensured, faults>>

\* An attempt with no answer is left for the next head.
handleInProgressAttempt(tx) ==
  LET a == CHOOSE b \in AttemptsOf(tx) : b.state = "in_progress"
      save(s) == attempts' = replaced(a, [a EXCEPT !.state = s])
      next == goTo(stage, todo \ {tx})
      bumps == a = Highest(tx) /\ a.hash.price < MaxPrice
  IN  \E answer \in Answers :
        /\ sendTransaction(a.hash, answer)
        /\ \/ answer = "sent" /\ save("broadcast") /\ next /\ UNCHANGED state
           \/ /\ answer = "nonceTooLow"
              /\ save("broadcast")
              /\ state' = [state EXCEPT ![tx] = "confirmed_missing_receipt"]
              /\ next
           \/ answer = "insufficientEth" /\ save("insufficient_eth") /\ next /\ UNCHANGED state
           \/ /\ answer = "terminallyUnderpriced" /\ bumps
              /\ attempts' = replaced(a, InProgress([a.hash EXCEPT !.price = @ + 1]))
              /\ UNCHANGED <<state, stage, todo>>
           \/ answer = "fatal" /\ attempts' = attempts \ {a} /\ next /\ UNCHANGED state
           \/ /\ answer = "timeout" \/ (answer = "terminallyUnderpriced" /\ ~bumps)
              /\ giveUp
              /\ UNCHANGED <<state, attempts>>

lowest(n, txs) == {tx \in txs : Cardinality({o \in txs : nonce[o] < nonce[tx]}) < n}

FindEthTxsRequiringRebroadcast ==
  LET unfunded == {tx \in In({"unconfirmed"}) :
                     \E a \in AttemptsOf(tx) : a.state = "insufficient_eth"}
      waitedFor(a) == a.state = "broadcast" /\ a.before # None
                        /\ a.before <= head.number - BumpThreshold
      slow == {tx \in lowest(BumpDepth, In({"unconfirmed"})) :
                 \A a \in AttemptsOf(tx) : waitedFor(a)}
  IN  lowest(MaxInFlight, unfunded \cup slow)

\* A fault checked against attemptForRebroadcast: the ceiling is forgotten.
attemptPastCeiling(tx) ==
  IF AttemptsOf(tx) = {} THEN giveUp /\ UNCHANGED attempts
  ELSE LET a == Highest(tx)
       IN  /\ attempts' = IF a.state = "insufficient_eth"
                          THEN replaced(a, [a EXCEPT !.state = "in_progress"])
                          ELSE attempts \cup {InProgress([a.hash EXCEPT !.price = @ + 1])}
           /\ UNCHANGED <<stage, todo>>

\* Out of funds the same attempt is sent again, at the ceiling too; a
\* transaction that has no attempt left is an error.
attemptForRebroadcast(tx) ==
  IF AttemptsOf(tx) = {} THEN giveUp /\ UNCHANGED attempts
  ELSE LET a == Highest(tx)
       IN  /\ attempts' =
                CASE a.state = "insufficient_eth" ->
                       replaced(a, [a EXCEPT !.state = "in_progress"])
                  [] a.state # "insufficient_eth" /\ a.hash.price < MaxPrice ->
                       attempts \cup {InProgress([a.hash EXCEPT !.price = @ + 1])}
                  [] OTHER -> replaced(a, InProgress(a.hash))
           /\ UNCHANGED <<stage, todo>>

RebroadcastWhereNecessary ==
  /\ \/ /\ stage = "rebroadcast"
        /\ \E tx \in todo : handleInProgressAttempt(tx)
     \/ /\ stage = "rebroadcast" /\ todo = {}
        /\ goTo("bump", FindEthTxsRequiringRebroadcast)
        /\ UNCHANGED <<mempool, state, attempts, faults>>
     \/ /\ stage = "bump"
        /\ \E tx \in lowest(1, todo) :
             \/ (tx \in Unsent /\ handleInProgressAttempt(tx))
             \/ /\ tx \notin Unsent /\ attemptForRebroadcast(tx)
                /\ UNCHANGED <<mempool, state, faults>>
  /\ UNCHANGED <<besideConfirmer, nonce, receipts, result, newHead, head, ensured>>

\* A fault checked against InLongestChain: the transaction is looked for, not the block.
TransactionInLongestChain(r) ==
  \E l \in head.logs : l.hash = r.hash /\ l.block > head.number - FinalityDepth

\* The head carries the newest blocks of its chain.
InLongestChain(r) == r \in head.logs /\ r.block > head.number - FinalityDepth

ConfirmedInBlockRange ==
  {tx \in In({"confirmed", "confirmed_missing_receipt"}) :
     \E a \in AttemptsOf(tx), r \in ReceiptsOf(tx) :
       /\ a.state = "broadcast" /\ r.hash = a.hash
       /\ r.block \in head.number - FinalityDepth + 1..head.number}

findTransactionsConfirmedInBlockRange ==
  /\ stage = "bump" /\ todo = {}
  /\ goTo("ensure", {tx \in ConfirmedInBlockRange : \A r \in ReceiptsOf(tx) : ~InLongestChain(r)})
  /\ UNCHANGED <<besideConfirmer, mempool, state, nonce, attempts, receipts, result, newHead,
                 head, ensured, faults>>

markForRebroadcast(tx) ==
  LET a == Highest(tx)
  IN  \/ /\ state[tx] = "confirmed" /\ a.state = "broadcast"
         /\ receipts' = receipts \ ReceiptsOf(tx)
         /\ state' = [state EXCEPT ![tx] = "unconfirmed"]
         /\ attempts' = replaced(a, InProgress(a.hash))
         /\ goTo(stage, todo \ {tx})
      \/ /\ ~(state[tx] = "confirmed" /\ a.state = "broadcast")
         /\ giveUp
         /\ UNCHANGED <<receipts, state, attempts>>

EnsureConfirmedTransactionsInLongestChain ==
  /\ \/ /\ stage = "ensure"
        /\ \E tx \in lowest(1, todo) : markForRebroadcast(tx)
        /\ UNCHANGED <<mempool, ensured, faults>>
     \/ /\ stage = "ensure" /\ todo = {}
        /\ goTo("again", Unsent) /\ ensured' = head.number
        /\ UNCHANGED <<mempool, state, attempts, receipts, faults>>
     \/ /\ stage = "again"
        /\ \E tx \in todo : handleInProgressAttempt(tx)
        /\ UNCHANGED <<receipts, ensured>>
  /\ UNCHANGED <<besideConfirmer, nonce, result, newHead, head>>

\* Whatever the state of the transaction.
Resumable(tx) == {r \in ReceiptsOf(tx) : r.block <= head.number - MinConfirmations}

ResumePendingTaskRuns ==
  /\ (stage = "again" /\ todo = {}) \/ stage = "resume"
  /\ \/ /\ \E tx \in Txs :
             /\ result[tx] = "none" /\ Resumable(tx) # {}
             /\ result' = [result EXCEPT ![tx] = "receipt"]
        /\ stage' = "resume" /\ UNCHANGED todo
     \/ /\ \A tx \in Txs : result[tx] = "none" => Resumable(tx) = {}
        /\ goTo(Idle, {})
        /\ UNCHANGED result
  /\ UNCHANGED <<besideConfirmer, mempool, state, nonce, attempts, receipts, newHead, head,
                 ensured, faults>>

processHead ==
  \/ retrieveHead \/ SetBroadcastBeforeBlockNum \/ CheckConfirmedMissingReceipt
  \/ fetchAndSaveReceipts \/ markAllConfirmedMissingReceipt
  \/ markOldTxesMissingReceiptAsErrored \/ RebroadcastWhereNecessary
  \/ findTransactionsConfirmedInBlockRange \/ EnsureConfirmedTransactionsInLongestChain
  \/ ResumePendingTaskRuns

-------------------------------------------------------------------------------
(* The resender, and a start of the node *)

resendUnconfirmed ==
  /\ \E tx \in In({"unconfirmed", "confirmed_missing_receipt"}) :
       LET kept == {a \in AttemptsOf(tx) : a.state # "in_progress"}
       IN  /\ kept # {}
           /\ \E a \in kept, answer \in Answers :
                /\ \A b \in kept : b.hash.price <= a.hash.price
                /\ sendTransaction(a.hash, answer)
  /\ UNCHANGED <<chainVars, dbVars, result, broadcasterVars, confirmerVars>>

\* A fault checked against fastForwardNonce: a transaction in progress is not counted.
fastForwardBy(pending) ==
  IF pending > nextNonce THEN pending ELSE nextNonce

\* NonceSyncer: a transaction in progress takes the next nonce when it is saved.
fastForwardNonce(pending) ==
  LET inProgress == IF In({"in_progress"}) # {} THEN 1 ELSE 0
  IN  IF pending > nextNonce + inProgress THEN pending - inProgress ELSE nextNonce

\* A fault checked against Restart: a transaction in progress goes back to the queue.
RestartUnstarted ==
  /\ fails("crash")
  /\ state' = [tx \in Txs |-> IF state[tx] = "in_progress" THEN "unstarted" ELSE state[tx]]
  /\ nonce' = [tx \in Txs |-> IF state[tx] = "in_progress" THEN None ELSE nonce[tx]]
  /\ attempts' = {a \in attempts : state[a.hash.tx] # "in_progress"}
  /\ \E pending \in NextNonces : PendingNonceAt(pending) /\ nextNonce' = fastForwardBy(pending)
  /\ backToIdle
  /\ giveUp /\ newHead' = FALSE /\ head' = [number |-> 0, logs |-> {}]
  /\ UNCHANGED <<networkVars, receipts, result, ensured>>

\* What was being sent when the node went down may have arrived.
Restart ==
  /\ fails("crash")
  /\ mempool' \in {mempool} \cup
       {mempool \cup {a.hash} : a \in {b \in attempts : b.state = "in_progress" /\
                                                         b.hash.nonce >= NonceAt}}
  /\ \E pending \in NextNonces : PendingNonceAt(pending) /\ nextNonce' = fastForwardNonce(pending)
  /\ backToIdle
  /\ giveUp /\ newHead' = FALSE /\ head' = [number |-> 0, logs |-> {}]
  /\ UNCHANGED <<chainVars, state, nonce, attempts, receipts, result, ensured>>

-------------------------------------------------------------------------------
Next ==
  \/ networkStep
  \/ \E tx \in Txs : CreateEthTransaction(tx) \/ PruneQueue(tx)
  \/ processUnstartedEthTxs
  \/ OnNewLongestChain \/ processHead
  \/ resendUnconfirmed
  \/ Restart

Spec == Init /\ [][Next]_vars

\* The miner, the two loops, the resender's timer and new heads go on.
FairSpec ==
  /\ Spec
  /\ WF_vars(Mine /\ works /\ UNCHANGED <<mempool, dbVars, result, broadcasterVars, confirmerVars>>)
  /\ WF_vars(processUnstartedEthTxs)
  /\ WF_vars(OnNewLongestChain)
  /\ WF_vars(processHead)
  /\ WF_vars(resendUnconfirmed /\ works)

-------------------------------------------------------------------------------
(* Properties *)

States == {"none", "unstarted", "in_progress", "unconfirmed", "confirmed",
           "confirmed_missing_receipt", "fatal_error", "removed"}

\* Every row is of a transaction, a nonce, a price and a block there are; no
\* price is past the ceiling.
TxTypeOK ==
  /\ state \in [Txs -> States]
  /\ nonce \in [Txs -> Nonces \cup {None}]
  /\ attempts \subseteq [hash : Hashes, state : {"in_progress", "broadcast", "insufficient_eth"},
                         before : 0..MaxHeight \cup {None}]
  /\ receipts \subseteq Logs
  /\ nextNonce \in NextNonces
  /\ result \in [Txs -> {"none", "receipt", "error"}]
  /\ todo \subseteq Txs

\* eth_broadcaster.go:400 and the indices of the tables: at most one transaction
\* is in progress, and of a transaction at most one attempt is not broadcast,
\* though the price is raised, the wallet empty or an attempt sent again.
OneUnbroadcast ==
  /\ Cardinality(In({"in_progress"})) <= 1
  /\ \A tx \in Txs : Cardinality({a \in AttemptsOf(tx) : a.state # "broadcast"}) <= 1

Live == In({"in_progress", "unconfirmed", "confirmed", "confirmed_missing_receipt"})

\* Two transactions that are under way or confirmed never share a nonce: a crash
\* between the steps of the broadcaster gives none out twice.
NoncesUnique == \A tx, other \in Live : nonce[tx] = nonce[other] => tx = other

\* What was queued once is on the chain at most once, through crashes, timeouts,
\* raised prices and reorganisations.
AtMostOnce == \A l, k \in canonical : l.hash.tx = k.hash.tx => l = k

\* eth_broadcaster.go:86: no transaction under way has a nonce that another has
\* used on the chain, for then it could never be confirmed.
CanBeConfirmed ==
  \A tx \in Live, l \in canonical : l.hash.nonce = nonce[tx] => l.hash.tx = tx

\* ResumePendingTaskRuns, eth_confirmer.go:1646: a transaction with a receipt is
\* confirmed.
ReceiptsOfConfirmed == \A r \in receipts : state[r.hash.tx] = "confirmed"

\* markOldTxesMissingReceiptAsErrored, eth_confirmer.go:749: the run of a
\* transaction that is given up is told so.
ErroredRunsTold == \A tx \in In({"fatal_error"}) : result[tx] # "none"

\* A job whose transaction is confirmed, by the one receipt there is of it, is
\* told so only when the head it is resumed at holds the transaction, with the
\* confirmations the job waits for.
ResumesOnChain ==
  [][\A tx \in In({"confirmed"}) :
       result[tx] = "none" /\ result'[tx] = "receipt" /\ Cardinality(ReceiptsOf(tx)) = 1 =>
         \E l \in head.logs : l.hash.tx = tx /\ l.block <= head.number - MinConfirmations]_vars

\* eth_confirmer.go:1646: "a transaction with an attached receipt is guaranteed to
\* be confirmed", and the head a job is resumed at holds it.
ToldOnChain ==
  [][\A tx \in Txs : result[tx] = "none" /\ result'[tx] = "receipt" =>
       \E l \in head.logs : l.hash.tx = tx]_vars

\* EnsureConfirmedTransactionsInLongestChain, eth_confirmer.go:1407: a confirmed
\* transaction that has no receipt in the chain does not stay confirmed.
ReorgedIsRebroadcast ==
  \A tx \in Txs :
    (state[tx] = "confirmed" /\ \A r \in ReceiptsOf(tx) : r \notin canonical)
      ~> (state[tx] # "confirmed" \/ \E r \in ReceiptsOf(tx) : r \in canonical)

\* A transaction in the queue is pruned, or its job is told how it ended.
EveryTxEnds ==
  \A tx \in Txs : state[tx] = "unstarted" ~>
    (state[tx] = "removed" \/ result[tx] # "none")
==============================================================================
