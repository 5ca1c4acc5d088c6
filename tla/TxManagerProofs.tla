---------------------------- MODULE TxManagerProofs ----------------------------
(***************************************************************************)
(* The transaction manager for every number of transactions, depth of the  *)
(* reorganisations, ceiling of the price and combination of faults: no     *)
(* nonce is given out twice, nothing is on the chain twice, and a job is   *)
(* told of what the chain holds.                                           *)
(***************************************************************************)
EXTENDS TxManager, NumberTheorems

Queued == {"none", "unstarted", "removed"}
SentStates == {"unconfirmed", "confirmed", "confirmed_missing_receipt"}

BusySteps == {"check", "answered", "fatal", "errored"}

Stages == {Idle, "before", "missing", "receipts", "mark", "old", "rebroadcast", "bump",
           "ensure", "again", "resume"}

-------------------------------------------------------------------------------
(* What the two loops are about: the broadcaster with the transaction in    *)
(* progress, the confirmer with those that were sent.                       *)

FlowInv ==
  /\ state \in [Txs -> States]
  /\ nonce \in [Txs -> Int]
  /\ nextNonce \in Nat
  /\ bStep \in {Idle, "save"} \cup BusySteps
  /\ bStep = "save" => /\ bTx \in Txs /\ bNonce = nextNonce
                       /\ state[bTx] \in {"unstarted", "removed"}
                       /\ \A tx \in Txs : state[tx] # "in_progress"
  /\ bStep \in BusySteps => bTx \in Txs /\ state[bTx] = "in_progress"
  /\ \A tx, other \in Txs : state[tx] = "in_progress" /\ state[other] = "in_progress" => tx = other
  /\ stage \in Stages
  /\ todo \subseteq SentTxs

\* The nonces below the next one are the sent transactions'; the transaction in
\* progress may have the next one already.
NonceInv ==
  /\ \A tx \in Txs : state[tx] \in SentStates => nonce[tx] < nextNonce
  /\ \A tx \in Txs : state[tx] = "in_progress" => nonce[tx] <= nextNonce
  /\ NoncesUnique

LEMMA TxsCounted == Cardinality(Txs) \in Nat
BY TxManagerAssumption, FS_CardinalityType

LEMMA FlowInit == Init => FlowInv /\ NonceInv
<1> SUFFICES ASSUME Init PROVE FlowInv /\ NonceInv
  OBVIOUS
<1>1. \A tx \in Txs : state[tx] = "none" /\ nonce[tx] = -1
  BY DEF Init, None
<1>2. bStep = "idle" /\ stage = "idle" /\ todo = {} /\ nextNonce = 0
  BY DEF Init, Idle
<1>3. state \in [Txs -> States] /\ nonce \in [Txs -> Int]
  BY DEF Init, States, None
<1>4. FlowInv
  BY <1>1, <1>2, <1>3 DEF FlowInv, BusySteps, Idle, Stages
<1>5. NonceInv
  BY <1>1 DEF NonceInv, NoncesUnique, Live, In, SentStates
<1> QED
  BY <1>4, <1>5

\* What a step does to the rows of the transactions.
Unmoved == UNCHANGED <<state, nonce, nextNonce, bStep, bTx, bNonce>>

LEMMA UnmovedKeeps ==
  ASSUME FlowInv, NonceInv, Unmoved, stage' \in Stages, todo' \subseteq SentTxs
  PROVE  FlowInv' /\ NonceInv'
BY DEF FlowInv, NonceInv, NoncesUnique, Live, In, SentTxs, Unmoved

\* The confirmer takes a transaction that was sent to another state of those.
LEMMA ConfirmingKeeps ==
  ASSUME FlowInv, NonceInv, UNCHANGED <<nonce, nextNonce, bStep, bTx, bNonce>>,
         state' \in [Txs -> States],
         \A tx \in Txs : state'[tx] = state[tx]
                          \/ (state[tx] \in SentStates /\ state'[tx] \in SentStates),
         stage' \in Stages, todo' \subseteq SentTxs
  PROVE  FlowInv' /\ NonceInv'
<1>1. \A tx \in Txs : /\ state'[tx] \in SentStates <=> state[tx] \in SentStates
                      /\ state'[tx] = "in_progress" <=> state[tx] = "in_progress"
                      /\ state[tx] \in {"unstarted", "removed"} => state'[tx] = state[tx]
  BY DEF SentStates
<1>2. SentTxs' = SentTxs
  BY <1>1 DEF SentTxs, In, SentStates
<1>3. Live' = Live
  BY <1>1 DEF Live, In, SentStates
<1>4. FlowInv'
  BY <1>1, <1>2 DEF FlowInv
<1>5. NonceInv'
  BY <1>1, <1>3 DEF NonceInv, NoncesUnique
<1> QED
  BY <1>4, <1>5
\* The broadcaster's own steps.
LEMMA SavingKeeps ==
  ASSUME FlowInv, NonceInv, saveInProgressTransaction
  PROVE  FlowInv' /\ NonceInv'
<1>1. CASE state[bTx] = "removed" /\ backToIdle /\ UNCHANGED <<state, nonce, attempts>>
  <2>1. UNCHANGED <<state, nonce, nextNonce, stage, todo>> /\ bStep' = Idle
    BY <1>1 DEF saveInProgressTransaction, backToIdle, besideBroadcaster, confirmerVars
  <2>2. FlowInv'
    BY <2>1 DEF FlowInv, SentTxs, In, Idle, BusySteps
  <2> QED
    BY <2>1, <2>2 DEF NonceInv, NoncesUnique, Live, In
<1>2. CASE /\ state[bTx] = "unstarted"
           /\ state' = [state EXCEPT ![bTx] = "in_progress"]
           /\ nonce' = [nonce EXCEPT ![bTx] = bNonce]
           /\ bStep' = "check"
           /\ UNCHANGED <<bTx, bNonce, bAnswer>>
  <2>1. /\ bTx \in Txs /\ bNonce = nextNonce /\ \A tx \in Txs : state[tx] # "in_progress"
        /\ UNCHANGED <<nextNonce, stage, todo>>
    BY DEF saveInProgressTransaction, FlowInv, besideBroadcaster, confirmerVars
  <2>2. SentTxs' = SentTxs
    BY <1>2, <2>1 DEF FlowInv, SentTxs, In
  <2>3. FlowInv'
    BY <1>2, <2>1, <2>2 DEF FlowInv, States, BusySteps
  <2>4. \A tx \in Txs : tx # bTx => state'[tx] = state[tx] /\ nonce'[tx] = nonce[tx]
    BY <1>2 DEF FlowInv
  <2>5. state'[bTx] = "in_progress" /\ nonce'[bTx] = nextNonce
    BY <1>2, <2>1 DEF FlowInv
  <2>6. \A tx \in Txs : tx # bTx /\ tx \in Live' => state[tx] \in SentStates /\ nonce[tx] < nextNonce
    BY <2>1, <2>4 DEF Live, In, SentStates, NonceInv
  <2>7. \A tx \in Txs : tx # bTx => (tx \in Live' <=> tx \in Live)
    BY <2>4 DEF Live, In
  <2>8. NoncesUnique'
    BY <2>4, <2>5, <2>6, <2>7 DEF NonceInv, NoncesUnique, Live, In, FlowInv
  <2> QED
    BY <2>1, <2>3, <2>4, <2>5, <2>8 DEF NonceInv, FlowInv, SentStates
<1> QED
  BY <1>1, <1>2 DEF saveInProgressTransaction

LEMMA SavedAttemptKeeps ==
  ASSUME FlowInv, NonceInv, bStep \in BusySteps, saveAttempt,
         UNCHANGED <<nonce, stage, todo>>
  PROVE  FlowInv' /\ NonceInv'
<1>1. CASE nextNonce = nonce[bTx]
  <2>1. /\ state' = [state EXCEPT ![bTx] = "unconfirmed"]
        /\ nextNonce' = nextNonce + 1 /\ bStep' = Idle
    BY <1>1 DEF saveAttempt, backToIdle
  <2>2. bTx \in Txs /\ state[bTx] = "in_progress" /\ state'[bTx] = "unconfirmed"
    BY <2>1 DEF FlowInv
  <2>3. \A tx \in Txs : tx # bTx => state'[tx] = state[tx] /\ state[tx] # "in_progress"
    BY <2>1, <2>2 DEF FlowInv
  <2>4. SentTxs \subseteq SentTxs'
    BY <2>2, <2>3 DEF SentTxs, In
  <2>5. Live' = Live
    BY <2>2, <2>3 DEF Live, In
  <2>6. state' \in [Txs -> States]
    BY <2>1 DEF FlowInv, States
  <2>7. FlowInv'
    BY <2>1, <2>2, <2>3, <2>4, <2>6 DEF FlowInv, Idle, BusySteps
  <2> QED
    BY <1>1, <2>1, <2>2, <2>3, <2>5, <2>7 DEF NonceInv, NoncesUnique, FlowInv
<1>2. CASE nextNonce # nonce[bTx]
  <2>1. UNCHANGED <<state, nextNonce>> /\ bStep' = Idle
    BY <1>2 DEF saveAttempt, backToIdle
  <2>2. FlowInv'
    BY <2>1 DEF FlowInv, SentTxs, In, Idle, BusySteps
  <2> QED
    BY <2>1, <2>2 DEF NonceInv, NoncesUnique, Live, In
<1> QED
  BY <1>1, <1>2

\* A step that leaves the rows and ends the broadcaster's round.
LEMMA RoundEnds ==
  ASSUME FlowInv, NonceInv, backToIdle, UNCHANGED <<state, nonce, nextNonce, stage, todo>>
  PROVE  FlowInv' /\ NonceInv'
<1>1. bStep' = Idle
  BY DEF backToIdle
<1>2. FlowInv'
  BY <1>1 DEF FlowInv, SentTxs, In, Idle, BusySteps
<1> QED
  BY <1>2 DEF NonceInv, NoncesUnique, Live, In

\* One that leaves them and goes on with the transaction in progress.
LEMMA RoundGoesOn ==
  ASSUME FlowInv, NonceInv, UNCHANGED <<state, nonce, nextNonce, stage, todo>>,
         bTx' \in Txs, state[bTx'] = "in_progress", bStep' \in BusySteps
  PROVE  FlowInv' /\ NonceInv'
<1>1. FlowInv'
  BY DEF FlowInv, SentTxs, In, BusySteps
<1> QED
  BY <1>1 DEF NonceInv, NoncesUnique, Live, In

LEMMA BroadcasterKeeps ==
  ASSUME FlowInv, NonceInv, processUnstartedEthTxs
  PROVE  FlowInv' /\ NonceInv'
<1>1. CASE handleAnyInProgressEthTx
  BY <1>1, RoundGoesOn DEF handleAnyInProgressEthTx, In, BusySteps, besideBroadcaster, confirmerVars
<1>2. CASE nextUnstartedTransactionWithNonce
  <2>1. /\ UNCHANGED <<state, nonce, nextNonce, stage, todo>>
        /\ bTx' \in Txs /\ state[bTx'] = "unstarted" /\ bNonce' = nextNonce /\ bStep' = "save"
        /\ \A tx \in Txs : state[tx] # "in_progress"
    BY <1>2 DEF nextUnstartedTransactionWithNonce, In, besideBroadcaster, confirmerVars
  <2>2. FlowInv'
    BY <2>1 DEF FlowInv, SentTxs, In, BusySteps
  <2> QED
    BY <2>1, <2>2 DEF NonceInv, NoncesUnique, Live, In
<1>3. CASE saveInProgressTransaction
  BY <1>3, SavingKeeps
<1>4. CASE handleInProgressEthTx
  BY <1>4, RoundGoesOn DEF handleInProgressEthTx, FlowInv, BusySteps, confirmerVars
<1>5. CASE handleAnswer
  <2>1. bStep \in BusySteps /\ bTx \in Txs /\ state[bTx] = "in_progress"
    BY <1>5 DEF handleAnswer, FlowInv, BusySteps
  <2>2. UNCHANGED <<nonce, stage, todo>>
    BY <1>5 DEF handleAnswer, besideBroadcaster, confirmerVars
  <2>3. CASE saveAttempt
    BY <2>1, <2>2, <2>3, SavedAttemptKeeps
  <2>4. CASE tryAgainBumpingGas
    <3>1. UNCHANGED <<state, nextNonce>> /\ (backToIdle \/ (bStep' = "check" /\ bTx' = bTx))
      BY <2>4 DEF tryAgainBumpingGas
    <3> QED
      BY <2>1, <2>2, <3>1, RoundEnds, RoundGoesOn DEF BusySteps
  <2>5. CASE backToIdle /\ UNCHANGED <<state, attempts, nextNonce>>
    BY <2>2, <2>5, RoundEnds
  <2>6. CASE bStep' = "fatal" /\ UNCHANGED <<state, attempts, nextNonce, bTx, bNonce, bAnswer>>
    BY <2>1, <2>2, <2>6, RoundGoesOn DEF BusySteps
  <2> QED
    BY <1>5, <2>3, <2>4, <2>5, <2>6 DEF handleAnswer
<1>6. CASE resumeWithError
  BY <1>6, RoundGoesOn DEF resumeWithError, FlowInv, BusySteps, besideBroadcaster, confirmerVars
<1>7. CASE saveFatallyErroredTransaction
  <2>1. /\ bTx \in Txs /\ state[bTx] = "in_progress"
        /\ state' = [state EXCEPT ![bTx] = "fatal_error"] /\ nonce' = [nonce EXCEPT ![bTx] = None]
        /\ bStep' = Idle /\ UNCHANGED <<nextNonce, stage, todo>>
    BY <1>7 DEF saveFatallyErroredTransaction, FlowInv, BusySteps, backToIdle,
                besideBroadcaster, confirmerVars
  <2>2. /\ \A tx \in Txs : tx # bTx => state'[tx] = state[tx] /\ nonce'[tx] = nonce[tx]
        /\ state'[bTx] = "fatal_error" /\ state' \in [Txs -> States] /\ nonce' \in [Txs -> Int]
    BY <2>1 DEF FlowInv, States, None
  <2>3. SentTxs' = SentTxs /\ Live' \subseteq Live \ {bTx}
    BY <2>1, <2>2 DEF SentTxs, Live, In
  <2>4. FlowInv'
    BY <2>1, <2>2, <2>3 DEF FlowInv, Idle, BusySteps
  <2> QED
    BY <2>1, <2>2, <2>3, <2>4 DEF NonceInv, NoncesUnique, SentStates, Live, In
<1> QED
  BY <1>1, <1>2, <1>3, <1>4, <1>5, <1>6, <1>7 DEF processUnstartedEthTxs
\* The confirmer's steps.
LEMMA AttemptSentAgain ==
  ASSUME FlowInv, NonceInv, NEW tx \in todo, handleInProgressAttempt(tx),
         UNCHANGED <<nonce, nextNonce, bStep, bTx, bNonce>>
  PROVE  FlowInv' /\ NonceInv'
<1>1. tx \in Txs /\ state[tx] \in SentStates /\ todo \subseteq SentTxs /\ stage \in Stages
  BY DEF FlowInv, SentTxs, In, SentStates
<1>2. \/ state' = state
      \/ state' = [state EXCEPT ![tx] = "confirmed_missing_receipt"]
  BY DEF handleInProgressAttempt
<1>3. /\ state' \in [Txs -> States]
      /\ \A t \in Txs : state'[t] = state[t]
                          \/ (state[t] \in SentStates /\ state'[t] \in SentStates)
  BY <1>1, <1>2 DEF FlowInv, States, SentStates
<1>4. stage' \in {stage, Idle} /\ todo' \subseteq todo
  BY DEF handleInProgressAttempt, goTo, giveUp
<1>5. stage' \in Stages /\ todo' \subseteq SentTxs
  BY <1>1, <1>4 DEF Stages
<1> QED
  BY <1>3, <1>5, ConfirmingKeeps

LEMMA OldOnesKeep ==
  ASSUME FlowInv, NonceInv, markOldTxesMissingReceiptAsErrored
  PROVE  FlowInv' /\ NonceInv'
<1> DEFINE old == {tx \in In({"confirmed_missing_receipt"}) : Old(tx)}
<1>1. /\ state' = [tx \in Txs |-> IF tx \in old THEN "fatal_error" ELSE state[tx]]
      /\ nonce' = [tx \in Txs |-> IF tx \in old THEN None ELSE nonce[tx]]
      /\ stage' = "rebroadcast" /\ todo' = Unsent \ old
      /\ UNCHANGED <<nextNonce, bStep, bTx, bNonce>>
  BY DEF markOldTxesMissingReceiptAsErrored, goTo, besideConfirmer, broadcasterVars
<1>2. \A tx \in Txs : tx \in old => state[tx] = "confirmed_missing_receipt"
  BY DEF In
<1> HIDE DEF old
<1>3. state' \in [Txs -> States] /\ nonce' \in [Txs -> Int]
  BY <1>1 DEF FlowInv, States, None
<1>4. /\ \A tx \in Txs : /\ state'[tx] # "fatal_error" => state'[tx] = state[tx] /\ nonce'[tx] = nonce[tx]
                         /\ state[tx] # "confirmed_missing_receipt" => state'[tx] = state[tx]
                         /\ state'[tx] = "in_progress" <=> state[tx] = "in_progress"
  BY <1>1, <1>2 DEF FlowInv
<1>5. todo' \subseteq SentTxs'
  BY <1>1 DEF Unsent, SentTxs, In
<1>6. FlowInv'
  BY <1>1, <1>3, <1>4, <1>5 DEF FlowInv, Stages
<1>7. \A tx \in Txs : tx \in Live' => tx \in Live /\ nonce'[tx] = nonce[tx]
  BY <1>4 DEF Live, In
<1>8. NonceInv'
  BY <1>1, <1>4, <1>7 DEF NonceInv, NoncesUnique, SentStates, Live, In
<1> QED
  BY <1>6, <1>8

LEMMA ConfirmerKeeps ==
  ASSUME FlowInv, NonceInv, processHead
  PROVE  FlowInv' /\ NonceInv'
<1> USE DEF besideConfirmer, broadcasterVars
<1>0. {} \subseteq SentTxs /\ Unsent \subseteq SentTxs /\ todo \subseteq SentTxs /\ stage \in Stages
  BY DEF Unsent, FlowInv
<1>1. CASE retrieveHead
  <2>1. Unmoved /\ stage' = "before" /\ todo' = {}
    BY <1>1 DEF retrieveHead, goTo, Unmoved
  <2> QED
    BY <1>0, <2>1, UnmovedKeeps DEF Stages
<1>2. CASE SetBroadcastBeforeBlockNum
  <2>1. Unmoved /\ stage' = "missing" /\ todo' \subseteq SentTxs
    BY <1>2 DEF SetBroadcastBeforeBlockNum, goTo, Unmoved, SentTxs, In
  <2> QED
    BY <2>1, UnmovedKeeps DEF Stages
<1>3. CASE CheckConfirmedMissingReceipt
  <2>1. CASE todo = {} /\ UNCHANGED state
    <3>1. stage' \in {"rebroadcast", "receipts"} /\ todo' \in {Unsent, RequiringReceipt} /\ Unmoved
      BY <1>3, <2>1 DEF CheckConfirmedMissingReceipt, goTo, Unmoved
    <3>2. RequiringReceipt \subseteq SentTxs
      BY DEF RequiringReceipt, SentTxs, In
    <3> QED
      BY <1>0, <3>1, <3>2, UnmovedKeeps DEF Stages
  <2>2. ASSUME NEW tx \in todo, NEW answer \in Answers, goTo(stage, todo \ {tx}),
               state' = IF answer = "nonceTooLow" THEN state
                        ELSE [state EXCEPT ![tx] = "unconfirmed"]
        PROVE  FlowInv' /\ NonceInv'
    <3>1. tx \in Txs /\ state[tx] \in SentStates
      BY <1>0 DEF SentTxs, In, SentStates
    <3>2. /\ state' \in [Txs -> States]
          /\ \A t \in Txs : state'[t] = state[t]
                              \/ (state[t] \in SentStates /\ state'[t] \in SentStates)
      BY <2>2, <3>1 DEF FlowInv, States, SentStates
    <3>3. stage' \in Stages /\ todo' \subseteq SentTxs
          /\ UNCHANGED <<nonce, nextNonce, bStep, bTx, bNonce>>
      BY <1>0, <1>3, <2>2 DEF goTo, CheckConfirmedMissingReceipt
    <3> QED
      BY <3>2, <3>3, ConfirmingKeeps
  <2> QED
    BY <1>3, <2>1, <2>2 DEF CheckConfirmedMissingReceipt
<1>4. CASE fetchAndSaveReceipts
  <2>1. CASE todo = {} /\ goTo("mark", {}) /\ UNCHANGED state
    <3>1. stage' = "mark" /\ todo' = {} /\ Unmoved
      BY <1>4, <2>1 DEF fetchAndSaveReceipts, goTo, Unmoved
    <3> QED
      BY <1>0, <3>1, UnmovedKeeps DEF Stages
  <2>2. ASSUME NEW tx \in todo, goTo(stage, todo \ {tx}),
               state' = state \/ state' = [state EXCEPT ![tx] = "confirmed"]
        PROVE  FlowInv' /\ NonceInv'
    <3>1. tx \in Txs /\ state[tx] \in SentStates
      BY <1>0 DEF SentTxs, In, SentStates
    <3>2. /\ state' \in [Txs -> States]
          /\ \A t \in Txs : state'[t] = state[t]
                              \/ (state[t] \in SentStates /\ state'[t] \in SentStates)
      BY <2>2, <3>1 DEF FlowInv, States, SentStates
    <3>3. stage' \in Stages /\ todo' \subseteq SentTxs
          /\ UNCHANGED <<nonce, nextNonce, bStep, bTx, bNonce>>
      BY <1>0, <1>4, <2>2 DEF goTo, fetchAndSaveReceipts
    <3> QED
      BY <3>2, <3>3, ConfirmingKeeps
  <2> QED
    BY <1>4, <2>1, <2>2 DEF fetchAndSaveReceipts
<1>5. CASE markAllConfirmedMissingReceipt
  <2>1. \A t \in Txs : state'[t] = state[t] \/ (state[t] = "unconfirmed"
                                                  /\ state'[t] = "confirmed_missing_receipt")
    BY <1>5 DEF markAllConfirmedMissingReceipt, In
  <2>2. state' \in [Txs -> States]
    BY <1>5 DEF markAllConfirmedMissingReceipt, FlowInv, States
  <2>3. stage' = "old" /\ todo' = {} /\ UNCHANGED <<nonce, nextNonce, bStep, bTx, bNonce>>
    BY <1>5 DEF markAllConfirmedMissingReceipt, goTo
  <2> QED
    BY <1>0, <2>1, <2>2, <2>3, ConfirmingKeeps DEF Stages, SentStates
<1>6. CASE markOldTxesMissingReceiptAsErrored
  BY <1>6, OldOnesKeep
<1>7. CASE RebroadcastWhereNecessary
  <2>1. UNCHANGED <<nonce, nextNonce, bStep, bTx, bNonce>>
    BY <1>7 DEF RebroadcastWhereNecessary
  <2>2. ASSUME NEW tx \in todo, handleInProgressAttempt(tx)
        PROVE  FlowInv' /\ NonceInv'
    BY <2>1, <2>2, AttemptSentAgain
  <2>3. CASE goTo("bump", FindEthTxsRequiringRebroadcast) /\ UNCHANGED state
    <3>1. FindEthTxsRequiringRebroadcast \subseteq SentTxs
      BY DEF FindEthTxsRequiringRebroadcast, lowest, SentTxs, In
    <3> QED
      BY <2>1, <2>3, <3>1, UnmovedKeeps DEF goTo, Stages, Unmoved
  <2>4. ASSUME NEW tx \in todo, attemptForRebroadcast(tx), UNCHANGED state
        PROVE  FlowInv' /\ NonceInv'
    <3>1. stage' \in {stage, Idle} /\ todo' \subseteq todo
      BY <2>4 DEF attemptForRebroadcast, giveUp, goTo
    <3> QED
      BY <1>0, <2>1, <2>4, <3>1, UnmovedKeeps DEF Stages, Unmoved
  <2>5. lowest(1, todo) \subseteq todo
    BY DEF lowest
  <2> QED
    BY <1>7, <2>2, <2>3, <2>4, <2>5 DEF RebroadcastWhereNecessary
<1>8. CASE findTransactionsConfirmedInBlockRange
  <2>1. Unmoved /\ stage' = "ensure" /\ todo' \subseteq ConfirmedInBlockRange
    BY <1>8 DEF findTransactionsConfirmedInBlockRange, goTo, Unmoved
  <2>2. ConfirmedInBlockRange \subseteq SentTxs
    BY DEF ConfirmedInBlockRange, SentTxs, In
  <2> QED
    BY <2>1, <2>2, UnmovedKeeps DEF Stages
<1>9. CASE EnsureConfirmedTransactionsInLongestChain
  <2>1. UNCHANGED <<nonce, nextNonce, bStep, bTx, bNonce>>
    BY <1>9 DEF EnsureConfirmedTransactionsInLongestChain
  <2>2. ASSUME NEW tx \in todo, handleInProgressAttempt(tx)
        PROVE  FlowInv' /\ NonceInv'
    BY <2>1, <2>2, AttemptSentAgain
  <2>3. ASSUME NEW tx \in todo, markForRebroadcast(tx)
        PROVE  FlowInv' /\ NonceInv'
    <3>1. tx \in Txs /\ state[tx] \in SentStates
      BY <1>0 DEF SentTxs, In, SentStates
    <3>2. state' = state \/ state' = [state EXCEPT ![tx] = "unconfirmed"]
      BY <2>3 DEF markForRebroadcast
    <3>3. /\ state' \in [Txs -> States]
          /\ \A t \in Txs : state'[t] = state[t]
                              \/ (state[t] \in SentStates /\ state'[t] \in SentStates)
      BY <3>1, <3>2 DEF FlowInv, States, SentStates
    <3>4. stage' \in {stage, Idle} /\ todo' \subseteq todo
      BY <2>3 DEF markForRebroadcast, goTo, giveUp
    <3>5. stage' \in Stages /\ todo' \subseteq SentTxs
      BY <1>0, <3>4 DEF Stages
    <3> QED
      BY <2>1, <3>3, <3>5, ConfirmingKeeps
  <2>4. CASE goTo("again", Unsent) /\ UNCHANGED state
    BY <1>0, <2>1, <2>4, UnmovedKeeps DEF goTo, Stages, Unmoved
  <2>5. lowest(1, todo) \subseteq todo
    BY DEF lowest
  <2> QED
    BY <1>9, <2>2, <2>3, <2>4, <2>5 DEF EnsureConfirmedTransactionsInLongestChain
<1>10. CASE ResumePendingTaskRuns
  <2>1. Unmoved /\ stage' \in {"resume", Idle} /\ todo' \subseteq todo
    BY <1>10 DEF ResumePendingTaskRuns, goTo, Unmoved
  <2> QED
    BY <1>0, <2>1, UnmovedKeeps DEF Stages
<1> QED
  BY <1>1, <1>2, <1>3, <1>4, <1>5, <1>6, <1>7, <1>8, <1>9, <1>10 DEF processHead

LEMMA RestartKeeps ==
  ASSUME FlowInv, NonceInv, Restart
  PROVE  FlowInv' /\ NonceInv'
<1>1. UNCHANGED <<state, nonce>> /\ bStep' = Idle /\ stage' = Idle /\ todo' = {}
  BY DEF Restart, backToIdle, giveUp, goTo
<1>2. PICK pending \in NextNonces : nextNonce' = fastForwardNonce(pending)
  BY DEF Restart
<1>3. pending \in Nat
  BY <1>2, TxsCounted DEF NextNonces
<1>4. nextNonce' \in Nat /\ nextNonce <= nextNonce'
  BY <1>2, <1>3 DEF fastForwardNonce, FlowInv
<1>5. FlowInv'
  BY <1>1, <1>4 DEF FlowInv, Idle, BusySteps, Stages
<1>6. NonceInv'
  BY <1>1, <1>4 DEF NonceInv, NoncesUnique, Live, In, FlowInv
<1> QED
  BY <1>5, <1>6

LEMMA NonceStep == FlowInv /\ NonceInv /\ [Next]_vars => FlowInv' /\ NonceInv'
<1> SUFFICES ASSUME FlowInv, NonceInv, [Next]_vars PROVE FlowInv' /\ NonceInv'
  OBVIOUS
<1> USE DEF broadcasterVars, confirmerVars, dbVars
<1>0. stage \in Stages /\ todo \subseteq SentTxs
  BY DEF FlowInv
<1>1. CASE UNCHANGED vars
  BY <1>0, <1>1, UnmovedKeeps DEF vars, Unmoved
<1>2. CASE networkStep
  BY <1>0, <1>2, UnmovedKeeps DEF networkStep, Unmoved
<1>3. ASSUME NEW tx \in Txs, CreateEthTransaction(tx) \/ PruneQueue(tx)
      PROVE  FlowInv' /\ NonceInv'
  <2>1. /\ state[tx] \in {"none", "unstarted"}
        /\ \E s \in {"unstarted", "removed"} : state' = [state EXCEPT ![tx] = s]
        /\ state[tx] = "unstarted" => state' = [state EXCEPT ![tx] = "removed"]
        /\ UNCHANGED <<nonce, nextNonce, bStep, bTx, bNonce, stage, todo>>
    BY <1>3 DEF CreateEthTransaction, PruneQueue
  <2>2. /\ state' \in [Txs -> States] /\ state'[tx] \in {"unstarted", "removed"}
        /\ \A t \in Txs : t # tx => state'[t] = state[t]
    BY <2>1 DEF FlowInv, States
  <2>3. SentTxs' = SentTxs /\ Live' = Live
    BY <2>1, <2>2 DEF SentTxs, Live, In
  <2>4. \A t \in Txs : state'[t] = "in_progress" <=> state[t] = "in_progress"
    BY <2>1, <2>2
  <2>5. FlowInv'
    BY <2>1, <2>2, <2>3, <2>4 DEF FlowInv, BusySteps
  <2> QED
    BY <2>1, <2>2, <2>3, <2>4, <2>5 DEF NonceInv, NoncesUnique, SentStates
<1>4. CASE processUnstartedEthTxs
  BY <1>4, BroadcasterKeeps
<1>5. CASE OnNewLongestChain
  BY <1>0, <1>5, UnmovedKeeps DEF OnNewLongestChain, Unmoved
<1>6. CASE processHead
  BY <1>6, ConfirmerKeeps
<1>7. CASE resendUnconfirmed
  BY <1>0, <1>7, UnmovedKeeps DEF resendUnconfirmed, Unmoved
<1>8. CASE Restart
  BY <1>8, RestartKeeps
<1> QED
  BY <1>1, <1>2, <1>3, <1>4, <1>5, <1>6, <1>7, <1>8 DEF Next

\* Two transactions that are under way or confirmed have different nonces, for
\* every number of transactions and whatever fails.
THEOREM NoncesAreUnique == Spec => []NoncesUnique
<1>1. Init => FlowInv /\ NonceInv
  BY FlowInit
<1>2. FlowInv /\ NonceInv => NoncesUnique
  BY DEF NonceInv
<1> QED
  BY <1>1, <1>2, NonceStep, PTL DEF Spec
-------------------------------------------------------------------------------
(* The attempts, and the hashes that are known of a transaction *)

AnyHash == [tx : Txs, nonce : Int, price : 1..MaxPrice]
AnyAttempt == [hash : AnyHash, state : {"in_progress", "broadcast", "insufficient_eth"},
               before : Int]

\* A transaction in progress has an attempt to send, and so has every one that
\* the confirmer is to send again.
AttemptInv ==
  /\ attempts \subseteq AnyAttempt
  /\ \A tx \in Txs : state[tx] = "in_progress" => AttemptsOf(tx) # {}
  /\ stage \in {"missing", "ensure"} => \A tx \in todo : AttemptsOf(tx) # {}
  /\ stage \in {"rebroadcast", "again"} => todo \subseteq Unsent

\* No attempt comes from nowhere: it has the nonce of another of its transaction.
Derived ==
  \A b \in attempts' : \E a \in attempts : b.hash.tx = a.hash.tx /\ b.hash.nonce = a.hash.nonce

AttemptHashes == {a.hash : a \in attempts}

Sends == mempool' \subseteq mempool \cup AttemptHashes

Touches(tx) == \A t \in Txs : t # tx => AttemptsOf(t)' = AttemptsOf(t)

LEMMA HighestIsHighest ==
  ASSUME attempts \subseteq AnyAttempt, NEW tx, AttemptsOf(tx) # {}
  PROVE  /\ Highest(tx) \in AttemptsOf(tx)
         /\ \A b \in AttemptsOf(tx) : b.hash.price <= Highest(tx).hash.price
<1> DEFINE T == {a.hash.price : a \in AttemptsOf(tx)}
<1>a. MaxPrice \in Nat
  BY TxManagerAssumption
<1>b. \A h \in AnyHash : h.price \in 1..MaxPrice
  BY DEF AnyHash
<1>c. \A a \in AttemptsOf(tx) : a.hash.price \in 1..MaxPrice
  BY <1>b DEF AttemptsOf, AnyAttempt
<1>d. \A t \in 1..MaxPrice : t \in 0..MaxPrice
  BY <1>a
<1>1. T \in SUBSET (0..MaxPrice) /\ T # {}
  BY <1>c, <1>d
<1>2. PICK m \in T : \A t \in T : t <= m
  BY <1>1, <1>a, BoundedHasMax
<1>3. PICK a \in AttemptsOf(tx) : a.hash.price = m
  BY <1>2
<1>4. \A b \in AttemptsOf(tx) : b.hash.price <= a.hash.price
  BY <1>2, <1>3
<1> QED
  BY <1>3, <1>4 DEF Highest

LEMMA HighestIsOne ==
  ASSUME attempts \subseteq AnyAttempt, NEW tx, AttemptsOf(tx) # {}
  PROVE  Highest(tx) \in attempts /\ Highest(tx).hash.tx = tx /\ Highest(tx) \in AttemptsOf(tx)
BY HighestIsHighest DEF AttemptsOf

LEMMA Replacing ==
  ASSUME attempts \subseteq AnyAttempt, NEW a \in attempts, NEW b \in AnyAttempt,
         b.hash.tx = a.hash.tx, b.hash.nonce = a.hash.nonce,
         attempts' = replaced(a, b) \/ attempts' = attempts \cup {b}
  PROVE  /\ attempts' \subseteq AnyAttempt /\ Derived /\ Touches(a.hash.tx)
         /\ b \in AttemptsOf(a.hash.tx)'
BY DEF replaced, Derived, Touches, AttemptsOf

LEMMA Repriced ==
  ASSUME NEW h \in AnyHash, h.price < MaxPrice
  PROVE  /\ [h EXCEPT !.price = @ + 1] \in AnyHash
         /\ [h EXCEPT !.price = @ + 1].tx = h.tx /\ [h EXCEPT !.price = @ + 1].nonce = h.nonce
BY TxManagerAssumption DEF AnyHash

LEMMA NewInProgress ==
  ASSUME NEW h \in AnyHash
  PROVE  InProgress(h) \in AnyAttempt /\ InProgress(h).hash = h /\ InProgress(h).state = "in_progress"
BY DEF InProgress, AnyAttempt, None

LEMMA Restated ==
  ASSUME NEW a \in AnyAttempt, NEW s \in {"in_progress", "broadcast", "insufficient_eth"}
  PROVE  /\ [a EXCEPT !.state = s] \in AnyAttempt /\ [a EXCEPT !.state = s].hash = a.hash
         /\ [a EXCEPT !.state = s].state = s
BY DEF AnyAttempt

LEMMA SendsOne ==
  ASSUME NEW h, NEW answer, sendTransaction(h, answer)
  PROVE  mempool' \subseteq mempool \cup {h}
BY DEF sendTransaction

\* Nothing the confirmer has to do is disturbed by what others do.
LEMMA ConfirmerUndisturbed ==
  ASSUME AttemptInv, UNCHANGED <<stage, todo>>, todo \subseteq SentTxs',
         \A t \in todo : AttemptsOf(t)' = AttemptsOf(t)
  PROVE  /\ stage' \in {"missing", "ensure"} => \A tx \in todo' : AttemptsOf(tx)' # {}
         /\ stage' \in {"rebroadcast", "again"} => todo' \subseteq Unsent'
BY DEF AttemptInv, Unsent

LEMMA AttemptsAlone ==
  ASSUME FlowInv, AttemptInv, UNCHANGED attempts,
         \A tx \in Txs : state'[tx] = "in_progress" => state[tx] = "in_progress",
         UNCHANGED <<stage, todo>>, todo \subseteq SentTxs'
  PROVE  AttemptInv' /\ Derived
<1>1. \A t : AttemptsOf(t)' = AttemptsOf(t)
  BY DEF AttemptsOf
<1>2. /\ stage' \in {"missing", "ensure"} => \A tx \in todo' : AttemptsOf(tx)' # {}
      /\ stage' \in {"rebroadcast", "again"} => todo' \subseteq Unsent'
  BY <1>1, ConfirmerUndisturbed
<1> QED
  BY <1>1, <1>2 DEF AttemptInv, Derived
LEMMA AttemptsOfOne ==
  ASSUME FlowInv, FlowInv', AttemptInv, UNCHANGED <<stage, todo>>,
         attempts' \subseteq AnyAttempt,
         NEW tx, Touches(tx), tx \notin todo,
         \A t \in Txs : state'[t] = "in_progress" =>
                          (t # tx /\ state[t] = "in_progress") \/ AttemptsOf(t)' # {}
  PROVE  AttemptInv'
<1>1. todo \subseteq Txs /\ todo \subseteq SentTxs'
  BY DEF FlowInv, SentTxs, In
<1>2. \A t \in todo : AttemptsOf(t)' = AttemptsOf(t)
  BY <1>1 DEF Touches
<1>3. /\ stage' \in {"missing", "ensure"} => \A t \in todo' : AttemptsOf(t)' # {}
      /\ stage' \in {"rebroadcast", "again"} => todo' \subseteq Unsent'
  BY <1>1, <1>2, ConfirmerUndisturbed
<1>4. \A t \in Txs : state'[t] = "in_progress" => AttemptsOf(t)' # {}
  BY DEF AttemptInv, Touches
<1> QED
  BY <1>3, <1>4 DEF AttemptInv

\* A transaction gets its nonce and its first attempt.
Saves ==
  /\ state[bTx] = "unstarted" /\ bTx \in Txs
  /\ state' = [state EXCEPT ![bTx] = "in_progress"]
  /\ attempts' = attempts \cup {InProgress([tx |-> bTx, nonce |-> bNonce, price |-> 1])}

LEMMA BroadcasterAttempts ==
  ASSUME FlowInv, FlowInv', AttemptInv, processUnstartedEthTxs
  PROVE  AttemptInv' /\ Sends /\ (Derived \/ Saves)
<1> USE DEF besideBroadcaster, confirmerVars
<1>0. UNCHANGED <<stage, todo>>
  BY DEF processUnstartedEthTxs, handleAnyInProgressEthTx, nextUnstartedTransactionWithNonce,
         saveInProgressTransaction, handleInProgressEthTx, handleAnswer, resumeWithError,
         saveFatallyErroredTransaction
<1>a. todo \subseteq SentTxs' /\ attempts \subseteq AnyAttempt
  BY <1>0 DEF FlowInv, AttemptInv
<1>b. PICK own : own = bTx
  OBVIOUS
<1>1. CASE UNCHANGED <<state, attempts>> /\ Sends
  BY <1>0, <1>a, <1>1, AttemptsAlone
<1>2. CASE saveInProgressTransaction
  <2>1. CASE UNCHANGED <<state, attempts>>
    BY <1>1, <1>2, <2>1 DEF saveInProgressTransaction, Sends
  <2> DEFINE new == InProgress([tx |-> bTx, nonce |-> bNonce, price |-> 1])
  <2>2. CASE Saves
    <3>1. bNonce \in Int /\ bTx \in Txs /\ 1 \in 1..MaxPrice
      BY <1>2, TxManagerAssumption DEF saveInProgressTransaction, FlowInv
    <3>2. [tx |-> bTx, nonce |-> bNonce, price |-> 1] \in AnyHash
      BY <3>1 DEF AnyHash
    <3>3. PICK b \in AnyAttempt : b.hash.tx = own /\ b = new
      BY <1>b, <3>2, NewInProgress
    <3> HIDE DEF new
    <3>4. attempts' = attempts \cup {b}
      BY <2>2, <3>3 DEF Saves, new
    <3>5. Touches(own) /\ b \in AttemptsOf(own)' /\ attempts' \subseteq AnyAttempt
      BY <1>a, <3>3, <3>4 DEF Touches, AttemptsOf
    <3>6. own \notin todo
      BY <1>b, <2>2 DEF FlowInv, SentTxs, In, Saves
    <3>7. \A t \in Txs : t # own => state'[t] = state[t]
      BY <1>b, <2>2 DEF FlowInv, Saves
    <3>8. \A t \in Txs : state'[t] = "in_progress" =>
                           (t # own /\ state[t] = "in_progress") \/ AttemptsOf(t)' # {}
      BY <3>5, <3>7
    <3>9. AttemptInv'
      BY <1>0, <3>5, <3>6, <3>8, AttemptsOfOne
    <3> QED
      BY <1>2, <2>2, <3>9 DEF saveInProgressTransaction, Sends
  <2> QED
    BY <1>2, <2>1, <2>2 DEF saveInProgressTransaction, FlowInv, Saves
<1>3. CASE handleInProgressEthTx
  <2>1. bTx \in Txs /\ state[bTx] = "in_progress" /\ UNCHANGED <<state, attempts>>
    BY <1>3 DEF handleInProgressEthTx, FlowInv, BusySteps
  <2>2. Highest(bTx) \in attempts
    BY <1>a, <2>1, HighestIsOne DEF AttemptInv
  <2>3. Sends
    BY <1>3, <2>2, SendsOne DEF handleInProgressEthTx, Sends, AttemptHashes
  <2> QED
    BY <1>1, <2>1, <2>3
<1>4. CASE handleAnswer
  <2>1. bTx \in Txs /\ state[bTx] = "in_progress" /\ mempool' = mempool
    BY <1>4 DEF handleAnswer, FlowInv, BusySteps
  <2>0. PICK top : top = Highest(bTx)
    OBVIOUS
  <2>2. top \in attempts /\ top.hash.tx = own /\ top \in AnyAttempt
        /\ top.hash \in AnyHash
    BY <1>a, <1>b, <2>0, <2>1, HighestIsOne DEF AttemptInv, AnyAttempt
  <2>3. own \notin todo
    BY <1>b, <2>1 DEF FlowInv, SentTxs, In
  <2>4. CASE UNCHANGED <<state, attempts>>
    BY <1>1, <2>1, <2>4 DEF Sends
  <2>5. ASSUME NEW b \in AnyAttempt, b.hash.tx = own, b.hash.nonce = top.hash.nonce,
               attempts' = replaced(top, b),
               \A t \in Txs : state'[t] = "in_progress" => state[t] = "in_progress"
        PROVE  AttemptInv' /\ Derived
    <3>1. attempts' \subseteq AnyAttempt /\ Derived /\ Touches(own) /\ b \in AttemptsOf(own)'
      BY <1>a, <2>2, <2>5, Replacing
    <3>2. \A t \in Txs : state'[t] = "in_progress" =>
                           (t # own /\ state[t] = "in_progress") \/ AttemptsOf(t)' # {}
      BY <2>5, <3>1
    <3> QED
      BY <1>0, <2>3, <3>1, <3>2, AttemptsOfOne
  <2>6. CASE saveAttempt /\ nextNonce = nonce[bTx]
    <3>1. [top EXCEPT !.state = "broadcast"] \in AnyAttempt
          /\ [top EXCEPT !.state = "broadcast"].hash = top.hash
      BY <2>2, Restated
    <3>2. /\ state' = [state EXCEPT ![own] = "unconfirmed"]
          /\ attempts' = replaced(top, [top EXCEPT !.state = "broadcast"])
      BY <1>b, <2>0, <2>6 DEF saveAttempt
    <3>3. \A t \in Txs : state'[t] = "in_progress" => state[t] = "in_progress"
      BY <3>2 DEF FlowInv
    <3> QED
      BY <2>1, <2>2, <2>5, <3>1, <3>2, <3>3 DEF Sends
  <2>7. CASE tryAgainBumpingGas /\ top.hash.price < MaxPrice
    <3> DEFINE h == top.hash
               g == [h EXCEPT !.price = @ + 1]
    <3>1. CASE attempts' = replaced(top, InProgress(g))
      <4>1. g \in AnyHash /\ g.tx = h.tx /\ g.nonce = h.nonce
        BY <2>2, <2>7, Repriced
      <4> HIDE DEF g, h
      <4>2. InProgress(g) \in AnyAttempt /\ InProgress(g).hash = g
        BY <4>1, NewInProgress
      <4>3. state' = state
        BY <2>7 DEF tryAgainBumpingGas
      <4> QED
        BY <2>1, <2>2, <2>5, <3>1, <4>1, <4>2, <4>3 DEF Sends, h
    <3>2. CASE UNCHANGED attempts
      BY <2>4, <2>7, <3>2 DEF tryAgainBumpingGas
    <3> QED
      BY <2>0, <2>7, <3>1, <3>2 DEF tryAgainBumpingGas
  <2> QED
    BY <1>4, <2>0, <2>4, <2>6, <2>7 DEF handleAnswer, saveAttempt, tryAgainBumpingGas
<1>5. CASE saveFatallyErroredTransaction
  <2>1. /\ bTx \in Txs /\ state[bTx] = "in_progress" /\ mempool' = mempool
        /\ state' = [state EXCEPT ![bTx] = "fatal_error"]
        /\ attempts' = attempts \ AttemptsOf(bTx)
    BY <1>5 DEF saveFatallyErroredTransaction, FlowInv, BusySteps
  <2>2. attempts' \subseteq AnyAttempt /\ Touches(own) /\ Derived
    BY <1>a, <1>b, <2>1 DEF Touches, AttemptsOf, Derived
  <2>3. own \notin todo
    BY <1>b, <2>1 DEF FlowInv, SentTxs, In
  <2>4. \A t \in Txs : state'[t] = "in_progress" => t # own /\ state[t] = "in_progress"
    BY <1>b, <2>1 DEF FlowInv
  <2> QED
    BY <1>0, <2>1, <2>2, <2>3, <2>4, AttemptsOfOne DEF Sends
<1>6. CASE handleAnyInProgressEthTx \/ nextUnstartedTransactionWithNonce \/ resumeWithError
  BY <1>1, <1>6 DEF handleAnyInProgressEthTx, nextUnstartedTransactionWithNonce, resumeWithError,
                    Sends
<1> QED
  BY <1>2, <1>3, <1>4, <1>5, <1>6 DEF processUnstartedEthTxs
HeadInv == height \in Nat /\ head.number \in Nat

LEMMA HeadInit == Init => HeadInv
BY DEF Init, ChainInit, HeadInv

LEMMA HeadStep == HeadInv /\ [Next]_vars => HeadInv'
<1> SUFFICES ASSUME HeadInv, [Next]_vars PROVE HeadInv'
  OBVIOUS
<1>1. CASE UNCHANGED <<height, head>>
  BY <1>1 DEF HeadInv
<1>2. CASE networkStep
  <2>1. head' = head
    BY <1>2 DEF networkStep, confirmerVars
  <2>2. \/ height' = height + 1 \/ height' = height
        \/ \E depth \in 1..ReorgDepth : depth <= height /\ height' = height - depth
    BY <1>2 DEF networkStep, Mine, extend, Reorg, chainVars
  <2>3. ReorgDepth \in Nat
    BY ChainAssumption
  <2> QED
    BY <2>1, <2>2, <2>3 DEF HeadInv
<1>3. CASE retrieveHead
  <2>1. head' = [number |-> height, logs |-> canonical] /\ height' = height
    BY <1>3 DEF retrieveHead, besideConfirmer, chainVars
  <2> QED
    BY <2>1 DEF HeadInv
<1>4. CASE Restart
  <2>1. head' = [number |-> 0, logs |-> {}] /\ height' = height
    BY <1>4 DEF Restart, chainVars
  <2> QED
    BY <2>1 DEF HeadInv
<1>5. CASE processUnstartedEthTxs
  BY <1>1, <1>5 DEF processUnstartedEthTxs, handleAnyInProgressEthTx,
       nextUnstartedTransactionWithNonce, saveInProgressTransaction, handleInProgressEthTx,
       handleAnswer, resumeWithError, saveFatallyErroredTransaction, besideBroadcaster,
       confirmerVars, chainVars
<1>6. CASE processHead /\ ~retrieveHead
  BY <1>1, <1>6 DEF processHead, SetBroadcastBeforeBlockNum, CheckConfirmedMissingReceipt,
       fetchAndSaveReceipts, markAllConfirmedMissingReceipt, markOldTxesMissingReceiptAsErrored,
       RebroadcastWhereNecessary, findTransactionsConfirmedInBlockRange,
       EnsureConfirmedTransactionsInLongestChain, ResumePendingTaskRuns, besideConfirmer,
       chainVars
<1>7. CASE \/ UNCHANGED vars \/ OnNewLongestChain \/ resendUnconfirmed
           \/ \E tx \in Txs : CreateEthTransaction(tx) \/ PruneQueue(tx)
  BY <1>1, <1>7 DEF vars, OnNewLongestChain, resendUnconfirmed, CreateEthTransaction, PruneQueue,
       networkVars, chainVars, confirmerVars
<1> QED
  BY <1>2, <1>3, <1>4, <1>5, <1>6, <1>7 DEF Next

\* The confirmer at one of the transactions it has to do with.
LEMMA ConfirmerOfOne ==
  ASSUME FlowInv', AttemptInv, attempts' \subseteq AnyAttempt,
         NEW tx, Touches(tx),
         \A t \in Txs : state'[t] = "in_progress" => t # tx /\ state[t] = "in_progress",
         stage' \in {stage, Idle}, todo' \subseteq todo,
         stage \in {"missing", "ensure"} => tx \notin todo' \/ AttemptsOf(tx)' # {},
         stage \in {"rebroadcast", "again"} => tx \notin todo' \/ tx \in Unsent'
  PROVE  AttemptInv'
<1>1. todo' \subseteq Txs /\ todo' \subseteq SentTxs'
  BY DEF FlowInv, SentTxs, In
<1>2. stage' # Idle => stage' = stage
  OBVIOUS
<1>3. stage' \in {"missing", "ensure", "rebroadcast", "again"} => stage' = stage
  BY <1>2 DEF Idle
<1>4. \A t \in Txs : t # tx => AttemptsOf(t)' = AttemptsOf(t)
  BY DEF Touches
<1>5. stage' \in {"missing", "ensure"} => \A t \in todo' : AttemptsOf(t)' # {}
  BY <1>1, <1>3, <1>4 DEF AttemptInv
<1>6. stage' \in {"rebroadcast", "again"} => todo' \subseteq Unsent'
  BY <1>1, <1>3, <1>4 DEF AttemptInv, Unsent
<1>7. \A t \in Txs : state'[t] = "in_progress" => AttemptsOf(t)' # {}
  BY <1>4 DEF AttemptInv
<1> QED
  BY <1>5, <1>6, <1>7 DEF AttemptInv

LEMMA SentAgainAttempts ==
  ASSUME FlowInv, FlowInv', AttemptInv, NEW tx \in todo, tx \in Unsent,
         stage \notin {"missing", "ensure"}, handleInProgressAttempt(tx)
  PROVE  AttemptInv' /\ Sends /\ Derived
<1>1. PICK a : a = CHOOSE b \in AttemptsOf(tx) : b.state = "in_progress"
  OBVIOUS
<1>2. a \in AttemptsOf(tx) /\ a.state = "in_progress"
  BY <1>1 DEF Unsent
<1>3. a \in attempts /\ a.hash.tx = tx /\ a \in AnyAttempt /\ a.hash \in AnyHash
      /\ attempts \subseteq AnyAttempt
  BY <1>2 DEF AttemptsOf, AttemptInv, AnyAttempt
<1>4. PICK answer \in Answers :
        /\ sendTransaction(a.hash, answer)
        /\ \/ /\ \E s \in {"broadcast", "insufficient_eth"} :
                   attempts' = replaced(a, [a EXCEPT !.state = s])
              /\ goTo(stage, todo \ {tx})
              /\ state' = state \/ state' = [state EXCEPT ![tx] = "confirmed_missing_receipt"]
           \/ /\ a = Highest(tx) /\ a.hash.price < MaxPrice
              /\ attempts' = replaced(a, InProgress([a.hash EXCEPT !.price = @ + 1]))
              /\ UNCHANGED <<state, stage, todo>>
           \/ attempts' = attempts \ {a} /\ goTo(stage, todo \ {tx}) /\ UNCHANGED state
           \/ giveUp /\ UNCHANGED <<state, attempts>>
  BY <1>1 DEF handleInProgressAttempt
<1>5. Sends
  BY <1>3, <1>4, SendsOne DEF Sends, AttemptHashes
<1>6. tx \in Txs /\ state[tx] \in SentStates
  BY DEF FlowInv, SentTxs, In, SentStates
<1>7. \A t \in Txs : state'[t] = "in_progress" => t # tx /\ state[t] = "in_progress"
  BY <1>4, <1>6 DEF FlowInv, SentStates
<1>8. ASSUME NEW s \in {"broadcast", "insufficient_eth"},
             attempts' = replaced(a, [a EXCEPT !.state = s]), goTo(stage, todo \ {tx})
      PROVE  AttemptInv' /\ Derived
  <2>1. PICK b \in AnyAttempt : b = [a EXCEPT !.state = s] /\ b.hash = a.hash
    BY <1>3, Restated
  <2>2. attempts' \subseteq AnyAttempt /\ Derived /\ Touches(tx)
    BY <1>3, <1>8, <2>1, Replacing
  <2>3. stage' = stage /\ todo' = todo \ {tx}
    BY <1>8 DEF goTo
  <2> QED
    BY <1>7, <2>2, <2>3, ConfirmerOfOne
<1>9. CASE /\ a.hash.price < MaxPrice
           /\ attempts' = replaced(a, InProgress([a.hash EXCEPT !.price = @ + 1]))
           /\ UNCHANGED <<state, stage, todo>>
  <2>1. PICK h \in AnyHash : /\ h = [a.hash EXCEPT !.price = @ + 1]
                             /\ h.tx = a.hash.tx /\ h.nonce = a.hash.nonce
    BY <1>3, <1>9, Repriced
  <2>2. PICK b \in AnyAttempt : b = InProgress(h) /\ b.hash = h /\ b.state = "in_progress"
    BY NewInProgress
  <2>3. attempts' \subseteq AnyAttempt /\ Derived /\ Touches(tx) /\ b \in AttemptsOf(tx)'
    BY <1>3, <1>9, <2>1, <2>2, Replacing
  <2>4. tx \in SentTxs'
    BY <1>9 DEF FlowInv
  <2>5. tx \in Unsent'
    BY <2>2, <2>3, <2>4 DEF Unsent
  <2> QED
    BY <1>5, <1>7, <1>9, <2>3, <2>5, ConfirmerOfOne
<1>10. CASE attempts' = attempts \ {a} /\ goTo(stage, todo \ {tx})
  <2>1. attempts' \subseteq AnyAttempt /\ Derived /\ Touches(tx)
    BY <1>3, <1>10 DEF Derived, Touches, AttemptsOf
  <2>2. stage' = stage /\ todo' = todo \ {tx}
    BY <1>10 DEF goTo
  <2> QED
    BY <1>5, <1>7, <2>1, <2>2, ConfirmerOfOne
<1>11. CASE giveUp /\ UNCHANGED attempts
  <2>1. attempts' \subseteq AnyAttempt /\ Derived /\ Touches(tx)
    BY <1>3, <1>11 DEF Derived, Touches, AttemptsOf
  <2>2. stage' = Idle /\ todo' = {}
    BY <1>11 DEF giveUp, goTo
  <2> QED
    BY <1>5, <1>7, <2>1, <2>2, ConfirmerOfOne
<1> QED
  BY <1>4, <1>5, <1>8, <1>9, <1>10, <1>11
\* A step of the confirmer that leaves the attempts.
LEMMA AttemptsKept ==
  ASSUME FlowInv', AttemptInv, attempts' = attempts,
         \A tx \in Txs : state'[tx] = "in_progress" => state[tx] = "in_progress",
         \/ stage' = stage /\ todo' \subseteq todo
         \/ stage' = "ensure" /\ \A tx \in todo' : AttemptsOf(tx) # {}
         \/ stage' \in {"rebroadcast", "again"} /\ todo' \subseteq Unsent
         \/ stage' \notin {"missing", "ensure", "rebroadcast", "again"}
  PROVE  AttemptInv' /\ Derived
<1>1. \A tx : AttemptsOf(tx)' = AttemptsOf(tx)
  BY DEF AttemptsOf
<1>2. todo' \subseteq SentTxs'
  BY DEF FlowInv
<1>3. stage' \in {"missing", "ensure"} => \A tx \in todo' : AttemptsOf(tx)' # {}
  BY <1>1 DEF AttemptInv
<1>4. stage' \in {"rebroadcast", "again"} => todo' \subseteq Unsent'
  BY <1>1, <1>2 DEF AttemptInv, Unsent
<1> QED
  BY <1>1, <1>3, <1>4 DEF AttemptInv, Derived

\* A step that gives every attempt of the database another state or block.
LEMMA AttemptsRestated ==
  ASSUME FlowInv', AttemptInv, attempts' \subseteq AnyAttempt,
         \A b \in attempts' : \E a \in attempts : b.hash = a.hash,
         \A a \in attempts : \E b \in attempts' : b.hash = a.hash,
         \A tx \in Txs : state'[tx] = "in_progress" => state[tx] = "in_progress",
         \/ stage' = "missing" /\ \A tx \in todo' : AttemptsOf(tx) # {}
         \/ stage' \notin {"missing", "ensure", "rebroadcast", "again"}
  PROVE  AttemptInv' /\ Derived
<1>1. ASSUME NEW tx, AttemptsOf(tx) # {} PROVE AttemptsOf(tx)' # {}
  BY <1>1 DEF AttemptsOf
<1>2. stage' \in {"missing", "ensure"} => \A tx \in todo' : AttemptsOf(tx)' # {}
  BY <1>1
<1> QED
  BY <1>1, <1>2 DEF AttemptInv, Derived

\* What the steps of the confirmer do to the attempts, one by one.
LEMMA BeforeAttempts ==
  ASSUME FlowInv', AttemptInv, HeadInv, SetBroadcastBeforeBlockNum
  PROVE  AttemptInv' /\ Sends /\ Derived
<1>1. /\ UNCHANGED <<mempool, state>> /\ stage' = "missing"
      /\ \A tx \in todo' : AttemptsOf(tx) # {}
      /\ attempts' = {IF a.state = "broadcast" /\ a.before = None
                      THEN [a EXCEPT !.before = head.number] ELSE a : a \in attempts}
  BY DEF SetBroadcastBeforeBlockNum, goTo
<1>2. \A a \in attempts : [a EXCEPT !.before = head.number] \in AnyAttempt
                          /\ [a EXCEPT !.before = head.number].hash = a.hash
  BY DEF AttemptInv, AnyAttempt, HeadInv
<1>3. attempts' \subseteq AnyAttempt
  BY <1>1, <1>2 DEF AttemptInv
<1>4. /\ \A b \in attempts' : \E a \in attempts : b.hash = a.hash
      /\ \A a \in attempts : \E b \in attempts' : b.hash = a.hash
  BY <1>1, <1>2
<1> QED
  BY <1>1, <1>3, <1>4, AttemptsRestated DEF Sends

LEMMA MissingAttempts ==
  ASSUME FlowInv, FlowInv', AttemptInv, CheckConfirmedMissingReceipt
  PROVE  AttemptInv' /\ Sends /\ Derived
<1>1. attempts' = attempts /\ stage = "missing" /\ todo \subseteq SentTxs
  BY DEF CheckConfirmedMissingReceipt, FlowInv
<1>2. CASE /\ UNCHANGED <<mempool, state>>
           /\ goTo("rebroadcast", Unsent) \/ goTo("receipts", RequiringReceipt)
  BY <1>1, <1>2, AttemptsKept DEF goTo, Sends
<1>3. ASSUME NEW tx \in todo, NEW answer, sendTransaction(Highest(tx).hash, answer),
             goTo(stage, todo \ {tx}),
             state' = state \/ state' = [state EXCEPT ![tx] = "unconfirmed"]
      PROVE  AttemptInv' /\ Sends /\ Derived
  <2>1. Highest(tx) \in attempts
    BY <1>1, HighestIsOne DEF AttemptInv
  <2>2. Sends
    BY <1>3, <2>1, SendsOne DEF Sends, AttemptHashes
  <2>3. \A t \in Txs : state'[t] = "in_progress" => state[t] = "in_progress"
    BY <1>3 DEF FlowInv
  <2>4. stage' = stage /\ todo' \subseteq todo
    BY <1>3 DEF goTo
  <2> QED
    BY <1>1, <2>2, <2>3, <2>4, AttemptsKept
<1> QED
  BY <1>2, <1>3 DEF CheckConfirmedMissingReceipt

LEMMA ReceiptAttempts ==
  ASSUME FlowInv, FlowInv', AttemptInv, fetchAndSaveReceipts,
         \A l \in canonical : l.block \in Nat
  PROVE  AttemptInv' /\ Sends /\ Derived
<1>1. mempool' = mempool /\ stage = "receipts" /\ attempts \subseteq AnyAttempt
  BY DEF fetchAndSaveReceipts, AttemptInv
<1>2. CASE goTo("mark", {}) /\ UNCHANGED <<state, attempts>>
  BY <1>1, <1>2, AttemptsKept DEF goTo, Sends
<1>3. ASSUME NEW tx \in todo, NEW found \in SUBSET canonical,
             state' = state \/ state' = [state EXCEPT ![tx] = "confirmed"],
             attempts' = {IF \E l \in found : l.hash = a.hash
                          THEN [a EXCEPT !.state = "broadcast",
                                         !.before = IF @ = None
                                                    THEN (CHOOSE l \in found : l.hash = a.hash).block
                                                    ELSE @]
                          ELSE a : a \in attempts},
             goTo(stage, todo \ {tx})
      PROVE  AttemptInv' /\ Sends /\ Derived
  <2> DEFINE sent(a) == [a EXCEPT !.state = "broadcast",
                                  !.before = IF @ = None
                                             THEN (CHOOSE l \in found : l.hash = a.hash).block
                                             ELSE @]
  <2> HIDE DEF sent
  <2>1. ASSUME NEW a \in attempts, \E l \in found : l.hash = a.hash
        PROVE  sent(a) \in AnyAttempt /\ sent(a).hash = a.hash
    <3>1. (CHOOSE l \in found : l.hash = a.hash) \in canonical
      BY <2>1
    <3> DEFINE m == IF a.before = None THEN (CHOOSE l \in found : l.hash = a.hash).block
                                       ELSE a.before
    <3>3. a \in AnyAttempt
      BY <1>1
    <3>4. m \in Int
      BY <3>1, <3>3 DEF AnyAttempt
    <3>5. sent(a) = [a EXCEPT !.state = "broadcast", !.before = m]
      BY DEF sent
    <3> HIDE DEF m
    <3> QED
      BY <3>3, <3>4, <3>5 DEF AnyAttempt
  <2>2. attempts' = {IF \E l \in found : l.hash = a.hash THEN sent(a) ELSE a : a \in attempts}
    BY <1>3 DEF sent
  <2>3. attempts' \subseteq AnyAttempt
    BY <1>1, <2>1, <2>2
  <2>4. /\ \A b \in attempts' : \E a \in attempts : b.hash = a.hash
        /\ \A a \in attempts : \E b \in attempts' : b.hash = a.hash
    BY <2>1, <2>2
  <2>5. \A t \in Txs : state'[t] = "in_progress" => state[t] = "in_progress"
    BY <1>3 DEF FlowInv
  <2>6. stage' = "receipts"
    BY <1>1, <1>3 DEF goTo
  <2> QED
    BY <1>1, <2>3, <2>4, <2>5, <2>6, AttemptsRestated DEF Sends
<1>4. CASE todo # {} /\ ~goTo("mark", {})
  <2>1. PICK tx \in todo, found \in SUBSET canonical :
          /\ state' = state \/ state' = [state EXCEPT ![tx] = "confirmed"]
          /\ attempts' = {IF \E l \in found : l.hash = a.hash
                          THEN [a EXCEPT !.state = "broadcast",
                                         !.before = IF @ = None
                                                    THEN (CHOOSE l \in found : l.hash = a.hash).block
                                                    ELSE @]
                          ELSE a : a \in attempts}
          /\ goTo(stage, todo \ {tx})
    <3>1. PICK tx \in todo :
            LET asked == {a \in AttemptsOf(tx) : a.state # "insufficient_eth"}
                found == {l \in canonical : \E a \in asked : a.hash = l.hash}
            IN  /\ state' = IF found = {} THEN state ELSE [state EXCEPT ![tx] = "confirmed"]
                /\ attempts' = {IF \E l \in found : l.hash = a.hash
                                THEN [a EXCEPT !.state = "broadcast",
                                               !.before = IF @ = None
                                                          THEN (CHOOSE l \in found : l.hash = a.hash).block
                                                          ELSE @]
                                ELSE a : a \in attempts}
                /\ goTo(stage, todo \ {tx})
      BY <1>4 DEF fetchAndSaveReceipts
    <3>2. PICK found \in SUBSET canonical :
            found = {l \in canonical :
                       \E a \in {b \in AttemptsOf(tx) : b.state # "insufficient_eth"} : a.hash = l.hash}
      OBVIOUS
    <3> QED
      BY <3>1, <3>2
  <2> QED
    BY <2>1, <1>3
<1> QED
  BY <1>1, <1>2, <1>4 DEF fetchAndSaveReceipts, goTo
LEMMA OldAttempts ==
  ASSUME FlowInv, FlowInv', AttemptInv, markOldTxesMissingReceiptAsErrored
  PROVE  AttemptInv' /\ Sends /\ Derived
<1>1. /\ stage' = "rebroadcast" /\ todo' \subseteq Unsent /\ UNCHANGED <<mempool, attempts>>
      /\ state' = [tx \in Txs |-> IF tx \in {o \in In({"confirmed_missing_receipt"}) : Old(o)}
                                  THEN "fatal_error" ELSE state[tx]]
  BY DEF markOldTxesMissingReceiptAsErrored, goTo
<1>2. \A tx \in Txs : state'[tx] = "in_progress" => state[tx] = "in_progress"
  BY <1>1
<1> QED
  BY <1>1, <1>2, AttemptsKept DEF Sends

LEMMA RepricedAttempts ==
  ASSUME FlowInv, FlowInv', AttemptInv, NEW tx \in todo, attemptForRebroadcast(tx),
         stage = "bump", UNCHANGED <<mempool, state>>
  PROVE  AttemptInv' /\ Sends /\ Derived
<1>1. tx \in Txs /\ state[tx] \in SentStates /\ Sends /\ attempts \subseteq AnyAttempt
  BY DEF FlowInv, SentTxs, In, SentStates, Sends, AttemptInv
<1>2. \A t \in Txs : state'[t] = "in_progress" => t # tx /\ state[t] = "in_progress"
  BY <1>1 DEF SentStates
<1>3. CASE AttemptsOf(tx) = {}
  <2>1. attempts' = attempts /\ stage' = Idle
    BY <1>3 DEF attemptForRebroadcast, giveUp, goTo
  <2> QED
    BY <1>1, <2>1, AttemptsKept DEF Idle
<1>4. CASE AttemptsOf(tx) # {}
  <2>1. PICK a : a = Highest(tx)
    OBVIOUS
  <2>2. a \in attempts /\ a.hash.tx = tx /\ a \in AnyAttempt /\ a.hash \in AnyHash
    BY <1>1, <1>4, <2>1, HighestIsOne DEF AnyAttempt
  <2>3. UNCHANGED <<stage, todo>>
    BY <1>4 DEF attemptForRebroadcast
  <2>4. ASSUME NEW b \in AnyAttempt, b.hash.tx = tx, b.hash.nonce = a.hash.nonce,
               attempts' = replaced(a, b) \/ attempts' = attempts \cup {b}
        PROVE  AttemptInv' /\ Derived
    <3>1. attempts' \subseteq AnyAttempt /\ Derived /\ Touches(tx)
      BY <1>1, <2>2, <2>4, Replacing
    <3> QED
      BY <1>2, <2>3, <3>1, ConfirmerOfOne
  <2>5. CASE attempts' = replaced(a, [a EXCEPT !.state = "in_progress"])
    <3>1. PICK b \in AnyAttempt : b = [a EXCEPT !.state = "in_progress"] /\ b.hash = a.hash
      BY <2>2, Restated
    <3> QED
      BY <1>1, <2>2, <2>4, <2>5, <3>1
  <2>6. CASE attempts' = replaced(a, InProgress(a.hash))
    <3>1. PICK b \in AnyAttempt : b = InProgress(a.hash) /\ b.hash = a.hash
      BY <2>2, NewInProgress
    <3> QED
      BY <1>1, <2>2, <2>4, <2>6, <3>1
  <2>7. CASE a.hash.price < MaxPrice
               /\ attempts' = attempts \cup {InProgress([a.hash EXCEPT !.price = @ + 1])}
    <3>1. PICK h \in AnyHash : /\ h = [a.hash EXCEPT !.price = @ + 1]
                               /\ h.tx = a.hash.tx /\ h.nonce = a.hash.nonce
      BY <2>2, <2>7, Repriced
    <3>2. PICK b \in AnyAttempt : b = InProgress(h) /\ b.hash = h
      BY NewInProgress
    <3> QED
      BY <1>1, <2>2, <2>4, <2>7, <3>1, <3>2
  <2> QED
    BY <1>4, <2>1, <2>5, <2>6, <2>7 DEF attemptForRebroadcast
<1> QED
  BY <1>3, <1>4

LEMMA MarkedAttempts ==
  ASSUME FlowInv, FlowInv', AttemptInv, NEW tx \in todo, markForRebroadcast(tx),
         stage = "ensure", UNCHANGED mempool
  PROVE  AttemptInv' /\ Sends /\ Derived
<1>1. tx \in Txs /\ state[tx] \in SentStates /\ Sends /\ attempts \subseteq AnyAttempt
      /\ AttemptsOf(tx) # {}
  BY DEF FlowInv, SentTxs, In, SentStates, Sends, AttemptInv
<1>2. PICK a : a = Highest(tx)
  OBVIOUS
<1>3. a \in attempts /\ a.hash.tx = tx /\ a \in AnyAttempt /\ a.hash \in AnyHash
  BY <1>1, <1>2, HighestIsOne DEF AnyAttempt
<1>4. state' = state \/ state' = [state EXCEPT ![tx] = "unconfirmed"]
  BY DEF markForRebroadcast
<1>5. \A t \in Txs : state'[t] = "in_progress" => t # tx /\ state[t] = "in_progress"
  BY <1>1, <1>4 DEF SentStates, FlowInv
<1>6. CASE attempts' = replaced(a, InProgress(a.hash)) /\ goTo(stage, todo \ {tx})
  <2>1. PICK b \in AnyAttempt : b = InProgress(a.hash) /\ b.hash = a.hash
    BY <1>3, NewInProgress
  <2>2. attempts' \subseteq AnyAttempt /\ Derived /\ Touches(tx) /\ b \in AttemptsOf(tx)'
    BY <1>1, <1>3, <1>6, <2>1, Replacing
  <2>3. stage' = stage /\ todo' = todo \ {tx}
    BY <1>6 DEF goTo
  <2> QED
    BY <1>1, <1>5, <2>2, <2>3, ConfirmerOfOne
<1>7. CASE giveUp /\ UNCHANGED attempts
  BY <1>1, <1>5, <1>7, AttemptsKept DEF giveUp, goTo, Idle
<1> QED
  BY <1>2, <1>6, <1>7 DEF markForRebroadcast

LEMMA ConfirmerAttempts ==
  ASSUME FlowInv, FlowInv', AttemptInv, HeadInv, processHead,
         \A l \in canonical : l.block \in Nat
  PROVE  AttemptInv' /\ Sends /\ Derived
<1>1. CASE retrieveHead
  BY <1>1, AttemptsKept DEF retrieveHead, goTo, Sends
<1>2. CASE SetBroadcastBeforeBlockNum
  BY <1>2, BeforeAttempts
<1>3. CASE CheckConfirmedMissingReceipt
  BY <1>3, MissingAttempts
<1>4. CASE fetchAndSaveReceipts
  BY <1>4, ReceiptAttempts
<1>5. CASE markAllConfirmedMissingReceipt
  <2>1. \A tx \in Txs : state'[tx] = "in_progress" => state[tx] = "in_progress"
    BY <1>5 DEF markAllConfirmedMissingReceipt
  <2> QED
    BY <1>5, <2>1, AttemptsKept DEF markAllConfirmedMissingReceipt, goTo, Sends
<1>6. CASE markOldTxesMissingReceiptAsErrored
  BY <1>6, OldAttempts
<1>7. CASE RebroadcastWhereNecessary
  <2>1. ASSUME NEW tx \in todo, stage = "rebroadcast", handleInProgressAttempt(tx)
        PROVE  AttemptInv' /\ Sends /\ Derived
    BY <2>1, SentAgainAttempts DEF AttemptInv
  <2>2. CASE goTo("bump", FindEthTxsRequiringRebroadcast) /\ UNCHANGED <<mempool, state, attempts>>
    BY <2>2, AttemptsKept DEF goTo, Sends
  <2>3. ASSUME NEW tx \in todo, stage = "bump", tx \in Unsent, handleInProgressAttempt(tx)
        PROVE  AttemptInv' /\ Sends /\ Derived
    BY <2>3, SentAgainAttempts
  <2>4. ASSUME NEW tx \in todo, stage = "bump", attemptForRebroadcast(tx),
               UNCHANGED <<mempool, state>>
        PROVE  AttemptInv' /\ Sends /\ Derived
    BY <2>4, RepricedAttempts
  <2>5. lowest(1, todo) \subseteq todo
    BY DEF lowest
  <2> QED
    BY <1>7, <2>1, <2>2, <2>3, <2>4, <2>5 DEF RebroadcastWhereNecessary
<1>8. CASE findTransactionsConfirmedInBlockRange
  <2>1. \A tx \in ConfirmedInBlockRange : AttemptsOf(tx) # {}
    BY DEF ConfirmedInBlockRange
  <2>2. /\ stage' = "ensure" /\ todo' \subseteq ConfirmedInBlockRange
        /\ UNCHANGED <<mempool, state, attempts>>
    BY <1>8 DEF findTransactionsConfirmedInBlockRange, goTo
  <2> QED
    BY <2>1, <2>2, AttemptsKept DEF Sends
<1>9. CASE EnsureConfirmedTransactionsInLongestChain
  <2>1. ASSUME NEW tx \in todo, stage = "ensure", markForRebroadcast(tx), UNCHANGED mempool
        PROVE  AttemptInv' /\ Sends /\ Derived
    BY <2>1, MarkedAttempts
  <2>2. CASE goTo("again", Unsent) /\ UNCHANGED <<mempool, state, attempts>>
    BY <2>2, AttemptsKept DEF goTo, Sends
  <2>3. ASSUME NEW tx \in todo, stage = "again", handleInProgressAttempt(tx)
        PROVE  AttemptInv' /\ Sends /\ Derived
    BY <2>3, SentAgainAttempts DEF AttemptInv
  <2>4. lowest(1, todo) \subseteq todo
    BY DEF lowest
  <2> QED
    BY <1>9, <2>1, <2>2, <2>3, <2>4 DEF EnsureConfirmedTransactionsInLongestChain
<1>10. CASE ResumePendingTaskRuns
  <2>1. UNCHANGED <<mempool, state, attempts>> /\ stage' \in {"resume", Idle}
    BY <1>10 DEF ResumePendingTaskRuns, goTo
  <2> QED
    BY <2>1, AttemptsKept DEF Sends, Idle
<1> QED
  BY <1>1, <1>2, <1>3, <1>4, <1>5, <1>6, <1>7, <1>8, <1>9, <1>10 DEF processHead
LEMMA AttemptInit == Init => AttemptInv
BY DEF Init, AttemptInv, AttemptsOf, Idle

LEMMA AttemptStep ==
  ASSUME FlowInv, FlowInv', AttemptInv, HeadInv, [Next]_vars,
         \A l \in canonical : l.block \in Nat
  PROVE  AttemptInv' /\ Sends /\ (Derived \/ (Saves /\ saveInProgressTransaction))
<1> USE DEF broadcasterVars, confirmerVars, dbVars, networkVars
<1>0. todo \subseteq SentTxs' \/ ~UNCHANGED todo
  BY DEF FlowInv
<1>1. CASE UNCHANGED vars
  BY <1>0, <1>1, AttemptsAlone DEF vars, Sends
<1>2. CASE networkStep
  <2>1. UNCHANGED <<state, attempts, stage, todo>> /\ mempool' \subseteq mempool
    BY <1>2 DEF networkStep, fails
  <2> QED
    BY <1>0, <2>1, AttemptsAlone DEF Sends
<1>3. ASSUME NEW tx \in Txs, CreateEthTransaction(tx) \/ PruneQueue(tx)
      PROVE  AttemptInv' /\ Sends /\ Derived
  <2>1. UNCHANGED <<attempts, stage, todo, mempool>>
    BY <1>3 DEF CreateEthTransaction, PruneQueue
  <2>2. \A t \in Txs : state'[t] = "in_progress" => state[t] = "in_progress"
    BY <1>3 DEF CreateEthTransaction, PruneQueue, FlowInv
  <2> QED
    BY <1>0, <2>1, <2>2, AttemptsAlone DEF Sends
<1>4. CASE processUnstartedEthTxs
  <2>1. AttemptInv' /\ Sends /\ (Derived \/ Saves)
    BY <1>4, BroadcasterAttempts
  <2>2. CASE ~saveInProgressTransaction
    <3>1. state[bTx] = "unstarted" => UNCHANGED attempts
      BY <1>4, <2>2 DEF processUnstartedEthTxs, handleAnyInProgressEthTx,
           nextUnstartedTransactionWithNonce, handleInProgressEthTx, handleAnswer, resumeWithError,
           saveFatallyErroredTransaction, FlowInv, BusySteps
    <3> QED
      BY <2>1, <3>1 DEF Derived, Saves
  <2> QED
    BY <2>1, <2>2
<1>5. CASE OnNewLongestChain
  BY <1>0, <1>5, AttemptsAlone DEF OnNewLongestChain, Sends
<1>6. CASE processHead
  BY <1>6, ConfirmerAttempts
<1>7. CASE resendUnconfirmed
  <2>1. UNCHANGED <<state, attempts, stage, todo>>
    BY <1>7 DEF resendUnconfirmed
  <2>2. PICK a \in attempts : \E answer : sendTransaction(a.hash, answer)
    BY <1>7 DEF resendUnconfirmed, AttemptsOf
  <2>3. Sends
    BY <2>2, SendsOne DEF Sends, AttemptHashes
  <2> QED
    BY <1>0, <2>1, <2>3, AttemptsAlone
<1>8. CASE Restart
  <2>1. UNCHANGED <<state, attempts>> /\ stage' = Idle
    BY <1>8 DEF Restart, giveUp, goTo
  <2>2. Sends
    BY <1>8 DEF Restart, Sends, AttemptHashes
  <2> QED
    BY <2>1, <2>2, AttemptsKept DEF Idle
<1> QED
  BY <1>1, <1>2, <1>3, <1>4, <1>5, <1>6, <1>7, <1>8 DEF Next

-------------------------------------------------------------------------------
(* The chain: the nonce of a transaction is its place there.                *)

Known == AttemptHashes \cup mempool \cup {l.hash : l \in canonical}

\* Everything known of a transaction has the same nonce, and nothing is known
\* of one that never left the queue.
HashInv ==
  /\ \A h \in Known : h.tx \in Txs /\ state[h.tx] \notin Queued
  /\ \A g, h \in Known : g.tx = h.tx => g.nonce = h.nonce

Below(n) == {k \in canonical : k.block < n}

ChainInv ==
  /\ IsFiniteSet(canonical)
  /\ \A l \in canonical : /\ l.block \in Nat /\ l.block <= height
                          /\ l.hash.nonce = Cardinality(Below(l.block))
  /\ \A l, k \in canonical : l.block = k.block => l = k

LEMMA ChainStart == Init => HashInv /\ ChainInv
<1> SUFFICES ASSUME Init PROVE HashInv /\ ChainInv
  OBVIOUS
<1>1. attempts = {} /\ mempool = {} /\ canonical = {}
  BY DEF Init, ChainInit
<1>2. Known = {}
  BY <1>1 DEF Known, AttemptHashes
<1> QED
  BY <1>1, <1>2, FS_EmptySet DEF HashInv, ChainInv

\* A block with one log of the next nonce, or with none.
LEMMA ChainGrows ==
  ASSUME ChainInv, HeadInv, height' = height + 1,
         NEW l, l.block = height + 1, l.hash.nonce = NonceAt,
         canonical' = canonical \cup {l} \/ canonical' = canonical
  PROVE  ChainInv'
<1>1. CASE canonical' = canonical
  BY <1>1 DEF ChainInv, HeadInv, Below
<1>2. CASE canonical' = canonical \cup {l}
  <2>1. IsFiniteSet(canonical')
    BY <1>2, FS_AddElement DEF ChainInv
  <2>2. \A k \in canonical : k.block \in Nat /\ k.block <= height /\ k.block < l.block
    BY DEF ChainInv, HeadInv
  <2>3. \A k \in canonical : {j \in canonical' : j.block < k.block} = Below(k.block)
    BY <1>2, <2>2 DEF Below, HeadInv
  <2>4. {j \in canonical' : j.block < l.block} = canonical
    BY <1>2, <2>2 DEF HeadInv
  <2>5. \A k \in canonical' : k.hash.nonce = Cardinality({j \in canonical' : j.block < k.block})
    BY <1>2, <2>3, <2>4 DEF ChainInv, NonceAt
  <2>6. \A k \in canonical' : k.block \in Nat /\ k.block <= height'
    BY <1>2, <2>2 DEF HeadInv
  <2>7. \A j, k \in canonical' : j.block = k.block => j = k
    BY <1>2, <2>2 DEF ChainInv, HeadInv
  <2> QED
    BY <2>1, <2>5, <2>6, <2>7 DEF ChainInv, Below
<1> QED
  BY <1>1, <1>2

\* The newest blocks are taken back: those below keep their places.
LEMMA ChainShrinks ==
  ASSUME ChainInv, HeadInv, NEW depth \in Nat, depth <= height, height' = height - depth,
         canonical' = canonical \ TakenBack(depth)
  PROVE  ChainInv'
<1>1. \A k \in canonical' : k \in canonical /\ k.block \in Nat /\ k.block <= height'
  BY DEF ChainInv, HeadInv, TakenBack
<1>2. \A j \in canonical : j.block \in Nat /\ (j.block <= height' => j \in canonical')
  BY DEF ChainInv, HeadInv, TakenBack
<1>3. \A k \in canonical' : {j \in canonical' : j.block < k.block} = Below(k.block)
  BY <1>1, <1>2 DEF Below, HeadInv
<1>4. IsFiniteSet(canonical')
  BY FS_Subset DEF ChainInv
<1>5. \A k \in canonical' : k.hash.nonce = Cardinality({j \in canonical' : j.block < k.block})
  BY <1>1, <1>3 DEF ChainInv
<1>6. \A j, k \in canonical' : j.block = k.block => j = k
  BY <1>1 DEF ChainInv
<1> QED
  BY <1>1, <1>4, <1>5, <1>6 DEF ChainInv, Below

\* Only the network changes the chain.
LEMMA ChainChanges ==
  ASSUME [Next]_vars
  PROVE  networkStep \/ UNCHANGED <<height, fork, canonical>>
<1>1. CASE processUnstartedEthTxs
  BY <1>1 DEF processUnstartedEthTxs, handleAnyInProgressEthTx,
       nextUnstartedTransactionWithNonce, saveInProgressTransaction, handleInProgressEthTx,
       handleAnswer, resumeWithError, saveFatallyErroredTransaction, besideBroadcaster, chainVars
<1>2. CASE processHead
  BY <1>2 DEF processHead, retrieveHead, SetBroadcastBeforeBlockNum, CheckConfirmedMissingReceipt,
       fetchAndSaveReceipts, markAllConfirmedMissingReceipt, markOldTxesMissingReceiptAsErrored,
       RebroadcastWhereNecessary, findTransactionsConfirmedInBlockRange,
       EnsureConfirmedTransactionsInLongestChain, ResumePendingTaskRuns, besideConfirmer,
       chainVars
<1>3. CASE \/ UNCHANGED vars \/ OnNewLongestChain \/ resendUnconfirmed \/ Restart
           \/ \E tx \in Txs : CreateEthTransaction(tx) \/ PruneQueue(tx)
  BY <1>3 DEF vars, OnNewLongestChain, resendUnconfirmed, Restart, CreateEthTransaction, PruneQueue,
       networkVars, chainVars
<1> QED
  BY <1>1, <1>2, <1>3 DEF Next

LEMMA ChainStep ==
  ASSUME ChainInv, HeadInv, [Next]_vars
  PROVE  /\ ChainInv'
         /\ \A l \in canonical' : l \in canonical \/ l.hash \in mempool
<1>1. CASE UNCHANGED <<height, canonical>>
  BY <1>1 DEF ChainInv, Below
<1>2. CASE networkStep /\ ~UNCHANGED <<height, canonical>>
  <2>1. CASE Mine
    <3>1. CASE extend({})
      <4>1. height' = height + 1 /\ canonical' = canonical
        BY <3>1 DEF extend
      <4> DEFINE l == [hash |-> [nonce |-> NonceAt], block |-> height + 1]
      <4>2. l.block = height + 1 /\ l.hash.nonce = NonceAt
        OBVIOUS
      <4> HIDE DEF l
      <4>3. PICK k : k = l
        OBVIOUS
      <4> QED
        BY <4>1, <4>2, <4>3, ChainGrows
    <3>2. ASSUME NEW h \in mempool, h.nonce = NonceAt,
                 extend({[hash |-> h, block |-> height + 1, fork |-> fork]})
          PROVE  ChainInv' /\ \A l \in canonical' : l \in canonical \/ l.hash \in mempool
      <4>1. PICK l : l = [hash |-> h, block |-> height + 1, fork |-> fork]
        OBVIOUS
      <4>2. height' = height + 1 /\ canonical' = canonical \cup {l}
        BY <3>2, <4>1 DEF extend
      <4>3. l.block = height + 1 /\ l.hash = h
        BY <4>1
      <4> QED
        BY <3>2, <4>2, <4>3, ChainGrows
    <3> QED
      BY <2>1, <3>1, <3>2 DEF Mine
  <2>2. ASSUME NEW depth \in 1..ReorgDepth, Reorg(depth)
        PROVE  ChainInv' /\ \A l \in canonical' : l \in canonical \/ l.hash \in mempool
    BY <2>2, ChainShrinks, ChainAssumption DEF Reorg
  <2> QED
    BY <1>2, <2>1, <2>2 DEF networkStep, chainVars
<1> QED
  BY <1>1, <1>2, ChainChanges
\* A transaction that left the queue does not come back.
LEMMA NeverQueuedAgain ==
  ASSUME FlowInv, [Next]_vars, NEW tx \in Txs, state[tx] \notin Queued
  PROVE  state'[tx] \notin Queued
<1> USE DEF Queued
<1>1. CASE UNCHANGED state
  BY <1>1
<1>2. CASE processUnstartedEthTxs
  BY <1>2 DEF processUnstartedEthTxs, handleAnyInProgressEthTx,
       nextUnstartedTransactionWithNonce, saveInProgressTransaction, handleInProgressEthTx,
       handleAnswer, saveAttempt, tryAgainBumpingGas, resumeWithError,
       saveFatallyErroredTransaction, FlowInv
<1>3. CASE processHead
  <2>1. ASSUME NEW t \in todo, handleInProgressAttempt(t) PROVE state'[tx] \notin Queued
    BY <2>1 DEF handleInProgressAttempt, FlowInv
  <2>2. ASSUME NEW t \in todo, markForRebroadcast(t) PROVE state'[tx] \notin Queued
    BY <2>2 DEF markForRebroadcast, FlowInv
  <2>3. lowest(1, todo) \subseteq todo
    BY DEF lowest
  <2>4. CASE RebroadcastWhereNecessary \/ EnsureConfirmedTransactionsInLongestChain
    BY <2>1, <2>2, <2>3, <2>4 DEF RebroadcastWhereNecessary,
         EnsureConfirmedTransactionsInLongestChain
  <2>5. CASE CheckConfirmedMissingReceipt \/ fetchAndSaveReceipts
    BY <2>5 DEF CheckConfirmedMissingReceipt, fetchAndSaveReceipts, FlowInv
  <2> QED
    BY <1>3, <2>4, <2>5 DEF processHead, retrieveHead, SetBroadcastBeforeBlockNum,
         markAllConfirmedMissingReceipt, markOldTxesMissingReceiptAsErrored,
         findTransactionsConfirmedInBlockRange, ResumePendingTaskRuns
<1>4. ASSUME NEW t \in Txs, CreateEthTransaction(t) \/ PruneQueue(t)
      PROVE  state'[tx] \notin Queued
  BY <1>4 DEF CreateEthTransaction, PruneQueue, FlowInv
<1>5. CASE UNCHANGED vars \/ networkStep \/ OnNewLongestChain \/ resendUnconfirmed \/ Restart
  BY <1>1, <1>5 DEF vars, networkStep, OnNewLongestChain, resendUnconfirmed, Restart, dbVars
<1> QED
  BY <1>2, <1>3, <1>4, <1>5 DEF Next

LEMMA HashStep ==
  ASSUME FlowInv, FlowInv', AttemptInv, HashInv, ChainInv, HeadInv, [Next]_vars
  PROVE  HashInv'
<1>1. Sends /\ (Derived \/ (Saves /\ saveInProgressTransaction))
  BY AttemptStep DEF ChainInv
<1>2. \A l \in canonical' : l \in canonical \/ l.hash \in mempool
  BY ChainStep
<1>3. \A h \in mempool' \cup {l.hash : l \in canonical'} : h \in Known
  BY <1>1, <1>2 DEF Sends, Known
<1>4. \A h \in Known : h.tx \in Txs /\ state'[h.tx] \notin Queued
  BY NeverQueuedAgain DEF HashInv
<1>5. CASE Derived
  <2>1. \A h \in Known' : \E g \in Known : h.tx = g.tx /\ h.nonce = g.nonce
    BY <1>3, <1>5 DEF Known, AttemptHashes, Derived
  <2>2. \A h \in Known' : h.tx \in Txs /\ state'[h.tx] \notin Queued
    BY <1>4, <2>1
  <2>3. \A g, h \in Known' : g.tx = h.tx => g.nonce = h.nonce
    BY <2>1 DEF HashInv
  <2> QED
    BY <2>2, <2>3 DEF HashInv
<1>6. CASE Saves
  <2>1. PICK new : new = [tx |-> bTx, nonce |-> bNonce, price |-> 1]
    OBVIOUS
  <2>2. /\ bTx \in Txs /\ state[bTx] = "unstarted" /\ state'[bTx] = "in_progress"
        /\ attempts' = attempts \cup {InProgress(new)} /\ InProgress(new).hash = new
        /\ new.tx = bTx
    BY <1>6, <2>1 DEF Saves, FlowInv, InProgress
  <2>3. \A h \in Known : h.tx # bTx
    BY <2>2 DEF HashInv, Queued
  <2>4. \A h \in Known' : h = new \/ h \in Known
    BY <1>3, <2>2 DEF Known, AttemptHashes
  <2>5. \A h \in Known' : h.tx \in Txs /\ state'[h.tx] \notin Queued
    BY <1>4, <2>2, <2>4 DEF Queued
  <2>6. \A g, h \in Known' : g.tx = h.tx => g.nonce = h.nonce
    BY <2>2, <2>3, <2>4 DEF HashInv
  <2> QED
    BY <2>5, <2>6 DEF HashInv
<1> QED
  BY <1>1, <1>5, <1>6

TxInv == FlowInv /\ NonceInv /\ AttemptInv /\ HeadInv /\ HashInv /\ ChainInv

LEMMA TxInvariant == Spec => []TxInv
<1>1. Init => TxInv
  BY FlowInit, AttemptInit, HeadInit, ChainStart DEF TxInv
<1>2. TxInv /\ [Next]_vars => TxInv'
  <2> SUFFICES ASSUME TxInv, [Next]_vars PROVE TxInv'
    OBVIOUS
  <2>1. FlowInv /\ NonceInv /\ AttemptInv /\ HeadInv /\ HashInv /\ ChainInv
    BY DEF TxInv
  <2>2. FlowInv' /\ NonceInv'
    BY <2>1, NonceStep
  <2>3. HeadInv'
    BY <2>1, HeadStep
  <2>4. ChainInv'
    BY <2>1, ChainStep
  <2>5. AttemptInv'
    BY <2>1, <2>2, AttemptStep DEF ChainInv
  <2>6. HashInv'
    BY <2>1, <2>2, HashStep
  <2> QED
    BY <2>2, <2>3, <2>4, <2>5, <2>6 DEF TxInv
<1> QED
  BY <1>1, <1>2, PTL DEF Spec

\* One transaction has one nonce, and two places on the chain have two.
LEMMA OnePlaceEach ==
  ASSUME HashInv, ChainInv
  PROVE  AtMostOnce
<1> SUFFICES ASSUME NEW l \in canonical, NEW k \in canonical, l.hash.tx = k.hash.tx
             PROVE  l = k
  BY DEF AtMostOnce
<1>1. l.hash.nonce = k.hash.nonce
  BY DEF HashInv, Known
<1>2. Cardinality(Below(l.block)) = Cardinality(Below(k.block))
  BY <1>1 DEF ChainInv
<1>3. ASSUME NEW i \in canonical, NEW j \in canonical, i.block < j.block,
             Cardinality(Below(i.block)) = Cardinality(Below(j.block))
      PROVE  FALSE
  <2>1. IsFiniteSet(Below(i.block)) /\ IsFiniteSet(Below(j.block))
    BY FS_Subset DEF ChainInv, Below
  <2>2. i.block \in Nat /\ j.block \in Nat /\ \A m \in canonical : m.block \in Nat
    BY DEF ChainInv
  <2>3. /\ Below(i.block) \cup {i} \subseteq Below(j.block) /\ i \notin Below(i.block)
    BY <1>3, <2>2 DEF Below
  <2>4. Cardinality(Below(i.block) \cup {i}) = Cardinality(Below(i.block)) + 1
    BY <2>1, <2>3, FS_AddElement
  <2>5. Cardinality(Below(i.block) \cup {i}) <= Cardinality(Below(j.block))
    BY <2>1, <2>3, FS_Subset
  <2>6. Cardinality(Below(j.block)) \in Nat
    BY <2>1, FS_CardinalityType
  <2> QED
    BY <1>3, <2>4, <2>5, <2>6
<1>4. l.block \in Nat /\ k.block \in Nat /\ (l.block = k.block => l = k)
  BY DEF ChainInv
<1> QED
  BY <1>2, <1>3, <1>4

\* No transaction of the node is on the chain twice, for every number of
\* transactions, every depth of the reorganisations and whatever fails.
THEOREM OnChainAtMostOnce == Spec => []AtMostOnce
<1>1. TxInv => AtMostOnce
  BY OnePlaceEach DEF TxInv
<1> QED
  BY <1>1, TxInvariant, PTL

-------------------------------------------------------------------------------
(* No nonce of the key is lost to a transaction that is given up, if none   *)
(* is checked before it is sent.                                            *)

\* Of a transaction that may be on the chain one day.
Out == mempool \cup {l.hash : l \in canonical}

\* The node was told that what it sent was not taken.
Refused == \/ bStep \in {"fatal", "errored"}
           \/ bStep = "answered" /\ bAnswer \in {"fatal", "terminallyUnderpriced"}

\* A transaction in progress has one attempt, and nothing else of it was sent.
OwnInv ==
  /\ \A tx \in Txs : state[tx] = "in_progress" =>
       /\ \A a, b \in AttemptsOf(tx) : a.state = "in_progress" /\ a = b
       /\ \A a \in AttemptsOf(tx), h \in Out : h.tx = tx => h = a.hash
  /\ Refused => \A h \in Out : h.tx # bTx

\* A nonce known of a transaction is its own, and no other's that is under way;
\* those not given out yet are known of the transaction in progress alone.
UsedInv ==
  /\ \A h \in Known, tx \in Live : h.nonce = nonce[tx] => h.tx = tx
  /\ \A h \in Known : h.tx \in Live => h.nonce = nonce[h.tx]
  /\ \A h \in Known : h.nonce \in Int /\ (h.nonce < nextNonce \/ state[h.tx] = "in_progress")

LEMMA OutIsKnown == Out \subseteq Known
BY DEF Out, Known

LEMMA OnChainIsUsed ==
  ASSUME ChainInv, NEW l \in canonical
  PROVE  l.hash.nonce < NonceAt
<1>1. /\ Below(l.block) \cup {l} \subseteq canonical /\ l \notin Below(l.block)
      /\ IsFiniteSet(Below(l.block))
  BY FS_Subset DEF ChainInv, Below
<1>2. Cardinality(Below(l.block) \cup {l}) = Cardinality(Below(l.block)) + 1
  BY <1>1, FS_AddElement
<1>3. Cardinality(Below(l.block) \cup {l}) <= NonceAt
  BY <1>1, FS_Subset DEF ChainInv, NonceAt
<1>4. Cardinality(Below(l.block)) \in Nat /\ NonceAt \in Nat
  BY <1>1, FS_CardinalityType DEF ChainInv, NonceAt
<1> QED
  BY <1>2, <1>3, <1>4 DEF ChainInv

LEMMA OwnStart == Init => OwnInv /\ UsedInv
<1> SUFFICES ASSUME Init PROVE OwnInv /\ UsedInv
  OBVIOUS
<1>1. Known = {} /\ Out = {}
  BY DEF Init, ChainInit, Known, Out, AttemptHashes
<1>2. bStep = "idle" /\ \A tx \in Txs : state[tx] = "none"
  BY DEF Init, Idle
<1> QED
  BY <1>1, <1>2 DEF OwnInv, UsedInv, Refused

\* What the confirmer sends or changes is another transaction's.
LEMMA SentAgainSpares ==
  ASSUME FlowInv, AttemptInv, NEW t \in todo, t \in Unsent, handleInProgressAttempt(t),
         NEW tx \in Txs, state[tx] = "in_progress"
  PROVE  /\ AttemptsOf(tx)' = AttemptsOf(tx) /\ state'[tx] = "in_progress"
         /\ \A h \in mempool' : h.tx = tx => h \in mempool
<1>1. PICK a : a = CHOOSE b \in AttemptsOf(t) : b.state = "in_progress"
  OBVIOUS
<1>2. a \in attempts /\ a.hash.tx = t /\ a.hash \in AnyHash
  BY <1>1 DEF Unsent, AttemptsOf, AttemptInv, AnyAttempt
<1>3. t \in Txs /\ state[t] \in SentStates /\ t # tx
  BY DEF FlowInv, SentTxs, In, SentStates
<1>4. PICK answer \in Answers :
        /\ sendTransaction(a.hash, answer)
        /\ \/ \E s \in {"broadcast", "insufficient_eth"} :
                attempts' = replaced(a, [a EXCEPT !.state = s])
           \/ /\ a.hash.price < MaxPrice
              /\ attempts' = replaced(a, InProgress([a.hash EXCEPT !.price = @ + 1]))
           \/ attempts' = attempts \ {a}
           \/ UNCHANGED attempts
        /\ state' = state \/ state' = [state EXCEPT ![t] = "confirmed_missing_receipt"]
  BY <1>1 DEF handleInProgressAttempt
<1>5. state'[tx] = "in_progress"
  BY <1>3, <1>4 DEF FlowInv
<1>6. \A h \in mempool' : h.tx = tx => h \in mempool
  BY <1>2, <1>3, <1>4, SendsOne
<1>7. a \in AnyAttempt
  BY <1>2 DEF AttemptInv
<1>8. CASE \E s \in {"broadcast", "insufficient_eth"} :
             attempts' = replaced(a, [a EXCEPT !.state = s])
  <2>1. PICK s \in {"broadcast", "insufficient_eth"} :
               attempts' = replaced(a, [a EXCEPT !.state = s])
    BY <1>8
  <2>2. PICK b \in AnyAttempt : b = [a EXCEPT !.state = s] /\ b.hash = a.hash
    BY <1>7, Restated
  <2>3. attempts' = replaced(a, b)
    BY <2>1, <2>2
  <2> QED
    BY <1>2, <1>3, <1>5, <1>6, <2>2, <2>3 DEF AttemptsOf, replaced
<1>9. CASE /\ a.hash.price < MaxPrice
           /\ attempts' = replaced(a, InProgress([a.hash EXCEPT !.price = @ + 1]))
  <2>1. PICK h \in AnyHash : h = [a.hash EXCEPT !.price = @ + 1] /\ h.tx = t
    BY <1>2, <1>9, Repriced
  <2>2. PICK b : b = InProgress(h) /\ b.hash = h
    BY NewInProgress
  <2>3. attempts' = replaced(a, b)
    BY <1>9, <2>1, <2>2
  <2> QED
    BY <1>2, <1>3, <1>5, <1>6, <2>1, <2>2, <2>3 DEF AttemptsOf, replaced
<1>10. CASE attempts' = attempts \ {a} \/ UNCHANGED attempts
  BY <1>2, <1>3, <1>5, <1>6, <1>10 DEF AttemptsOf
<1> QED
  BY <1>4, <1>8, <1>9, <1>10

LEMMA RepricedSpares ==
  ASSUME FlowInv, AttemptInv, NEW t \in todo,
         attemptForRebroadcast(t) \/ (markForRebroadcast(t) /\ AttemptsOf(t) # {}),
         UNCHANGED state \/ state' = [state EXCEPT ![t] = "unconfirmed"],
         NEW tx \in Txs, state[tx] = "in_progress"
  PROVE  AttemptsOf(tx)' = AttemptsOf(tx) /\ state'[tx] = "in_progress"
<1>1. t \in Txs /\ t # tx /\ attempts \subseteq AnyAttempt
  BY DEF FlowInv, SentTxs, In, AttemptInv
<1>2. state'[tx] = "in_progress"
  BY <1>1 DEF FlowInv
<1>3. CASE UNCHANGED attempts
  BY <1>2, <1>3 DEF AttemptsOf
<1>4. PICK a : a = Highest(t)
  OBVIOUS
<1>5. ASSUME NEW b, AttemptsOf(t) # {}, b.hash.tx = t,
             attempts' = replaced(a, b) \/ attempts' = attempts \cup {b}
      PROVE  AttemptsOf(tx)' = AttemptsOf(tx)
  <2>1. a.hash.tx = t
    BY <1>1, <1>4, <1>5, HighestIsOne
  <2> QED
    BY <1>1, <1>5, <2>1 DEF AttemptsOf, replaced
<1>6. CASE AttemptsOf(t) # {} /\ ~UNCHANGED attempts
  <2>1. a \in AnyAttempt /\ a.hash \in AnyHash /\ a.hash.tx = t
    BY <1>1, <1>4, <1>6, HighestIsOne DEF AnyAttempt
  <2>2. \/ attempts' = replaced(a, [a EXCEPT !.state = "in_progress"])
        \/ attempts' = replaced(a, InProgress(a.hash))
        \/ /\ a.hash.price < MaxPrice
           /\ attempts' = attempts \cup {InProgress([a.hash EXCEPT !.price = @ + 1])}
    BY <1>4, <1>6 DEF attemptForRebroadcast, markForRebroadcast
  <2>3. CASE attempts' = replaced(a, [a EXCEPT !.state = "in_progress"])
    <3>1. PICK b \in AnyAttempt : b = [a EXCEPT !.state = "in_progress"] /\ b.hash = a.hash
      BY <2>1, Restated
    <3> QED
      BY <1>2, <1>5, <1>6, <2>1, <2>3, <3>1
  <2>4. CASE attempts' = replaced(a, InProgress(a.hash))
    <3>1. PICK b : b = InProgress(a.hash) /\ b.hash = a.hash
      BY <2>1, NewInProgress
    <3> QED
      BY <1>2, <1>5, <1>6, <2>1, <2>4, <3>1
  <2>5. CASE /\ a.hash.price < MaxPrice
             /\ attempts' = attempts \cup {InProgress([a.hash EXCEPT !.price = @ + 1])}
    <3>1. PICK h \in AnyHash : h = [a.hash EXCEPT !.price = @ + 1] /\ h.tx = t
      BY <2>1, <2>5, Repriced
    <3>2. PICK b : b = InProgress(h) /\ b.hash = h
      BY NewInProgress
    <3> QED
      BY <1>2, <1>5, <1>6, <2>5, <3>1, <3>2
  <2> QED
    BY <2>2, <2>3, <2>4, <2>5
<1>7. CASE AttemptsOf(t) = {}
  BY <1>3, <1>7 DEF attemptForRebroadcast
<1> QED
  BY <1>2, <1>3, <1>6, <1>7

\* The database's updates of many attempts are of those that were sent.
LEMMA UpdatesSpare ==
  ASSUME FlowInv, AttemptInv, HeadInv, SetBroadcastBeforeBlockNum \/ fetchAndSaveReceipts,
         NEW tx \in Txs, state[tx] = "in_progress",
         \A a \in AttemptsOf(tx) : a.state = "in_progress"
  PROVE  /\ AttemptsOf(tx)' = AttemptsOf(tx) /\ state'[tx] = "in_progress"
         /\ mempool' = mempool
<1>1. CASE SetBroadcastBeforeBlockNum
  <2>1. /\ UNCHANGED <<mempool, state>>
        /\ attempts' = {IF a.state = "broadcast" /\ a.before = None
                        THEN [a EXCEPT !.before = head.number] ELSE a : a \in attempts}
    BY <1>1 DEF SetBroadcastBeforeBlockNum
  <2>2. \A a \in attempts : [a EXCEPT !.before = head.number].hash = a.hash
    BY DEF AttemptInv, AnyAttempt
  <2>3. \A b \in attempts' : b.hash.tx = tx => b \in attempts
    BY <2>1, <2>2 DEF AttemptsOf
  <2>4. \A a \in attempts : a.hash.tx = tx => a \in attempts'
    BY <2>1 DEF AttemptsOf
  <2> QED
    BY <2>1, <2>3, <2>4 DEF AttemptsOf
<1>2. CASE fetchAndSaveReceipts
  <2>1. CASE UNCHANGED <<state, attempts>>
    BY <1>2, <2>1 DEF fetchAndSaveReceipts, AttemptsOf
  <2>2. CASE ~UNCHANGED <<state, attempts>>
    <3>1. PICK t \in todo :
            LET asked == {a \in AttemptsOf(t) : a.state # "insufficient_eth"}
                found == {l \in canonical : \E a \in asked : a.hash = l.hash}
                blockOf(a) == (CHOOSE l \in found : l.hash = a.hash).block
                sent(a) == [a EXCEPT !.state = "broadcast",
                                     !.before = IF @ = None THEN blockOf(a) ELSE @]
            IN  /\ state' = IF found = {} THEN state ELSE [state EXCEPT ![t] = "confirmed"]
                /\ attempts' = {IF \E l \in found : l.hash = a.hash THEN sent(a) ELSE a :
                                 a \in attempts}
      BY <1>2, <2>2 DEF fetchAndSaveReceipts
    <3> DEFINE found == {l \in canonical :
                           \E a \in {b \in AttemptsOf(t) : b.state # "insufficient_eth"} :
                             a.hash = l.hash}
               sent(a) == [a EXCEPT !.state = "broadcast",
                                    !.before = IF @ = None
                                               THEN (CHOOSE l \in found : l.hash = a.hash).block
                                               ELSE @]
    <3>2. t \in Txs /\ t # tx
      BY DEF FlowInv, SentTxs, In
    <3>3. state'[tx] = "in_progress"
      BY <3>1, <3>2 DEF FlowInv
    <3>4. \A l \in found : l.hash.tx = t
      BY DEF AttemptsOf
    <3>5. ASSUME NEW a \in attempts PROVE sent(a).hash = a.hash
      BY DEF AttemptInv, AnyAttempt
    <3>6. attempts' = {IF \E l \in found : l.hash = a.hash THEN sent(a) ELSE a : a \in attempts}
      BY <3>1
    <3> HIDE DEF found, sent
    <3>7. \A b \in attempts' : b.hash.tx = tx => b \in attempts
      BY <3>2, <3>4, <3>5, <3>6
    <3>8. \A a \in attempts : a.hash.tx = tx => a \in attempts'
      BY <3>2, <3>4, <3>6
    <3> QED
      BY <1>2, <3>3, <3>7, <3>8 DEF AttemptsOf, fetchAndSaveReceipts
  <2> QED
    BY <2>1, <2>2
<1> QED
  BY <1>1, <1>2

LEMMA ConfirmerSpares ==
  ASSUME FlowInv, AttemptInv, HeadInv, processHead,
         NEW tx \in Txs, state[tx] = "in_progress",
         \A a \in AttemptsOf(tx) : a.state = "in_progress"
  PROVE  /\ AttemptsOf(tx)' = AttemptsOf(tx) /\ state'[tx] = "in_progress"
         /\ \A h \in mempool' : h.tx = tx => h \in mempool
<1>1. CASE UNCHANGED <<mempool, state, attempts>>
  BY <1>1 DEF AttemptsOf
<1>2. CASE SetBroadcastBeforeBlockNum \/ fetchAndSaveReceipts
  BY <1>2, UpdatesSpare
<1>3. CASE CheckConfirmedMissingReceipt
  <2>1. ASSUME NEW t \in todo, NEW answer, sendTransaction(Highest(t).hash, answer),
               state' = state \/ state' = [state EXCEPT ![t] = "unconfirmed"]
        PROVE  state'[tx] = "in_progress" /\ \A h \in mempool' : h.tx = tx => h \in mempool
    <3>1. t \in Txs /\ t # tx /\ AttemptsOf(t) # {} /\ attempts \subseteq AnyAttempt
      BY <1>3 DEF FlowInv, SentTxs, In, AttemptInv, CheckConfirmedMissingReceipt
    <3>2. Highest(t).hash.tx = t
      BY <3>1, HighestIsOne
    <3> QED
      BY <2>1, <3>1, <3>2, SendsOne DEF FlowInv
  <2>2. attempts' = attempts
    BY <1>3 DEF CheckConfirmedMissingReceipt
  <2> QED
    BY <1>1, <1>3, <2>1, <2>2 DEF CheckConfirmedMissingReceipt, AttemptsOf
<1>4. CASE markAllConfirmedMissingReceipt \/ markOldTxesMissingReceiptAsErrored
  <2>1. UNCHANGED <<mempool, attempts>> /\ state'[tx] = "in_progress"
    BY <1>4 DEF markAllConfirmedMissingReceipt, markOldTxesMissingReceiptAsErrored, In
  <2> QED
    BY <2>1 DEF AttemptsOf
<1>5. lowest(1, todo) \subseteq todo
  BY DEF lowest
<1>6. CASE RebroadcastWhereNecessary
  <2>1. ASSUME NEW t \in todo, t \in Unsent, handleInProgressAttempt(t)
        PROVE  /\ AttemptsOf(tx)' = AttemptsOf(tx) /\ state'[tx] = "in_progress"
               /\ \A h \in mempool' : h.tx = tx => h \in mempool
    BY <2>1, SentAgainSpares
  <2>2. stage = "rebroadcast" => todo \subseteq Unsent
    BY DEF AttemptInv
  <2>3. ASSUME NEW t \in todo, stage = "bump", attemptForRebroadcast(t), UNCHANGED <<mempool, state>>
        PROVE  AttemptsOf(tx)' = AttemptsOf(tx) /\ state'[tx] = "in_progress"
    BY <2>3, RepricedSpares
  <2> QED
    BY <1>1, <1>5, <1>6, <2>1, <2>2, <2>3 DEF RebroadcastWhereNecessary
<1>7. CASE EnsureConfirmedTransactionsInLongestChain
  <2>1. ASSUME NEW t \in todo, stage = "ensure", markForRebroadcast(t)
        PROVE  AttemptsOf(tx)' = AttemptsOf(tx) /\ state'[tx] = "in_progress"
    <3>1. AttemptsOf(t) # {} /\ (state' = state \/ state' = [state EXCEPT ![t] = "unconfirmed"])
      BY <2>1 DEF AttemptInv, markForRebroadcast
    <3> QED
      BY <2>1, <3>1, RepricedSpares
  <2>2. ASSUME NEW t \in todo, stage = "again", handleInProgressAttempt(t)
        PROVE  /\ AttemptsOf(tx)' = AttemptsOf(tx) /\ state'[tx] = "in_progress"
               /\ \A h \in mempool' : h.tx = tx => h \in mempool
    BY <2>2, SentAgainSpares DEF AttemptInv
  <2> QED
    BY <1>1, <1>5, <1>7, <2>1, <2>2 DEF EnsureConfirmedTransactionsInLongestChain
<1>8. CASE retrieveHead \/ findTransactionsConfirmedInBlockRange \/ ResumePendingTaskRuns
  BY <1>1, <1>8 DEF retrieveHead, findTransactionsConfirmedInBlockRange, ResumePendingTaskRuns
<1> QED
  BY <1>2, <1>3, <1>4, <1>6, <1>7, <1>8 DEF processHead

\* Whatever is not the broadcaster's step or a crash leaves alone the transaction
\* in progress; the chain takes only what was in the pool.
LEMMA OthersSpare ==
  ASSUME FlowInv, AttemptInv, HeadInv, ChainInv, [Next]_vars, ~processUnstartedEthTxs, ~Restart,
         NEW tx \in Txs, state[tx] = "in_progress",
         \A a \in AttemptsOf(tx) : a.state = "in_progress"
  PROVE  /\ AttemptsOf(tx)' = AttemptsOf(tx)
         /\ \A h \in Out' : h.tx = tx => h \in Out
<1>1. \A l \in canonical' : l \in canonical \/ l.hash \in mempool
  BY ChainStep
<1>2. CASE UNCHANGED attempts /\ mempool' \subseteq mempool
  BY <1>1, <1>2 DEF AttemptsOf, Out
<1>3. CASE processHead
  BY <1>1, <1>3, ConfirmerSpares DEF Out
<1>4. CASE resendUnconfirmed
  <2>1. PICK t \in In({"unconfirmed", "confirmed_missing_receipt"}) :
          \E a \in AttemptsOf(t), answer \in Answers : sendTransaction(a.hash, answer)
    BY <1>4 DEF resendUnconfirmed
  <2>4. PICK a \in AttemptsOf(t), answer \in Answers : sendTransaction(a.hash, answer)
    BY <2>1
  <2>2. a.hash.tx = t /\ t # tx
    BY <2>4 DEF AttemptsOf, In
  <2>3. UNCHANGED attempts
    BY <1>4 DEF resendUnconfirmed, dbVars
  <2> QED
    BY <1>1, <2>2, <2>3, <2>4, SendsOne DEF Out, AttemptsOf
<1>5. CASE networkStep
  BY <1>2, <1>5 DEF networkStep, dbVars
<1>6. CASE \/ UNCHANGED vars \/ OnNewLongestChain
           \/ \E t \in Txs : CreateEthTransaction(t) \/ PruneQueue(t)
  BY <1>2, <1>6 DEF vars, networkVars, dbVars, OnNewLongestChain, CreateEthTransaction, PruneQueue
<1> QED
  BY <1>3, <1>4, <1>5, <1>6 DEF Next

\* Only the broadcaster changes what it is at, and who is in progress.
LEMMA OthersWait ==
  ASSUME FlowInv, FlowInv', [Next]_vars, ~processUnstartedEthTxs
  PROVE  /\ \A tx \in Txs : state'[tx] = "in_progress" <=> state[tx] = "in_progress"
         /\ Restart \/ UNCHANGED broadcasterVars
<1>1. CASE UNCHANGED state /\ (Restart \/ UNCHANGED broadcasterVars)
  BY <1>1
<1>2. CASE processHead
  <2>1. UNCHANGED broadcasterVars
    BY <1>2 DEF processHead, retrieveHead, SetBroadcastBeforeBlockNum,
       CheckConfirmedMissingReceipt, fetchAndSaveReceipts, markAllConfirmedMissingReceipt,
       markOldTxesMissingReceiptAsErrored, RebroadcastWhereNecessary,
       findTransactionsConfirmedInBlockRange, EnsureConfirmedTransactionsInLongestChain,
       ResumePendingTaskRuns, besideConfirmer
  <2> DEFINE Same == \A tx \in Txs : state'[tx] = "in_progress" <=> state[tx] = "in_progress"
  <2>2. \A t \in todo : t \in Txs /\ state[t] # "in_progress"
    BY DEF FlowInv, SentTxs, In
  <2>3. ASSUME NEW t \in todo, NEW s \in SentStates,
               state' = state \/ state' = [state EXCEPT ![t] = s]
        PROVE  Same
    BY <2>2, <2>3 DEF FlowInv, SentStates
  <2>0. UNCHANGED state => Same
    OBVIOUS
  <2>a. "unconfirmed" \in SentStates /\ "confirmed" \in SentStates
        /\ "confirmed_missing_receipt" \in SentStates
    BY DEF SentStates
  <2> SUFFICES Same
    BY <2>1
  <2> HIDE DEF Same
  <2>4. ASSUME NEW t \in todo, handleInProgressAttempt(t) \/ markForRebroadcast(t)
        PROVE  Same
    <3>1. \/ state' = state \/ state' = [state EXCEPT ![t] = "confirmed_missing_receipt"]
          \/ state' = [state EXCEPT ![t] = "unconfirmed"]
      BY <2>4 DEF handleInProgressAttempt, markForRebroadcast
    <3> QED
      BY <2>3, <2>a, <3>1
  <2>5. lowest(1, todo) \subseteq todo
    BY DEF lowest
  <2>6. CASE RebroadcastWhereNecessary \/ EnsureConfirmedTransactionsInLongestChain
    <3>1. \/ UNCHANGED state
          \/ \E t \in todo : handleInProgressAttempt(t) \/ markForRebroadcast(t)
      BY <2>5, <2>6 DEF RebroadcastWhereNecessary, EnsureConfirmedTransactionsInLongestChain
    <3> QED
      BY <2>0, <2>4, <3>1
  <2>7. CASE CheckConfirmedMissingReceipt \/ fetchAndSaveReceipts
    <3>1. \/ UNCHANGED state
          \/ \E t \in todo : \/ state' = [state EXCEPT ![t] = "unconfirmed"]
                             \/ state' = [state EXCEPT ![t] = "confirmed"]
      BY <2>7 DEF CheckConfirmedMissingReceipt, fetchAndSaveReceipts
    <3> QED
      BY <2>0, <2>3, <2>a, <3>1
  <2>8. CASE markAllConfirmedMissingReceipt
    <3>1. \A tx \in Txs : state'[tx] = IF tx \in {t \in In({"unconfirmed"}) :
                                                    \E other \in In({"confirmed"}) : nonce[other] > nonce[t]}
                                       THEN "confirmed_missing_receipt" ELSE state[tx]
      BY <2>8 DEF markAllConfirmedMissingReceipt
    <3> QED
      BY <3>1 DEF In, Same
  <2>9. CASE markOldTxesMissingReceiptAsErrored
    <3>1. \A tx \in Txs : state'[tx] = IF tx \in {t \in In({"confirmed_missing_receipt"}) : Old(t)}
                                       THEN "fatal_error" ELSE state[tx]
      BY <2>9 DEF markOldTxesMissingReceiptAsErrored
    <3> QED
      BY <3>1 DEF In, Same
  <2>10. Same
    BY <1>2, <2>0, <2>6, <2>7, <2>8, <2>9 DEF processHead, retrieveHead, SetBroadcastBeforeBlockNum,
       findTransactionsConfirmedInBlockRange, ResumePendingTaskRuns
  <2> QED
    BY <2>10
<1>3. ASSUME NEW t \in Txs, CreateEthTransaction(t) \/ PruneQueue(t)
      PROVE  /\ \A tx \in Txs : state'[tx] = "in_progress" <=> state[tx] = "in_progress"
             /\ UNCHANGED broadcasterVars
  BY <1>3 DEF CreateEthTransaction, PruneQueue, FlowInv
<1>4. CASE \/ UNCHANGED vars \/ networkStep \/ OnNewLongestChain \/ resendUnconfirmed \/ Restart
  BY <1>1, <1>4 DEF vars, dbVars, networkStep, OnNewLongestChain, resendUnconfirmed, Restart
<1> QED
  BY <1>2, <1>3, <1>4 DEF Next

LEMMA OwnKept ==
  ASSUME OwnInv,
         \A tx \in Txs : state'[tx] = "in_progress" =>
           /\ state[tx] = "in_progress" /\ AttemptsOf(tx)' = AttemptsOf(tx)
           /\ \A h \in Out' : h.tx = tx => h \in Out \/ \E a \in AttemptsOf(tx) : h = a.hash,
         Refused' => \A h \in Out' : h.tx # bTx'
  PROVE  OwnInv'
<1> SUFFICES ASSUME NEW tx \in Txs, state'[tx] = "in_progress"
             PROVE  /\ \A a, b \in AttemptsOf(tx)' : a.state = "in_progress" /\ a = b
                    /\ \A a \in AttemptsOf(tx)', h \in Out' : h.tx = tx => h = a.hash
  BY DEF OwnInv
<1> QED
  BY DEF OwnInv

LEMMA AnswerKeepsOwn ==
  ASSUME FlowInv, AttemptInv, OwnInv, handleAnswer
  PROVE  OwnInv'
<1>1. /\ bTx \in Txs /\ state[bTx] = "in_progress" /\ bStep = "answered"
      /\ UNCHANGED <<mempool, canonical>> /\ attempts \subseteq AnyAttempt
  BY DEF handleAnswer, FlowInv, BusySteps, AttemptInv, besideBroadcaster, chainVars
<1>2. Out' = Out
  BY <1>1 DEF Out
<1>3. \A tx \in Txs : state[tx] = "in_progress" => tx = bTx
  BY <1>1 DEF FlowInv
<1>4. CASE bStep' = Idle /\ UNCHANGED <<state, attempts>>
  BY <1>2, <1>4, OwnKept DEF Refused, AttemptsOf, Idle
<1>5. CASE saveAttempt /\ nextNonce = nonce[bTx]
  <2>1. \A tx \in Txs : state'[tx] # "in_progress"
    BY <1>3, <1>5 DEF saveAttempt, FlowInv
  <2>2. ~Refused'
    BY <1>5 DEF saveAttempt, backToIdle, Refused, Idle
  <2> QED
    BY <2>1, <2>2 DEF OwnInv
<1>6. CASE /\ bAnswer = "terminallyUnderpriced" /\ bStep' = "check" /\ UNCHANGED <<state, bTx>>
           /\ Highest(bTx).hash.price < MaxPrice
           /\ attempts' = replaced(Highest(bTx),
                                   InProgress([Highest(bTx).hash EXCEPT !.price = @ + 1]))
  <2>0. PICK own : own = bTx
    OBVIOUS
  <2>1. PICK a : a = Highest(bTx)
    OBVIOUS
  <2>2. a \in AttemptsOf(bTx) /\ a.hash.tx = bTx /\ a.hash \in AnyHash
    BY <1>1, <2>1, HighestIsOne DEF AttemptInv, AnyAttempt
  <2>3. PICK h \in AnyHash : h = [a.hash EXCEPT !.price = @ + 1] /\ h.tx = bTx
    BY <1>6, <2>1, <2>2, Repriced
  <2>4. PICK b : b = InProgress(h) /\ b.hash = h /\ b.state = "in_progress"
    BY NewInProgress
  <2>5. attempts' = replaced(a, b)
    BY <1>6, <2>1, <2>3, <2>4
  <2>6. \A c \in AttemptsOf(own) : c = a
    BY <1>1, <2>0, <2>2 DEF OwnInv
  <2>7. AttemptsOf(own)' = {b}
    BY <2>0, <2>2, <2>3, <2>4, <2>5, <2>6 DEF AttemptsOf, replaced
  <2>8. \A g \in Out : g.tx # own
    BY <1>1, <1>6, <2>0 DEF OwnInv, Refused
  <2>9. \A tx \in Txs : state'[tx] = "in_progress" => tx = own
    BY <1>3, <1>6, <2>0
  <2>10. ~Refused'
    BY <1>6 DEF Refused
  <2>11. \A c, d \in AttemptsOf(own)' : c.state = "in_progress" /\ c = d
    BY <2>4, <2>7
  <2> QED
    BY <1>2, <2>8, <2>9, <2>10, <2>11 DEF OwnInv
<1>7. CASE bStep' = "fatal" /\ bAnswer = "fatal" /\ UNCHANGED <<state, attempts, bTx>>
  <2>1. \A g \in Out : g.tx # bTx
    BY <1>1, <1>7 DEF OwnInv, Refused
  <2>2. \A tx : AttemptsOf(tx)' = AttemptsOf(tx)
    BY <1>7 DEF AttemptsOf
  <2> QED
    BY <1>2, <1>7, <2>1, <2>2, OwnKept
<1> QED
  BY <1>4, <1>5, <1>6, <1>7 DEF handleAnswer, saveAttempt, tryAgainBumpingGas, backToIdle

\* A transaction that was refused was not sent before, nor is it on the chain.
LEMMA SendKeepsOwn ==
  ASSUME FlowInv, AttemptInv, ChainInv, OwnInv, ~HasChecker, handleInProgressEthTx
  PROVE  OwnInv'
<1>1. /\ bTx \in Txs /\ state[bTx] = "in_progress" /\ attempts \subseteq AnyAttempt
      /\ bStep' = "answered" /\ UNCHANGED <<canonical, state, attempts, bTx>>
  BY DEF handleInProgressEthTx, FlowInv, BusySteps, AttemptInv, chainVars
<1>2. PICK a : a = Highest(bTx)
  OBVIOUS
<1>3. a \in AttemptsOf(bTx) /\ a.hash.tx = bTx /\ a.hash \in AnyHash
  BY <1>1, <1>2, HighestIsOne DEF AttemptInv, AnyAttempt
<1>4. sendTransaction(a.hash, bAnswer')
  BY <1>2 DEF handleInProgressEthTx
<1>5. \A h \in Out' : h \in Out \/ h = a.hash
  BY <1>1, <1>4, SendsOne DEF Out
<1>6. \A tx \in Txs : state[tx] = "in_progress" => tx = bTx
  BY <1>1 DEF FlowInv
<1>7. ASSUME Refused' PROVE \A h \in Out' : h.tx # bTx'
  <2>1. bAnswer' \in {"fatal", "terminallyUnderpriced"}
    BY <1>1, <1>7 DEF Refused
  <2>2. mempool' = mempool /\ a.hash \notin mempool /\ ~(a.hash.nonce < NonceAt)
    BY <1>4, <2>1 DEF sendTransaction
  <2>3. \A h \in Out : h.tx = bTx => h = a.hash
    BY <1>1, <1>3 DEF OwnInv
  <2>4. a.hash \notin Out
    BY <2>2, OnChainIsUsed DEF Out
  <2> QED
    BY <1>1, <2>2, <2>3, <2>4 DEF Out
<1>8. \A tx : AttemptsOf(tx)' = AttemptsOf(tx)
  BY <1>1 DEF AttemptsOf
<1>9. \A tx \in Txs : state'[tx] = "in_progress" =>
           /\ state[tx] = "in_progress" /\ AttemptsOf(tx)' = AttemptsOf(tx)
           /\ \A h \in Out' : h.tx = tx => h \in Out \/ \E c \in AttemptsOf(tx) : h = c.hash
  BY <1>1, <1>3, <1>5, <1>6, <1>8
<1> QED
  BY <1>7, <1>9, OwnKept

LEMMA OwnBroadcast ==
  ASSUME FlowInv, AttemptInv, HashInv, ChainInv, OwnInv, ~HasChecker, processUnstartedEthTxs
  PROVE  OwnInv'
<1>1. CASE handleInProgressEthTx
  BY <1>1, SendKeepsOwn
<1>2. CASE handleAnswer
  BY <1>2, AnswerKeepsOwn
<1> USE DEF besideBroadcaster, chainVars
<1>3. ASSUME UNCHANGED <<mempool, canonical, state, attempts>>,
             Refused' => Refused /\ bTx' = bTx
      PROVE  OwnInv'
  <2>1. Out' = Out /\ \A tx : AttemptsOf(tx)' = AttemptsOf(tx)
    BY <1>3 DEF Out, AttemptsOf
  <2>2. Refused' => \A h \in Out' : h.tx # bTx'
    BY <1>3, <2>1 DEF OwnInv
  <2> QED
    BY <1>3, <2>1, <2>2, OwnKept
<1>4. CASE handleAnyInProgressEthTx \/ nextUnstartedTransactionWithNonce \/ resumeWithError
  BY <1>3, <1>4 DEF handleAnyInProgressEthTx, nextUnstartedTransactionWithNonce, resumeWithError,
                    Refused
<1>5. CASE saveInProgressTransaction
  <2>1. CASE backToIdle /\ UNCHANGED <<state, attempts>>
    BY <1>3, <1>5, <2>1 DEF saveInProgressTransaction, backToIdle, Refused, Idle
  <2>2. CASE /\ state[bTx] = "unstarted"
             /\ state' = [state EXCEPT ![bTx] = "in_progress"]
             /\ attempts' = attempts \cup {InProgress([tx |-> bTx, nonce |-> bNonce, price |-> 1])}
             /\ bStep' = "check"
    <3>1. bTx \in Txs /\ \A tx \in Txs : state[tx] # "in_progress"
      BY <1>5 DEF saveInProgressTransaction, FlowInv
    <3>0. PICK own : own = bTx
      OBVIOUS
    <3>2. \A tx \in Txs : state'[tx] = "in_progress" => tx = own
      BY <2>2, <3>0, <3>1 DEF FlowInv
    <3>3. \A h \in Known : h.tx # own
      BY <2>2, <3>0 DEF HashInv, Queued
    <3>4. Out' = Out
      BY <1>5 DEF saveInProgressTransaction, Out
    <3>5. PICK new : new = InProgress([tx |-> bTx, nonce |-> bNonce, price |-> 1])
      OBVIOUS
    <3>6. new.state = "in_progress"
      BY <3>5 DEF InProgress
    <3>7. \A a \in AttemptsOf(own)' : a = new
      BY <2>2, <3>3, <3>5 DEF AttemptsOf, Known, AttemptHashes
    <3>8. ~Refused'
      BY <2>2 DEF Refused
    <3>9. \A h \in Out' : h.tx # own
      BY <3>3, <3>4, OutIsKnown
    <3> QED
      BY <3>2, <3>6, <3>7, <3>8, <3>9 DEF OwnInv
  <2> QED
    BY <1>5, <2>1, <2>2 DEF saveInProgressTransaction
<1>6. CASE saveFatallyErroredTransaction
  <2>1. bTx \in Txs /\ state[bTx] = "in_progress" /\ state' = [state EXCEPT ![bTx] = "fatal_error"]
    BY <1>6 DEF saveFatallyErroredTransaction, FlowInv, BusySteps
  <2>2. \A tx \in Txs : state'[tx] # "in_progress"
    BY <2>1 DEF FlowInv
  <2>3. ~Refused'
    BY <1>6 DEF saveFatallyErroredTransaction, backToIdle, Refused, Idle
  <2> QED
    BY <2>2, <2>3 DEF OwnInv
<1> QED
  BY <1>1, <1>2, <1>4, <1>5, <1>6 DEF processUnstartedEthTxs

LEMMA OwnStep ==
  ASSUME TxInv, TxInv', OwnInv, ~HasChecker, [Next]_vars
  PROVE  OwnInv'
<1> USE DEF TxInv
<1>1. CASE processUnstartedEthTxs
  BY <1>1, OwnBroadcast
<1>2. CASE Restart /\ ~processUnstartedEthTxs
  <2>1. UNCHANGED <<canonical, state, attempts>> /\ bStep' = Idle
    BY <1>2 DEF Restart, backToIdle, chainVars
  <2>2. \A h \in mempool' : h \in mempool \/ \E a \in attempts : h = a.hash
    BY <1>2 DEF Restart
  <2>3. \A h \in Out' : h \in Out \/ \E a \in attempts : h = a.hash
    BY <2>1, <2>2 DEF Out
  <2>4. \A tx : /\ AttemptsOf(tx)' = AttemptsOf(tx)
                /\ \A a \in attempts : a.hash.tx = tx => a \in AttemptsOf(tx)
    BY <2>1 DEF AttemptsOf
  <2>5. ~Refused'
    BY <2>1 DEF Refused, Idle
  <2> QED
    BY <2>1, <2>3, <2>4, <2>5, OwnKept
<1>3. CASE ~processUnstartedEthTxs /\ ~Restart
  <2>1. /\ \A tx \in Txs : state'[tx] = "in_progress" <=> state[tx] = "in_progress"
        /\ UNCHANGED broadcasterVars
    BY <1>3, OthersWait
  <2>2. ASSUME NEW tx \in Txs, state[tx] = "in_progress"
        PROVE  AttemptsOf(tx)' = AttemptsOf(tx) /\ \A h \in Out' : h.tx = tx => h \in Out
    <3>1. \A a \in AttemptsOf(tx) : a.state = "in_progress"
      BY <2>2 DEF OwnInv
    <3> QED
      BY <1>3, <2>2, <3>1, OthersSpare
  <2>3. ASSUME Refused' PROVE \A h \in Out' : h.tx # bTx'
    <3>1. Refused /\ bTx' = bTx /\ bStep \in BusySteps
      BY <2>1, <2>3 DEF Refused, broadcasterVars, BusySteps
    <3>2. bTx \in Txs /\ state[bTx] = "in_progress"
      BY <3>1 DEF FlowInv
    <3> QED
      BY <2>2, <3>1, <3>2 DEF OwnInv
  <2> QED
    BY <2>1, <2>2, <2>3, OwnKept
<1> QED
  BY <1>1, <1>2, <1>3

\* Whatever step is taken but the one that gives a nonce: no transaction gets one
\* or is under way again, and the next nonce is past those of the transactions sent.
LEMMA NoncesAdvance ==
  ASSUME FlowInv, FlowInv', NonceInv', [Next]_vars, ~saveInProgressTransaction
  PROVE  /\ \A tx \in Live' : tx \in Live /\ nonce'[tx] = nonce[tx]
         /\ nextNonce \in Int /\ nextNonce' \in Int /\ nextNonce <= nextNonce'
<1> USE DEF broadcasterVars, dbVars
<1>1. nextNonce \in Int /\ nextNonce' \in Int
  BY DEF FlowInv
<1>2. CASE UNCHANGED <<state, nonce, nextNonce>>
  BY <1>1, <1>2 DEF Live, In
<1>3. CASE processUnstartedEthTxs
  <2>1. CASE handleAnswer
    <3>1. /\ bTx \in Txs /\ state[bTx] = "in_progress" /\ nonce' = nonce
          /\ \/ UNCHANGED <<state, nextNonce>>
             \/ state' = [state EXCEPT ![bTx] = "unconfirmed"] /\ nextNonce' = nextNonce + 1
      BY <2>1 DEF handleAnswer, saveAttempt, tryAgainBumpingGas, FlowInv, BusySteps
    <3>2. \A tx \in Live' : tx \in Live
      BY <3>1 DEF Live, In, FlowInv
    <3> QED
      BY <1>1, <3>1, <3>2
  <2>2. CASE saveFatallyErroredTransaction
    <3>1. /\ state' = [state EXCEPT ![bTx] = "fatal_error"] /\ nextNonce' = nextNonce
          /\ nonce' = [nonce EXCEPT ![bTx] = None] /\ bTx \in Txs
      BY <2>2 DEF saveFatallyErroredTransaction, FlowInv, BusySteps
    <3> QED
      BY <1>1, <3>1 DEF Live, In, FlowInv
  <2>3. CASE handleInProgressEthTx
    BY <1>2, <2>3 DEF handleInProgressEthTx
  <2>4. CASE handleAnyInProgressEthTx \/ nextUnstartedTransactionWithNonce \/ resumeWithError
    BY <1>2, <2>4 DEF handleAnyInProgressEthTx, nextUnstartedTransactionWithNonce, resumeWithError
  <2> QED
    BY <1>3, <2>1, <2>2, <2>3, <2>4 DEF processUnstartedEthTxs
<1>4. CASE processHead
  <2>1. ASSUME NEW t \in todo, NEW s \in SentStates, UNCHANGED <<nonce, nextNonce>>,
               state' = state \/ state' = [state EXCEPT ![t] = s]
        PROVE  \A tx \in Live' : tx \in Live
    BY <2>1 DEF FlowInv, SentTxs, Live, In
  <2>2. "unconfirmed" \in SentStates /\ "confirmed" \in SentStates
        /\ "confirmed_missing_receipt" \in SentStates
    BY DEF SentStates
  <2>3. lowest(1, todo) \subseteq todo
    BY DEF lowest
  <2>4. CASE RebroadcastWhereNecessary \/ EnsureConfirmedTransactionsInLongestChain
    <3>1. \/ UNCHANGED state
          \/ \E t \in todo : handleInProgressAttempt(t) \/ markForRebroadcast(t)
      BY <2>3, <2>4 DEF RebroadcastWhereNecessary, EnsureConfirmedTransactionsInLongestChain
    <3>2. \/ UNCHANGED state
          \/ \E t \in todo : \/ state' = state
                             \/ state' = [state EXCEPT ![t] = "unconfirmed"]
                             \/ state' = [state EXCEPT ![t] = "confirmed_missing_receipt"]
      BY <3>1 DEF handleInProgressAttempt, markForRebroadcast
    <3>3. UNCHANGED <<nonce, nextNonce>>
      BY <2>4 DEF RebroadcastWhereNecessary, EnsureConfirmedTransactionsInLongestChain,
                  besideConfirmer
    <3> QED
      BY <1>1, <1>2, <2>1, <2>2, <3>2, <3>3
  <2>5. CASE CheckConfirmedMissingReceipt \/ fetchAndSaveReceipts
    <3>1. \/ UNCHANGED state
          \/ \E t \in todo : \/ state' = [state EXCEPT ![t] = "unconfirmed"]
                             \/ state' = [state EXCEPT ![t] = "confirmed"]
      BY <2>5 DEF CheckConfirmedMissingReceipt, fetchAndSaveReceipts
    <3>2. UNCHANGED <<nonce, nextNonce>>
      BY <2>5 DEF CheckConfirmedMissingReceipt, fetchAndSaveReceipts, besideConfirmer
    <3> QED
      BY <1>1, <1>2, <2>1, <2>2, <3>1, <3>2
  <2>6. CASE markAllConfirmedMissingReceipt
    <3>1. UNCHANGED <<nonce, nextNonce>>
          /\ \A tx \in Txs : state'[tx] = state[tx] \/ state[tx] = "unconfirmed"
      BY <2>6 DEF markAllConfirmedMissingReceipt, besideConfirmer, In
    <3> QED
      BY <1>1, <3>1 DEF Live, In
  <2>7. CASE markOldTxesMissingReceiptAsErrored
    <3>1. PICK old : old = {tx \in In({"confirmed_missing_receipt"}) : Old(tx)}
      OBVIOUS
    <3>2. /\ nextNonce' = nextNonce
          /\ \A tx \in Txs : /\ state'[tx] = IF tx \in old THEN "fatal_error" ELSE state[tx]
                             /\ nonce'[tx] = IF tx \in old THEN None ELSE nonce[tx]
      BY <2>7, <3>1 DEF markOldTxesMissingReceiptAsErrored, besideConfirmer
    <3> QED
      BY <1>1, <3>2 DEF Live, In
  <2>8. CASE \/ retrieveHead \/ SetBroadcastBeforeBlockNum
             \/ findTransactionsConfirmedInBlockRange \/ ResumePendingTaskRuns
    BY <1>2, <2>8 DEF retrieveHead, SetBroadcastBeforeBlockNum,
       findTransactionsConfirmedInBlockRange, ResumePendingTaskRuns, besideConfirmer
  <2> QED
    BY <1>4, <2>4, <2>5, <2>6, <2>7, <2>8 DEF processHead
<1>5. CASE Restart
  <2>1. PICK pending \in NextNonces : nextNonce' = fastForwardNonce(pending)
    BY <1>5 DEF Restart
  <2>2. pending \in Nat
    BY TxsCounted DEF NextNonces
  <2>3. nextNonce <= nextNonce'
    BY <2>1, <2>2 DEF fastForwardNonce, FlowInv
  <2> QED
    BY <1>1, <1>5, <2>3 DEF Restart, Live, In
<1>6. ASSUME NEW t \in Txs, CreateEthTransaction(t) \/ PruneQueue(t)
      PROVE  (\A tx \in Live' : tx \in Live) /\ UNCHANGED <<nonce, nextNonce>>
  BY <1>6 DEF CreateEthTransaction, PruneQueue, Live, In, FlowInv
<1>7. CASE \/ UNCHANGED vars \/ networkStep \/ OnNewLongestChain \/ resendUnconfirmed
  BY <1>2, <1>7 DEF vars, networkStep, OnNewLongestChain, resendUnconfirmed
<1> QED
  BY <1>1, <1>3, <1>4, <1>5, <1>6, <1>7 DEF Next

\* A transaction leaves the progress sent, with its nonce given out for good, or
\* given up.
LEMMA ProgressEnds ==
  ASSUME FlowInv, FlowInv', [Next]_vars,
         NEW tx \in Txs, state[tx] = "in_progress", state'[tx] # "in_progress"
  PROVE  /\ tx = bTx /\ UNCHANGED <<mempool, canonical>>
         /\ \/ nonce[tx] = nextNonce /\ nextNonce' = nextNonce + 1
            \/ saveFatallyErroredTransaction
<1>1. processUnstartedEthTxs
  BY OthersWait
<1>2. UNCHANGED state => FALSE
  OBVIOUS
<1>3. handleAnswer \/ saveFatallyErroredTransaction
  <2>1. CASE saveInProgressTransaction
    BY <1>2, <2>1 DEF saveInProgressTransaction, FlowInv
  <2> QED
    BY <1>1, <1>2, <2>1 DEF processUnstartedEthTxs, handleAnyInProgressEthTx,
         nextUnstartedTransactionWithNonce, handleInProgressEthTx, resumeWithError
<1>4. /\ bTx \in Txs /\ state[bTx] = "in_progress" /\ UNCHANGED <<mempool, canonical>>
  BY <1>3 DEF handleAnswer, saveFatallyErroredTransaction, FlowInv, BusySteps,
              besideBroadcaster, chainVars
<1>5. tx = bTx
  BY <1>4 DEF FlowInv
<1>6. CASE handleAnswer
  BY <1>2, <1>4, <1>5, <1>6 DEF handleAnswer, saveAttempt, tryAgainBumpingGas
<1> QED
  BY <1>3, <1>4, <1>5, <1>6

LEMMA UsedStep ==
  ASSUME TxInv, TxInv', OwnInv, UsedInv, [Next]_vars
  PROVE  UsedInv'
<1> USE DEF TxInv
<1>1. Sends /\ (Derived \/ (Saves /\ saveInProgressTransaction))
  BY AttemptStep DEF ChainInv
<1>2. \A l \in canonical' : l \in canonical \/ l.hash \in mempool
  BY ChainStep
<1>3. \A h \in Known' : h \in Known \/ h \in AttemptHashes'
  BY <1>1, <1>2 DEF Sends, Known, AttemptHashes
<1>4. CASE Derived /\ ~saveInProgressTransaction
  <2>1. \A h \in Known' : \E g \in Known : h.tx = g.tx /\ h.nonce = g.nonce
    BY <1>3, <1>4 DEF Known, AttemptHashes, Derived
  <2>2. /\ \A tx \in Live' : tx \in Live /\ nonce'[tx] = nonce[tx]
        /\ nextNonce \in Int /\ nextNonce' \in Int /\ nextNonce <= nextNonce'
    BY <1>4, NoncesAdvance
  <2>3. /\ \A h \in Known', tx \in Live' : h.nonce = nonce'[tx] => h.tx = tx
        /\ \A h \in Known' : h.tx \in Live' => h.nonce = nonce'[h.tx]
    BY <2>1, <2>2 DEF UsedInv
  <2>4. ASSUME NEW h \in Known', state'[h.tx] # "in_progress"
        PROVE  h.nonce < nextNonce'
    <3>1. PICK g \in Known : h.tx = g.tx /\ h.nonce = g.nonce
      BY <2>1
    <3>2. PICK tx \in Txs : tx = h.tx
      BY <3>1 DEF HashInv
    <3>3. CASE state[tx] = "in_progress"
      <4>1. /\ tx = bTx /\ UNCHANGED <<mempool, canonical>>
            /\ \/ nonce[tx] = nextNonce /\ nextNonce' = nextNonce + 1
               \/ saveFatallyErroredTransaction
        BY <2>4, <3>2, <3>3, ProgressEnds
      <4>2. CASE nonce[tx] = nextNonce /\ nextNonce' = nextNonce + 1
        <5>1. h.nonce = nonce[tx]
          BY <3>1, <3>2, <3>3 DEF UsedInv, Live, In
        <5> QED
          BY <2>2, <4>2, <5>1
      <4>3. CASE saveFatallyErroredTransaction
        <5>1. attempts' = attempts \ AttemptsOf(bTx) /\ Refused
          BY <4>3 DEF saveFatallyErroredTransaction, Refused
        <5>2. h \notin AttemptHashes'
          BY <3>2, <4>1, <5>1 DEF AttemptsOf, AttemptHashes
        <5>3. h \in Out
          BY <4>1, <5>2 DEF Known, Out
        <5> QED
          BY <3>2, <4>1, <5>1, <5>3 DEF OwnInv
      <4> QED
        BY <4>1, <4>2, <4>3
    <3>4. CASE state[tx] # "in_progress"
      <4>1. g.nonce < nextNonce /\ g.nonce = h.nonce
        BY <3>1, <3>2, <3>4 DEF UsedInv
      <4>2. h.nonce \in Int
        BY <3>1 DEF UsedInv
      <4> QED
        BY <2>2, <4>1, <4>2
    <3> QED
      BY <3>3, <3>4
  <2>5. \A h \in Known' : h.nonce \in Int
    BY <2>1 DEF UsedInv
  <2> QED
    BY <2>3, <2>4, <2>5 DEF UsedInv
<1>5. CASE saveInProgressTransaction /\ Saves
  <2>1. PICK new : new = [tx |-> bTx, nonce |-> bNonce, price |-> 1]
    OBVIOUS
  <2>2. /\ bTx \in Txs /\ state' = [state EXCEPT ![bTx] = "in_progress"]
        /\ nonce' = [nonce EXCEPT ![bTx] = nextNonce] /\ nextNonce' = nextNonce
        /\ new.tx = bTx /\ new.nonce = nextNonce
        /\ attempts' = attempts \cup {InProgress(new)} /\ InProgress(new).hash = new
        /\ \A tx \in Txs : state[tx] # "in_progress"
        /\ state[bTx] = "unstarted"
    BY <1>5, <2>1 DEF saveInProgressTransaction, Saves, FlowInv, InProgress
  <2>3. \A h \in Known' : h = new \/ h \in Known
    BY <1>3, <2>2 DEF Known, AttemptHashes
  <2>4. \A h \in Known : h.tx \in Txs /\ h.tx # bTx /\ h.nonce < nextNonce
    BY <2>2 DEF HashInv, UsedInv, Queued
  <2>5. state'[bTx] = "in_progress" /\ nonce'[bTx] = nextNonce
    BY <2>2 DEF FlowInv
  <2>6. \A tx \in Txs : tx # bTx => /\ nonce'[tx] = nonce[tx] /\ state'[tx] = state[tx]
                                    /\ (tx \in Live' <=> tx \in Live)
    BY <2>2 DEF FlowInv, Live, In
  <2>7. \A tx \in Live : nonce[tx] < nextNonce /\ tx # bTx
    BY <2>2 DEF NonceInv, Live, In, SentStates
  <2>8. nextNonce \in Int /\ \A h \in Known : h.nonce \in Int
    BY DEF FlowInv, UsedInv
  <2>9. ASSUME NEW h \in Known', NEW tx \in Live', h.nonce = nonce'[tx]
        PROVE  h.tx = tx
    <3>1. tx \in Txs
      BY DEF Live, In
    <3>2. CASE tx = bTx
      BY <2>2, <2>3, <2>4, <2>5, <2>8, <2>9, <3>2
    <3>3. CASE tx # bTx
      <4>1. tx \in Live /\ h.nonce = nonce[tx]
        BY <2>6, <2>9, <3>1, <3>3
      <4>2. h # new
        BY <2>2, <2>7, <2>8, <4>1
      <4> QED
        BY <2>3, <4>1, <4>2 DEF UsedInv
    <3> QED
      BY <3>2, <3>3
  <2>10. ASSUME NEW h \in Known', h.tx \in Live' PROVE h.nonce = nonce'[h.tx]
    <3>1. CASE h = new
      BY <2>2, <2>5, <3>1
    <3>2. CASE h \in Known
      BY <2>4, <2>6, <2>10, <3>2 DEF UsedInv
    <3> QED
      BY <2>3, <3>1, <3>2
  <2>11. \A h \in Known' : h.nonce \in Int /\ (h.nonce < nextNonce' \/ state'[h.tx] = "in_progress")
    BY <2>2, <2>3, <2>4, <2>5, <2>8
  <2> QED
    BY <2>9, <2>10, <2>11 DEF UsedInv
<1>6. CASE saveInProgressTransaction /\ Derived /\ ~Saves
  <2>1. UNCHANGED <<state, nonce, nextNonce, attempts>>
    BY <1>6 DEF saveInProgressTransaction, Saves, FlowInv
  <2>2. \A h \in Known' : h \in Known
    BY <1>3, <2>1 DEF Known, AttemptHashes
  <2> QED
    BY <2>1, <2>2 DEF UsedInv, Live, In
<1> QED
  BY <1>1, <1>4, <1>5, <1>6

\* With no check before a transaction is sent, none under way has a nonce that
\* another used on the chain, whatever else fails.
THEOREM AllCanBeConfirmed ==
  ASSUME ~HasChecker
  PROVE  Spec => []CanBeConfirmed
<1>1. Init => TxInv /\ OwnInv /\ UsedInv
  BY FlowInit, AttemptInit, HeadInit, ChainStart, OwnStart DEF TxInv
<1>2. TxInv /\ TxInv' /\ OwnInv /\ UsedInv /\ [Next]_vars => OwnInv' /\ UsedInv'
  BY OwnStep, UsedStep
<1>3. TxInv /\ UsedInv => CanBeConfirmed
  BY DEF UsedInv, CanBeConfirmed, Known
<1> QED
  BY <1>1, <1>2, <1>3, TxInvariant, PTL DEF Spec

-------------------------------------------------------------------------------
(* One attempt that is not broadcast.                                       *)

\* No two attempts of a transaction have the same price, and one that is not
\* broadcast has the highest.
SingleInv ==
  \A a, b \in attempts : a.hash.tx = b.hash.tx =>
    /\ a.hash.price = b.hash.price => a = b
    /\ a.state # "broadcast" => b.hash.price <= a.hash.price

LEMMA SingleFewer ==
  ASSUME SingleInv, attempts' \subseteq attempts
  PROVE  SingleInv'
BY DEF SingleInv

LEMMA SingleChange ==
  ASSUME SingleInv, attempts \subseteq AnyAttempt, NEW b \in AnyAttempt, NEW kept \in SUBSET attempts,
         attempts' = kept \cup {b},
         \A c \in kept : c.hash.tx = b.hash.tx =>
           /\ c.hash.price # b.hash.price
           /\ b.state # "broadcast" => c.hash.price <= b.hash.price
           /\ c.state # "broadcast" => b.hash.price <= c.hash.price
  PROVE  SingleInv'
<1>1. b.hash.price <= b.hash.price
  BY TxManagerAssumption DEF AnyAttempt, AnyHash
<1> QED
  BY <1>1 DEF SingleInv

LEMMA Prices ==
  ASSUME NEW a \in AnyAttempt
  PROVE  a.hash.price \in Int
BY TxManagerAssumption DEF AnyAttempt, AnyHash

\* An attempt gets another state at its price; to be sent, it has the highest.
LEMMA SingleRestated ==
  ASSUME SingleInv, attempts \subseteq AnyAttempt, NEW a \in attempts, NEW b \in AnyAttempt,
         b.hash = a.hash, attempts' = replaced(a, b),
         b.state # "broadcast" =>
           \/ a.state # "broadcast"
           \/ \A c \in attempts : c.hash.tx = a.hash.tx => c.hash.price <= a.hash.price
  PROVE  SingleInv'
<1>1. attempts' = (attempts \ {a}) \cup {b}
  BY DEF replaced
<1>2. \A c \in attempts \ {a} : c.hash.tx = b.hash.tx =>
           /\ c.hash.price # b.hash.price
           /\ b.state # "broadcast" => c.hash.price <= b.hash.price
           /\ c.state # "broadcast" => b.hash.price <= c.hash.price
  BY DEF SingleInv
<1>3. attempts \ {a} \in SUBSET attempts
  OBVIOUS
<1> QED
  BY <1>1, <1>2, <1>3, SingleChange

\* A new attempt at a price past the highest, in the place of the one that is not
\* broadcast if there is one.
LEMMA SingleRepriced ==
  ASSUME SingleInv, attempts \subseteq AnyAttempt, NEW a \in attempts, NEW b \in AnyAttempt,
         \A c \in attempts : c.hash.tx = a.hash.tx => c.hash.price <= a.hash.price,
         b.hash.tx = a.hash.tx, b.hash.price = a.hash.price + 1,
         \/ attempts' = replaced(a, b)
         \/ attempts' = attempts \cup {b} /\ a.state = "broadcast"
  PROVE  SingleInv'
<1>1. PICK kept \in SUBSET attempts : /\ attempts' = kept \cup {b}
                                      /\ a \in kept => a.state = "broadcast"
  <2>1. CASE attempts' = replaced(a, b)
    <3>1. attempts' = (attempts \ {a}) \cup {b}
      BY <2>1 DEF replaced
    <3>2. attempts \ {a} \in SUBSET attempts /\ a \notin attempts \ {a}
      OBVIOUS
    <3> QED
      BY <3>1, <3>2
  <2> QED
    BY <2>1
<1>2. a.hash.price \in Int /\ \A c \in attempts : c.hash.price \in Int
  BY Prices
<1>3. ASSUME NEW c \in kept, c.hash.tx = b.hash.tx
      PROVE  /\ c.hash.price # b.hash.price /\ c.hash.price <= b.hash.price
             /\ c.state = "broadcast"
  <2>1. c.hash.price <= a.hash.price
    BY <1>3
  <2>2. c.state # "broadcast" => a.hash.price <= c.hash.price
    BY <1>3 DEF SingleInv
  <2>3. c.state # "broadcast" => c = a
    BY <1>2, <1>3, <2>1, <2>2 DEF SingleInv
  <2> QED
    BY <1>1, <1>2, <2>1, <2>3
<1> QED
  BY <1>1, <1>3, SingleChange

\* Every attempt keeps its hash, and none that was broadcast is sent again.
LEMMA SingleUpdates ==
  ASSUME FlowInv, AttemptInv, SingleInv, SetBroadcastBeforeBlockNum \/ fetchAndSaveReceipts
  PROVE  SingleInv'
<1>1. CASE SetBroadcastBeforeBlockNum
  <2> DEFINE f(a) == IF a.state = "broadcast" /\ a.before = None
                     THEN [a EXCEPT !.before = head.number] ELSE a
  <2>1. attempts' = {f(a) : a \in attempts}
    BY <1>1 DEF SetBroadcastBeforeBlockNum
  <2>2. \A a \in attempts : f(a).hash = a.hash /\ f(a).state = a.state
    BY DEF AttemptInv, AnyAttempt
  <2> HIDE DEF f
  <2> QED
    BY <2>1, <2>2 DEF SingleInv
<1>2. CASE fetchAndSaveReceipts
  <2>1. CASE UNCHANGED attempts
    BY <2>1, SingleFewer
  <2>2. CASE ~UNCHANGED attempts
    <3>1. PICK found :
            LET blockOf(a) == (CHOOSE l \in found : l.hash = a.hash).block
                sent(a) == [a EXCEPT !.state = "broadcast",
                                     !.before = IF @ = None THEN blockOf(a) ELSE @]
            IN  attempts' = {IF \E l \in found : l.hash = a.hash THEN sent(a) ELSE a :
                              a \in attempts}
      BY <1>2, <2>2 DEF fetchAndSaveReceipts
    <3> DEFINE sent(a) == [a EXCEPT !.state = "broadcast",
                                    !.before = IF @ = None
                                               THEN (CHOOSE l \in found : l.hash = a.hash).block
                                               ELSE @]
               f(a) == IF \E l \in found : l.hash = a.hash THEN sent(a) ELSE a
    <3>2. attempts' = {f(a) : a \in attempts}
      BY <3>1
    <3>3. \A a \in attempts : sent(a).hash = a.hash /\ sent(a).state = "broadcast"
      BY DEF AttemptInv, AnyAttempt
    <3> HIDE DEF sent
    <3>4. \A a \in attempts : /\ f(a).hash = a.hash
                              /\ f(a).state # "broadcast" => a.state # "broadcast"
      BY <3>3
    <3> HIDE DEF f
    <3> QED
      BY <3>2, <3>4 DEF SingleInv
  <2> QED
    BY <2>1, <2>2
<1> QED
  BY <1>1, <1>2

\* The highest attempt of a transaction is among the transaction's.
LEMMA HighestOfAll ==
  ASSUME attempts \subseteq AnyAttempt, NEW tx, AttemptsOf(tx) # {}
  PROVE  /\ Highest(tx) \in attempts /\ Highest(tx).hash.tx = tx
         /\ \A c \in attempts : c.hash.tx = Highest(tx).hash.tx
                                   => c.hash.price <= Highest(tx).hash.price
BY HighestIsHighest, HighestIsOne DEF AttemptsOf

\* A new attempt at the next price.
LEMMA NextPrice ==
  ASSUME NEW a \in AnyAttempt, a.hash.price < MaxPrice
  PROVE  \E b \in AnyAttempt : /\ b = InProgress([a.hash EXCEPT !.price = @ + 1])
                               /\ b.hash.tx = a.hash.tx /\ b.hash.price = a.hash.price + 1
<1>1. a.hash \in AnyHash
  BY DEF AnyAttempt
<1>2. PICK h \in AnyHash : h = [a.hash EXCEPT !.price = @ + 1] /\ h.tx = a.hash.tx
  BY <1>1, Repriced
<1>3. h.price = a.hash.price + 1
  BY <1>1, <1>2 DEF AnyHash
<1>4. InProgress(h) \in AnyAttempt /\ InProgress(h).hash = h
  BY NewInProgress
<1> QED
  BY <1>2, <1>3, <1>4

LEMMA SingleSentAgain ==
  ASSUME FlowInv, AttemptInv, SingleInv, NEW tx \in Unsent, handleInProgressAttempt(tx)
  PROVE  SingleInv'
<1>1. PICK a : a = CHOOSE b \in AttemptsOf(tx) : b.state = "in_progress"
  OBVIOUS
<1>2. /\ a \in attempts /\ a \in AnyAttempt /\ a.state = "in_progress" /\ a.hash.tx = tx
      /\ attempts \subseteq AnyAttempt /\ AttemptsOf(tx) # {}
  BY <1>1 DEF Unsent, AttemptsOf, AttemptInv
<1>3. \/ \E s \in {"broadcast", "insufficient_eth"} :
           attempts' = replaced(a, [a EXCEPT !.state = s])
      \/ /\ a.hash.price < MaxPrice
         /\ attempts' = replaced(a, InProgress([a.hash EXCEPT !.price = @ + 1]))
      \/ attempts' \subseteq attempts
  BY <1>1 DEF handleInProgressAttempt
<1>4. CASE \E s \in {"broadcast", "insufficient_eth"} :
             attempts' = replaced(a, [a EXCEPT !.state = s])
  <2>1. PICK s \in {"broadcast", "insufficient_eth"} :
               attempts' = replaced(a, [a EXCEPT !.state = s])
    BY <1>4
  <2>2. PICK b \in AnyAttempt : b = [a EXCEPT !.state = s] /\ b.hash = a.hash
    BY <1>2, Restated
  <2>3. attempts' = replaced(a, b)
    BY <2>1, <2>2
  <2> QED
    BY <1>2, <2>2, <2>3, SingleRestated
<1>5. CASE /\ a.hash.price < MaxPrice
           /\ attempts' = replaced(a, InProgress([a.hash EXCEPT !.price = @ + 1]))
  <2>1. PICK b \in AnyAttempt : /\ b = InProgress([a.hash EXCEPT !.price = @ + 1])
                                /\ b.hash.tx = a.hash.tx /\ b.hash.price = a.hash.price + 1
    BY <1>2, <1>5, NextPrice
  <2>2. attempts' = replaced(a, b)
    BY <1>5, <2>1
  <2>3. \A c \in attempts : c.hash.tx = a.hash.tx => c.hash.price <= a.hash.price
    BY <1>2 DEF SingleInv
  <2> QED
    BY <1>2, <2>1, <2>2, <2>3, SingleRepriced
<1> QED
  BY <1>3, <1>4, <1>5, SingleFewer

LEMMA SingleRepriceds ==
  ASSUME FlowInv, AttemptInv, SingleInv, NEW tx \in todo, tx \notin Unsent,
         attemptForRebroadcast(tx)
  PROVE  SingleInv'
<1>1. CASE UNCHANGED attempts
  BY <1>1, SingleFewer
<1>2. CASE AttemptsOf(tx) # {} /\ ~UNCHANGED attempts
  <2>1. PICK a : a = Highest(tx)
    OBVIOUS
  <2>2. /\ a \in attempts /\ a \in AnyAttempt /\ attempts \subseteq AnyAttempt /\ a.hash \in AnyHash
        /\ \A c \in attempts : c.hash.tx = a.hash.tx => c.hash.price <= a.hash.price
    BY <1>2, <2>1, HighestOfAll DEF AttemptInv, AnyAttempt
  <2>3. a.state # "in_progress"
    BY <1>2, <2>1, HighestIsOne DEF AttemptInv, Unsent, FlowInv
  <2>4. \/ a.state = "insufficient_eth" /\ attempts' = replaced(a, [a EXCEPT !.state = "in_progress"])
        \/ attempts' = replaced(a, InProgress(a.hash))
        \/ /\ a.state # "insufficient_eth" /\ a.hash.price < MaxPrice
           /\ attempts' = attempts \cup {InProgress([a.hash EXCEPT !.price = @ + 1])}
    BY <1>2, <2>1 DEF attemptForRebroadcast
  <2>5. CASE attempts' = replaced(a, [a EXCEPT !.state = "in_progress"])
    <3>1. PICK b \in AnyAttempt : b = [a EXCEPT !.state = "in_progress"] /\ b.hash = a.hash
      BY <2>2, Restated
    <3>2. attempts' = replaced(a, b)
      BY <2>5, <3>1
    <3> QED
      BY <2>2, <3>1, <3>2, SingleRestated
  <2>6. CASE attempts' = replaced(a, InProgress(a.hash))
    <3>1. PICK b \in AnyAttempt : b = InProgress(a.hash) /\ b.hash = a.hash
      BY <2>2, NewInProgress
    <3>2. attempts' = replaced(a, b)
      BY <2>6, <3>1
    <3> QED
      BY <2>2, <3>1, <3>2, SingleRestated
  <2>7. CASE /\ a.state # "insufficient_eth" /\ a.hash.price < MaxPrice
             /\ attempts' = attempts \cup {InProgress([a.hash EXCEPT !.price = @ + 1])}
    <3>1. PICK b \in AnyAttempt : /\ b = InProgress([a.hash EXCEPT !.price = @ + 1])
                                  /\ b.hash.tx = a.hash.tx /\ b.hash.price = a.hash.price + 1
      BY <2>2, <2>7, NextPrice
    <3>2. attempts' = attempts \cup {b}
      BY <2>7, <3>1
    <3>3. a.state = "broadcast"
      BY <2>2, <2>3, <2>7 DEF AnyAttempt
    <3> QED
      BY <2>2, <3>1, <3>2, <3>3, SingleRepriced
  <2> QED
    BY <2>4, <2>5, <2>6, <2>7
<1> QED
  BY <1>1, <1>2 DEF attemptForRebroadcast

LEMMA SingleMarked ==
  ASSUME FlowInv, AttemptInv, SingleInv, NEW tx \in todo, AttemptsOf(tx) # {},
         markForRebroadcast(tx)
  PROVE  SingleInv'
<1>1. CASE UNCHANGED attempts
  BY <1>1, SingleFewer
<1>2. CASE ~UNCHANGED attempts
  <2>1. PICK a : a = Highest(tx)
    OBVIOUS
  <2>2. /\ a \in attempts /\ attempts \subseteq AnyAttempt /\ a.hash \in AnyHash
        /\ \A c \in attempts : c.hash.tx = a.hash.tx => c.hash.price <= a.hash.price
    BY <2>1, HighestOfAll DEF AttemptInv, AnyAttempt
  <2>3. attempts' = replaced(a, InProgress(a.hash))
    BY <1>2, <2>1 DEF markForRebroadcast
  <2>4. PICK b \in AnyAttempt : b = InProgress(a.hash) /\ b.hash = a.hash
    BY <2>2, NewInProgress
  <2>5. attempts' = replaced(a, b)
    BY <2>3, <2>4
  <2> QED
    BY <2>2, <2>4, <2>5, SingleRestated
<1> QED
  BY <1>1, <1>2

LEMMA SingleBroadcast ==
  ASSUME FlowInv, AttemptInv, HashInv, SingleInv, processUnstartedEthTxs
  PROVE  SingleInv'
<1>1. CASE UNCHANGED attempts
  BY <1>1, SingleFewer
<1>2. CASE saveInProgressTransaction /\ ~UNCHANGED attempts
  <2>1. PICK new : new = [tx |-> bTx, nonce |-> bNonce, price |-> 1]
    OBVIOUS
  <2>2. /\ bTx \in Txs /\ state[bTx] = "unstarted" /\ bNonce \in Int
        /\ attempts' = attempts \cup {InProgress(new)}
    BY <1>2, <2>1 DEF saveInProgressTransaction, FlowInv
  <2>3. new \in AnyHash /\ new.tx = bTx
    BY <2>1, <2>2, TxManagerAssumption DEF AnyHash
  <2>4. PICK b \in AnyAttempt : b = InProgress(new) /\ b.hash.tx = bTx
    BY <2>3, NewInProgress
  <2>5. \A c \in attempts : c.hash.tx # b.hash.tx
    BY <2>2, <2>4 DEF HashInv, Queued, Known, AttemptHashes
  <2>6. attempts' = attempts \cup {b} /\ attempts \in SUBSET attempts
    BY <2>2, <2>4
  <2> QED
    BY <2>5, <2>6, SingleChange DEF AttemptInv
<1>3. CASE handleAnswer /\ ~UNCHANGED attempts
  <2>1. PICK a : a = Highest(bTx)
    OBVIOUS
  <2>2. /\ bTx \in Txs /\ state[bTx] = "in_progress"
        /\ AttemptsOf(bTx) # {} /\ attempts \subseteq AnyAttempt
    BY <1>3 DEF handleAnswer, FlowInv, BusySteps, AttemptInv
  <2>3. /\ a \in attempts /\ a \in AnyAttempt /\ a.hash \in AnyHash
        /\ \A c \in attempts : c.hash.tx = a.hash.tx => c.hash.price <= a.hash.price
    BY <2>1, <2>2, HighestOfAll DEF AnyAttempt
  <2>4. \/ attempts' = replaced(a, [a EXCEPT !.state = "broadcast"])
        \/ /\ a.hash.price < MaxPrice
           /\ attempts' = replaced(a, InProgress([a.hash EXCEPT !.price = @ + 1]))
    BY <1>3, <2>1 DEF handleAnswer, saveAttempt, tryAgainBumpingGas
  <2>5. CASE attempts' = replaced(a, [a EXCEPT !.state = "broadcast"])
    <3>1. PICK b \in AnyAttempt : b = [a EXCEPT !.state = "broadcast"] /\ b.hash = a.hash
      BY <2>3, Restated
    <3>2. attempts' = replaced(a, b)
      BY <2>5, <3>1
    <3> QED
      BY <2>2, <2>3, <3>1, <3>2, SingleRestated
  <2>6. CASE /\ a.hash.price < MaxPrice
             /\ attempts' = replaced(a, InProgress([a.hash EXCEPT !.price = @ + 1]))
    <3>1. PICK b \in AnyAttempt : /\ b = InProgress([a.hash EXCEPT !.price = @ + 1])
                                  /\ b.hash.tx = a.hash.tx /\ b.hash.price = a.hash.price + 1
      BY <2>3, <2>6, NextPrice
    <3>2. attempts' = replaced(a, b)
      BY <2>6, <3>1
    <3> QED
      BY <2>2, <2>3, <3>1, <3>2, SingleRepriced
  <2> QED
    BY <2>4, <2>5, <2>6
<1>4. CASE saveFatallyErroredTransaction
  BY <1>4, SingleFewer DEF saveFatallyErroredTransaction
<1> QED
  BY <1>1, <1>2, <1>3, <1>4 DEF processUnstartedEthTxs, handleAnyInProgressEthTx,
     nextUnstartedTransactionWithNonce, handleInProgressEthTx, resumeWithError

LEMMA SingleConfirmer ==
  ASSUME FlowInv, AttemptInv, SingleInv, processHead
  PROVE  SingleInv'
<1>1. CASE UNCHANGED attempts
  BY <1>1, SingleFewer
<1>2. CASE SetBroadcastBeforeBlockNum \/ fetchAndSaveReceipts
  BY <1>2, SingleUpdates
<1>3. lowest(1, todo) \subseteq todo
  BY DEF lowest
<1>4. CASE RebroadcastWhereNecessary /\ ~UNCHANGED attempts
  <2>1. \/ \E tx \in Unsent : handleInProgressAttempt(tx)
        \/ \E tx \in todo : tx \notin Unsent /\ attemptForRebroadcast(tx)
    BY <1>3, <1>4 DEF RebroadcastWhereNecessary, AttemptInv
  <2> QED
    BY <2>1, SingleSentAgain, SingleRepriceds
<1>5. CASE EnsureConfirmedTransactionsInLongestChain /\ ~UNCHANGED attempts
  <2>1. \/ \E tx \in todo : AttemptsOf(tx) # {} /\ markForRebroadcast(tx)
        \/ \E tx \in Unsent : handleInProgressAttempt(tx)
    BY <1>3, <1>5 DEF EnsureConfirmedTransactionsInLongestChain, AttemptInv
  <2> QED
    BY <2>1, SingleSentAgain, SingleMarked
<1> QED
  BY <1>1, <1>2, <1>4, <1>5 DEF processHead, retrieveHead, CheckConfirmedMissingReceipt,
     markAllConfirmedMissingReceipt, markOldTxesMissingReceiptAsErrored,
     findTransactionsConfirmedInBlockRange, ResumePendingTaskRuns

LEMMA SingleStep ==
  ASSUME TxInv, SingleInv, [Next]_vars
  PROVE  SingleInv'
<1> USE DEF TxInv
<1>1. CASE UNCHANGED attempts
  BY <1>1, SingleFewer
<1>2. CASE processUnstartedEthTxs
  BY <1>2, SingleBroadcast
<1>3. CASE processHead
  BY <1>3, SingleConfirmer
<1> QED
  BY <1>1, <1>2, <1>3 DEF Next, vars, dbVars, networkStep, CreateEthTransaction, PruneQueue,
     OnNewLongestChain, resendUnconfirmed, Restart

\* A set without two different elements has at most one.
LEMMA AtMostOneElement ==
  ASSUME NEW S, \A a, b \in S : a = b
  PROVE  Cardinality(S) <= 1
<1>1. CASE S = {}
  BY <1>1, FS_EmptySet
<1>2. CASE S # {}
  <2>1. PICK a : S = {a}
    BY <1>2
  <2> QED
    BY <2>1, FS_Singleton
<1> QED
  BY <1>1, <1>2

\* At most one transaction is in progress and at most one attempt of each is not
\* broadcast, for every number of transactions, every ceiling and whatever fails.
THEOREM OneIsUnbroadcast == Spec => []OneUnbroadcast
<1>1. Init => SingleInv
  BY DEF Init, SingleInv
<1>2. TxInv /\ SingleInv /\ [Next]_vars => SingleInv'
  BY SingleStep
<1>3. ASSUME TxInv, SingleInv PROVE OneUnbroadcast
  <2>1. \A tx, other \in In({"in_progress"}) : tx = other
    BY <1>3 DEF TxInv, FlowInv, In
  <2>2. attempts \subseteq AnyAttempt
    BY <1>3 DEF TxInv, AttemptInv
  <2>3. ASSUME NEW tx \in Txs
        PROVE  \A a, b \in {c \in AttemptsOf(tx) : c.state # "broadcast"} : a = b
    <3>1. SUFFICES ASSUME NEW a \in attempts, NEW b \in attempts,
                          a.hash.tx = b.hash.tx, a.state # "broadcast", b.state # "broadcast"
                   PROVE  a = b
      BY DEF AttemptsOf
    <3>2. a.hash.price \in Int /\ b.hash.price \in Int
      BY <2>2, Prices
    <3> QED
      BY <1>3, <3>1, <3>2 DEF SingleInv
  <2> QED
    BY <2>1, <2>3, AtMostOneElement DEF OneUnbroadcast
<1> QED
  BY <1>1, <1>2, <1>3, TxInvariant, PTL DEF Spec

-------------------------------------------------------------------------------
(* The rows: what is in them is of a transaction, a nonce, a price and a    *)
(* block there are.                                                         *)

\* The transactions that a nonce was given out to for good, or that were given up.
Given == In(SentStates \cup {"fatal_error"})

RowInv ==
  /\ height \in 0..MaxHeight /\ fork \in 0..MaxForks
  /\ canonical \subseteq Logs /\ mempool \subseteq Hashes
  /\ head.number \in 0..MaxHeight /\ head.logs \subseteq Logs
  /\ receipts \subseteq Logs
  /\ nonce \in [Txs -> Nonces \cup {None}]
  /\ result \in [Txs -> {"none", "receipt", "error"}]
  /\ \A a \in attempts : a.hash.nonce \in Nonces /\ a.before \in 0..MaxHeight \cup {None}
  /\ nextNonce <= Cardinality(Given)

LEMMA GivenCounted ==
  /\ IsFiniteSet(Given) /\ Cardinality(Given) \in Nat /\ Cardinality(Given) <= Cardinality(Txs)
<1>1. Given \subseteq Txs
  BY DEF Given, In
<1> QED
  BY <1>1, TxManagerAssumption, FS_Subset, FS_CardinalityType

LEMMA RowInit == Init => RowInv
<1> SUFFICES ASSUME Init PROVE RowInv
  OBVIOUS
<1>1. \A tx \in Txs : state[tx] = "none"
  BY DEF Init
<1>2. Given = {}
  BY <1>1 DEF Given, In, SentStates
<1>3. nextNonce = 0 /\ Cardinality(Given) = 0
  BY <1>2, FS_EmptySet DEF Init
<1>4. /\ height = 0 /\ fork = 0 /\ canonical = {} /\ mempool = {} /\ receipts = {}
      /\ head.number = 0 /\ head.logs = {} /\ attempts = {}
      /\ nonce = [tx \in Txs |-> None] /\ result = [tx \in Txs |-> "none"]
  BY DEF Init, ChainInit
<1>5. 0 \in 0..MaxHeight /\ 0 \in 0..MaxForks
  BY ChainAssumption
<1> QED
  BY <1>3, <1>4, <1>5 DEF RowInv

\* The blocks.
LEMMA BlocksKeep ==
  ASSUME RowInv, [Next]_vars
  PROVE  /\ height' \in 0..MaxHeight /\ fork' \in 0..MaxForks /\ canonical' \subseteq Logs
<1>1. height \in 0..MaxHeight /\ fork \in 0..MaxForks /\ canonical \subseteq Logs
      /\ mempool \subseteq Hashes
  BY DEF RowInv
<1>2. CASE UNCHANGED <<height, fork, canonical>>
  BY <1>1, <1>2
<1>3. CASE networkStep
  <2>1. CASE Mine
    <3>1. CASE extend({})
      BY <1>1, <3>1, ChainAssumption DEF extend
    <3>2. ASSUME NEW h \in mempool, extend({[hash |-> h, block |-> height + 1, fork |-> fork]})
          PROVE  height' \in 0..MaxHeight /\ fork' \in 0..MaxForks /\ canonical' \subseteq Logs
      <4>1. h \in Hashes /\ height + 1 \in 1..MaxHeight /\ height + 1 \in 0..MaxHeight
        BY <1>1, <3>2, ChainAssumption DEF extend
      <4>2. [hash |-> h, block |-> height + 1, fork |-> fork] \in Logs
        BY <1>1, <4>1 DEF Logs
      <4> QED
        BY <1>1, <3>2, <4>1, <4>2 DEF extend
    <3> QED
      BY <2>1, <3>1, <3>2 DEF Mine
  <2>2. ASSUME NEW depth \in 1..ReorgDepth, Reorg(depth)
        PROVE  height' \in 0..MaxHeight /\ fork' \in 0..MaxForks /\ canonical' \subseteq Logs
    BY <1>1, <2>2, ChainAssumption DEF Reorg
  <2> QED
    BY <1>2, <1>3, <2>1, <2>2 DEF networkStep, chainVars
<1> QED
  BY <1>2, <1>3, ChainChanges

\* The head that the confirmer works on is none, or was the newest.
LEMMA HeadMoves ==
  ASSUME [Next]_vars
  PROVE  \/ head' = head
         \/ head' = [number |-> height, logs |-> canonical] /\ retrieveHead
         \/ head' = [number |-> 0, logs |-> {}] /\ Restart
<1>1. CASE retrieveHead \/ Restart
  BY <1>1 DEF retrieveHead, Restart
<1>2. CASE processUnstartedEthTxs
  BY <1>2 DEF processUnstartedEthTxs, handleAnyInProgressEthTx,
       nextUnstartedTransactionWithNonce, saveInProgressTransaction, handleInProgressEthTx,
       handleAnswer, resumeWithError, saveFatallyErroredTransaction, besideBroadcaster,
       confirmerVars
<1>3. CASE processHead /\ ~retrieveHead
  BY <1>3 DEF processHead, SetBroadcastBeforeBlockNum, CheckConfirmedMissingReceipt,
       fetchAndSaveReceipts, markAllConfirmedMissingReceipt, markOldTxesMissingReceiptAsErrored,
       RebroadcastWhereNecessary, findTransactionsConfirmedInBlockRange,
       EnsureConfirmedTransactionsInLongestChain, ResumePendingTaskRuns
<1>4. CASE \/ UNCHANGED vars \/ OnNewLongestChain \/ resendUnconfirmed \/ networkStep
           \/ \E tx \in Txs : CreateEthTransaction(tx) \/ PruneQueue(tx)
  BY <1>4 DEF vars, OnNewLongestChain, resendUnconfirmed, networkStep, CreateEthTransaction,
       PruneQueue, confirmerVars
<1> QED
  BY <1>1, <1>2, <1>3, <1>4 DEF Next

\* A receipt comes from the chain.
LEMMA ReceiptsComeFromTheChain ==
  ASSUME [Next]_vars
  PROVE  receipts' \subseteq receipts \cup canonical
<1>1. CASE fetchAndSaveReceipts
  BY <1>1 DEF fetchAndSaveReceipts
<1>2. CASE EnsureConfirmedTransactionsInLongestChain
  BY <1>2 DEF EnsureConfirmedTransactionsInLongestChain, markForRebroadcast
<1>3. CASE processUnstartedEthTxs
  BY <1>3 DEF processUnstartedEthTxs, handleAnyInProgressEthTx,
       nextUnstartedTransactionWithNonce, saveInProgressTransaction, handleInProgressEthTx,
       handleAnswer, resumeWithError, saveFatallyErroredTransaction, besideBroadcaster
<1>4. CASE processHead
  BY <1>1, <1>2, <1>4 DEF processHead, retrieveHead, SetBroadcastBeforeBlockNum,
       CheckConfirmedMissingReceipt,
       markAllConfirmedMissingReceipt, markOldTxesMissingReceiptAsErrored,
       RebroadcastWhereNecessary, findTransactionsConfirmedInBlockRange, ResumePendingTaskRuns
<1>5. CASE \/ UNCHANGED vars \/ OnNewLongestChain \/ resendUnconfirmed \/ networkStep \/ Restart
           \/ \E tx \in Txs : CreateEthTransaction(tx) \/ PruneQueue(tx)
  BY <1>5 DEF vars, OnNewLongestChain, resendUnconfirmed, networkStep, CreateEthTransaction,
       PruneQueue, Restart, dbVars
<1> QED
  BY <1>3, <1>4, <1>5 DEF Next

\* What a job is told.
LEMMA ResultsKeep ==
  ASSUME RowInv, [Next]_vars
  PROVE  result' \in [Txs -> {"none", "receipt", "error"}]
<1>0. result \in [Txs -> {"none", "receipt", "error"}]
  BY DEF RowInv
<1>1. CASE resumeWithError
  BY <1>0, <1>1 DEF resumeWithError
<1>2. CASE ResumePendingTaskRuns
  BY <1>0, <1>2 DEF ResumePendingTaskRuns
<1>3. CASE processUnstartedEthTxs
  BY <1>0, <1>1, <1>3 DEF processUnstartedEthTxs, handleAnyInProgressEthTx,
       nextUnstartedTransactionWithNonce, saveInProgressTransaction, handleInProgressEthTx,
       handleAnswer, saveFatallyErroredTransaction
<1>4. CASE processHead
  BY <1>0, <1>2, <1>4 DEF processHead, retrieveHead, SetBroadcastBeforeBlockNum,
       CheckConfirmedMissingReceipt, fetchAndSaveReceipts,
       markAllConfirmedMissingReceipt, markOldTxesMissingReceiptAsErrored,
       RebroadcastWhereNecessary, findTransactionsConfirmedInBlockRange,
       EnsureConfirmedTransactionsInLongestChain
<1>5. CASE \/ UNCHANGED vars \/ OnNewLongestChain \/ resendUnconfirmed \/ networkStep \/ Restart
           \/ \E tx \in Txs : CreateEthTransaction(tx) \/ PruneQueue(tx)
  BY <1>0, <1>5 DEF vars, OnNewLongestChain, resendUnconfirmed, networkStep, CreateEthTransaction,
       PruneQueue, Restart
<1> QED
  BY <1>3, <1>4, <1>5 DEF Next

\* No transaction gets a nonce but the next one.
LEMMA NoncesKeep ==
  ASSUME FlowInv, RowInv, [Next]_vars
  PROVE  nonce' \in [Txs -> Nonces \cup {None}]
<1>0. nonce \in [Txs -> Nonces \cup {None}]
  BY DEF RowInv
<1>1. nextNonce \in Nonces
  BY GivenCounted, TxsCounted DEF RowInv, FlowInv, Nonces
<1>2. CASE saveInProgressTransaction
  <2>1. nonce' = [nonce EXCEPT ![bTx] = nextNonce] \/ UNCHANGED nonce
    BY <1>2 DEF saveInProgressTransaction, FlowInv
  <2> QED
    BY <1>0, <1>1, <2>1
<1>3. CASE saveFatallyErroredTransaction
  BY <1>0, <1>3 DEF saveFatallyErroredTransaction
<1>4. CASE processUnstartedEthTxs
  BY <1>0, <1>2, <1>3, <1>4 DEF processUnstartedEthTxs, handleAnyInProgressEthTx,
       nextUnstartedTransactionWithNonce, handleInProgressEthTx, handleAnswer, resumeWithError
<1>5. CASE markOldTxesMissingReceiptAsErrored
  BY <1>0, <1>5 DEF markOldTxesMissingReceiptAsErrored
<1>6. CASE processHead
  BY <1>0, <1>5, <1>6 DEF processHead, retrieveHead, SetBroadcastBeforeBlockNum,
       CheckConfirmedMissingReceipt, fetchAndSaveReceipts, markAllConfirmedMissingReceipt,
       RebroadcastWhereNecessary, findTransactionsConfirmedInBlockRange,
       EnsureConfirmedTransactionsInLongestChain, ResumePendingTaskRuns
<1>7. CASE \/ UNCHANGED vars \/ OnNewLongestChain \/ resendUnconfirmed \/ networkStep \/ Restart
           \/ \E tx \in Txs : CreateEthTransaction(tx) \/ PruneQueue(tx)
  BY <1>0, <1>7 DEF vars, OnNewLongestChain, resendUnconfirmed, networkStep, CreateEthTransaction,
       PruneQueue, Restart, dbVars
<1> QED
  BY <1>4, <1>6, <1>7 DEF Next

\* Every place on the chain is another transaction's.
LEMMA PlacesCounted ==
  ASSUME HashInv, ChainInv, NEW C, C = {l.hash.tx : l \in canonical}
  PROVE  IsFiniteSet(C) /\ Cardinality(C) = NonceAt
<1> DEFINE f == [l \in canonical |-> l.hash.tx]
<1>1. AtMostOnce
  BY OnePlaceEach
<1>2. f \in Bijection(canonical, C)
  <2>1. f \in [canonical -> C]
    OBVIOUS
  <2>2. \A l, k \in canonical : f[l] = f[k] => l = k
    BY <1>1 DEF AtMostOnce
  <2>3. \A c \in C : \E l \in canonical : f[l] = c
    OBVIOUS
  <2> QED
    BY <2>1, <2>2, <2>3 DEF Bijection, Injection, Surjection, IsInjective
<1> HIDE DEF f
<1>3. IsFiniteSet(canonical) /\ ExistsBijection(canonical, C)
  BY <1>2 DEF ChainInv, ExistsBijection
<1> QED
  BY <1>3, FS_Bijection DEF NonceAt

\* And every nonce that the pool has is.
LEMMA PendingCounted ==
  ASSUME HashInv, NEW low \in Nat, NEW n \in Nat, low <= n, IsFiniteSet(Txs),
         \A m \in low..n - 1 : \E h \in mempool : h.nonce = m,
         NEW M, M = {h.tx : h \in {g \in mempool : g.nonce \in low..n - 1}}
  PROVE  IsFiniteSet(M) /\ n - low <= Cardinality(M)
<1> DEFINE N == low..n - 1
           f == [tx \in M |-> (CHOOSE h \in mempool : h.tx = tx /\ h.nonce \in N).nonce]
<1>1. M \subseteq Txs
  BY DEF HashInv, Known
<1>2. IsFiniteSet(M)
  BY <1>1, FS_Subset
<1>3. \A tx \in M : \E h \in mempool : h.tx = tx /\ h.nonce \in N
  OBVIOUS
<1>4. \A tx \in M : f[tx] \in N
  BY <1>3
<1>5. ASSUME NEW m \in N PROVE \E tx \in M : f[tx] = m
  <2>1. PICK h \in mempool : h.nonce = m
    OBVIOUS
  <2>2. h.tx \in M
    BY <2>1
  <2>3. PICK g \in mempool : g.tx = h.tx /\ f[h.tx] = g.nonce
    BY <1>3, <2>2
  <2>4. g.nonce = h.nonce
    BY <2>3 DEF HashInv, Known
  <2> QED
    BY <2>1, <2>2, <2>3, <2>4
<1>6. f \in Surjection(M, N)
  BY <1>4, <1>5 DEF Surjection
<1> HIDE DEF f
<1>7. IsFiniteSet(N) /\ Cardinality(N) <= Cardinality(M)
  BY <1>2, <1>6, FS_Surjection DEF ExistsSurjection
<1>8. Cardinality(N) = n - low
  <2>1. low \in Int /\ n - 1 \in Int
    OBVIOUS
  <2>2. Cardinality(N) = IF low > n - 1 THEN 0 ELSE (n - 1) - low + 1
    BY <2>1, FS_Interval
  <2> QED
    BY <2>2
<1> QED
  BY <1>2, <1>7, <1>8

\* The nonce the network expects next is at most the number of the transactions
\* that have left the queue.
LEMMA PendingIsCovered ==
  ASSUME TxInv, NEW pending \in Nat, PendingNonceAt(pending)
  PROVE  pending <= Cardinality(Given \cup In({"in_progress"}))
<1> DEFINE C == {l.hash.tx : l \in canonical}
           M == {h.tx : h \in {g \in mempool : g.nonce \in NonceAt..pending - 1}}
           S == Given \cup In({"in_progress"})
<1> USE DEF TxInv
<1>1. IsFiniteSet(C) /\ Cardinality(C) = NonceAt
  BY PlacesCounted
<1>2. NonceAt \in Nat /\ NonceAt <= pending
  BY FS_CardinalityType DEF ChainInv, NonceAt, PendingNonceAt
<1>3. IsFiniteSet(Txs)
  BY TxManagerAssumption
<1>4. IsFiniteSet(M) /\ pending - NonceAt <= Cardinality(M)
  BY <1>2, <1>3, PendingCounted DEF PendingNonceAt
<1>5. C \cap M = {}
  <2> SUFFICES ASSUME NEW l \in canonical, NEW h \in mempool, h.nonce \in NonceAt..pending - 1,
                      l.hash.tx = h.tx
               PROVE  FALSE
    OBVIOUS
  <2>1. l.hash.nonce = h.nonce
    BY DEF HashInv, Known
  <2>2. l.hash.nonce < NonceAt
    BY OnChainIsUsed
  <2> QED
    BY <1>2, <2>1, <2>2
<1>6. C \cup M \subseteq S
  <2>1. \A tx : tx \in C \cup M => tx \in Txs /\ state[tx] \notin Queued
    BY DEF HashInv, Known
  <2> QED
    BY <2>1 DEF Given, In, Queued, SentStates, FlowInv, States
<1>7. IsFiniteSet(S)
  <2>1. S \subseteq Txs
    BY DEF Given, In
  <2> QED
    BY <1>3, <2>1, FS_Subset
<1> HIDE DEF C, M, S
<1>8. Cardinality(C \cup M) = Cardinality(C) + Cardinality(M)
  BY <1>1, <1>4, <1>5, FiniteGain
<1>9. Cardinality(C \cup M) <= Cardinality(S)
  BY <1>6, <1>7, FS_Subset
<1>10. Cardinality(S) \in Nat /\ Cardinality(M) \in Nat
  BY <1>4, <1>7, FS_CardinalityType
<1> QED
  BY <1>1, <1>2, <1>4, <1>8, <1>9, <1>10 DEF S

LEMMA ProgressCounted ==
  ASSUME FlowInv, NEW S, S = Given \cup In({"in_progress"})
  PROVE  /\ In({"in_progress"}) = {} => S = Given
         /\ Cardinality(S) <= Cardinality(Given) + 1
         /\ Cardinality(S) \in Nat
<1>1. CASE In({"in_progress"}) = {}
  <2>1. S = Given
    BY <1>1
  <2> QED
    BY <2>1, GivenCounted
<1>2. ASSUME NEW tx \in In({"in_progress"})
      PROVE  Cardinality(S) = Cardinality(Given) + 1
  <2>1. In({"in_progress"}) = {tx}
    BY DEF In, FlowInv
  <2>2. tx \notin Given
    BY DEF In, Given, SentStates
  <2>3. S = Given \cup {tx}
    BY <2>1
  <2> QED
    BY <2>2, <2>3, GivenCounted, FS_AddElement
<1>3. CASE In({"in_progress"}) # {}
  <2>1. Cardinality(S) = Cardinality(Given) + 1
    BY <1>2, <1>3
  <2> QED
    BY <1>3, <2>1, GivenCounted
<1> QED
  BY <1>1, <1>3

\* A restart gives out no nonce past the number of transactions.
LEMMA RestartCounted ==
  ASSUME TxInv, RowInv, Restart
  PROVE  nextNonce' <= Cardinality(Given')
<1>1. Given' = Given
  BY DEF Restart, Given, In
<1>2. PICK pending \in NextNonces :
        PendingNonceAt(pending) /\ nextNonce' = fastForwardNonce(pending)
  BY DEF Restart
<1>3. pending \in Nat
  BY TxsCounted DEF NextNonces
<1>4. pending <= Cardinality(Given \cup In({"in_progress"}))
  BY <1>2, <1>3, PendingIsCovered
<1>5. nextNonce \in Nat /\ nextNonce <= Cardinality(Given)
  BY DEF TxInv, FlowInv, RowInv
<1>6. CASE In({"in_progress"}) = {}
  <2>1. pending <= Cardinality(Given)
    BY <1>4, <1>6, ProgressCounted DEF TxInv
  <2>2. nextNonce' \in {nextNonce, pending}
    BY <1>2, <1>3, <1>6 DEF fastForwardNonce
  <2> QED
    BY <1>1, <1>5, <2>1, <2>2
<1>7. CASE In({"in_progress"}) # {}
  <2>1. pending <= Cardinality(Given) + 1
    BY <1>3, <1>4, ProgressCounted, GivenCounted DEF TxInv
  <2>2. nextNonce' \in {nextNonce, pending - 1}
    BY <1>2, <1>3, <1>7 DEF fastForwardNonce
  <2>3. nextNonce' <= Cardinality(Given)
    BY <1>3, <1>5, <2>1, <2>2, GivenCounted
  <2> QED
    BY <1>1, <2>3
<1> QED
  BY <1>6, <1>7

\* What was given out stays so.
LEMMA GivenStays ==
  ASSUME FlowInv, FlowInv', [Next]_vars
  PROVE  Given \subseteq Given'
<1> SUFFICES ASSUME NEW tx \in Given PROVE tx \in Given'
  OBVIOUS
<1>1. tx \in Txs /\ state[tx] \notin Queued /\ state[tx] # "in_progress"
      /\ state[tx] # "unstarted"
  BY DEF Given, In, SentStates, Queued
<1>2. state'[tx] \notin Queued
  BY <1>1, NeverQueuedAgain
<1>3. state'[tx] # "in_progress"
  <2>1. CASE ~processUnstartedEthTxs
    BY <1>1, <2>1, OthersWait
  <2>2. CASE processUnstartedEthTxs
    BY <1>1, <2>2 DEF processUnstartedEthTxs, handleAnyInProgressEthTx,
       nextUnstartedTransactionWithNonce, saveInProgressTransaction, handleInProgressEthTx,
       handleAnswer, saveAttempt, tryAgainBumpingGas, resumeWithError,
       saveFatallyErroredTransaction, FlowInv
  <2> QED
    BY <2>1, <2>2
<1>4. state'[tx] \in States
  BY <1>1 DEF FlowInv
<1> QED
  BY <1>1, <1>2, <1>3, <1>4 DEF Given, In, Queued, SentStates, States

\* A nonce is used up by a transaction that was sent, or skipped at a start.
LEMMA NextNonceMoves ==
  ASSUME FlowInv, [Next]_vars
  PROVE  \/ UNCHANGED nextNonce
         \/ Restart
         \/ /\ nextNonce' = nextNonce + 1 /\ bTx \in Txs /\ state[bTx] = "in_progress"
            /\ state' = [state EXCEPT ![bTx] = "unconfirmed"]
<1>1. CASE handleAnswer
  BY <1>1 DEF handleAnswer, saveAttempt, tryAgainBumpingGas, FlowInv, BusySteps
<1>2. CASE processUnstartedEthTxs
  BY <1>1, <1>2 DEF processUnstartedEthTxs, handleAnyInProgressEthTx,
       nextUnstartedTransactionWithNonce, saveInProgressTransaction, handleInProgressEthTx,
       resumeWithError, saveFatallyErroredTransaction
<1>3. CASE processHead
  BY <1>3 DEF processHead, retrieveHead, SetBroadcastBeforeBlockNum,
       CheckConfirmedMissingReceipt, fetchAndSaveReceipts, markAllConfirmedMissingReceipt,
       markOldTxesMissingReceiptAsErrored,
       RebroadcastWhereNecessary, findTransactionsConfirmedInBlockRange,
       EnsureConfirmedTransactionsInLongestChain, ResumePendingTaskRuns, besideConfirmer
<1>4. CASE \/ UNCHANGED vars \/ OnNewLongestChain \/ resendUnconfirmed \/ networkStep \/ Restart
           \/ \E tx \in Txs : CreateEthTransaction(tx) \/ PruneQueue(tx)
  BY <1>4 DEF vars, OnNewLongestChain, resendUnconfirmed, networkStep, CreateEthTransaction,
       PruneQueue, dbVars
<1> QED
  BY <1>2, <1>3, <1>4 DEF Next

LEMMA CountKeeps ==
  ASSUME TxInv, FlowInv', RowInv, [Next]_vars
  PROVE  nextNonce' <= Cardinality(Given')
<1>1. FlowInv /\ nextNonce \in Nat /\ nextNonce <= Cardinality(Given)
  BY DEF TxInv, FlowInv, RowInv
<1>2. /\ IsFiniteSet(Given) /\ Cardinality(Given) \in Nat
      /\ IsFiniteSet(Given') /\ Cardinality(Given') \in Nat
  <2>1. Given' \subseteq Txs
    BY DEF Given, In
  <2> QED
    BY <2>1, GivenCounted, TxManagerAssumption, FS_Subset, FS_CardinalityType
<1>3. Given \subseteq Given'
  BY <1>1, GivenStays
<1>4. CASE UNCHANGED nextNonce
  <2>1. Cardinality(Given) <= Cardinality(Given')
    BY <1>2, <1>3, FS_Subset
  <2> QED
    BY <1>1, <1>2, <1>4, <2>1
<1>5. CASE Restart
  BY <1>5, RestartCounted
<1>6. CASE /\ nextNonce' = nextNonce + 1 /\ bTx \in Txs /\ state[bTx] = "in_progress"
           /\ state' = [state EXCEPT ![bTx] = "unconfirmed"]
  <2>1. bTx \notin Given /\ bTx \in Given'
    BY <1>1, <1>6 DEF Given, In, SentStates, FlowInv
  <2>2. Given \cup {bTx} \subseteq Given'
    BY <1>3, <2>1
  <2>3. Cardinality(Given \cup {bTx}) = Cardinality(Given) + 1
    BY <1>2, <2>1, FS_AddElement
  <2>4. Cardinality(Given \cup {bTx}) <= Cardinality(Given')
    BY <1>2, <2>2, FS_Subset
  <2> QED
    BY <1>1, <1>2, <1>6, <2>3, <2>4
<1> QED
  BY <1>1, <1>4, <1>5, <1>6, NextNonceMoves

\* The block an attempt was sent before is none, the head's or that of a log.
Dated(b) ==
  \/ b.before = None
  \/ \E a \in attempts : b.before = a.before
  \/ b.before = head.number
  \/ \E l \in canonical : b.before = l.block

LEMMA DatedOne ==
  ASSUME NEW a \in attempts, NEW b, attempts' = replaced(a, b) \/ attempts' = attempts \cup {b},
         b.before = None \/ b.before = a.before
  PROVE  \A c \in attempts' : Dated(c)
BY DEF Dated, replaced

LEMMA RestatedDated ==
  ASSUME attempts \subseteq AnyAttempt, NEW a \in attempts, NEW s
  PROVE  [a EXCEPT !.state = s].before = a.before
BY DEF AnyAttempt

LEMMA NewDated ==
  ASSUME NEW h
  PROVE  InProgress(h).before = None
BY DEF InProgress

LEMMA BroadcasterDates ==
  ASSUME FlowInv, AttemptInv, processUnstartedEthTxs
  PROVE  \A c \in attempts' : Dated(c)
<1>1. CASE attempts' \subseteq attempts
  BY <1>1 DEF Dated
<1>2. CASE saveInProgressTransaction
  <2>1. PICK b : b.before = None /\ attempts' \subseteq attempts \cup {b}
    BY <1>2, NewDated DEF saveInProgressTransaction
  <2> QED
    BY <2>1 DEF Dated
<1>3. CASE handleAnswer
  <2>1. PICK a : a = Highest(bTx)
    OBVIOUS
  <2>2. a \in attempts /\ attempts \subseteq AnyAttempt
    BY <1>3, <2>1, HighestIsOne DEF handleAnswer, FlowInv, BusySteps, AttemptInv
  <2>3. \/ UNCHANGED attempts
        \/ attempts' = replaced(a, [a EXCEPT !.state = "broadcast"])
        \/ \E h : attempts' = replaced(a, InProgress(h))
    BY <1>3, <2>1 DEF handleAnswer, saveAttempt, tryAgainBumpingGas
  <2>4. PICK b : /\ attempts' = attempts \/ attempts' = replaced(a, b)
                 /\ b.before = None \/ b.before = a.before
    BY <2>2, <2>3, RestatedDated, NewDated
  <2> QED
    BY <1>1, <2>2, <2>4, DatedOne
<1> QED
  BY <1>1, <1>2, <1>3 DEF processUnstartedEthTxs, handleAnyInProgressEthTx,
     nextUnstartedTransactionWithNonce, handleInProgressEthTx, resumeWithError,
     saveFatallyErroredTransaction

LEMMA ConfirmerDates ==
  ASSUME FlowInv, AttemptInv, processHead
  PROVE  \A c \in attempts' : Dated(c)
<1>0. attempts \subseteq AnyAttempt
  BY DEF AttemptInv
<1>1. CASE attempts' \subseteq attempts
  BY <1>1 DEF Dated
<1>2. CASE SetBroadcastBeforeBlockNum
  <2> DEFINE f(a) == IF a.state = "broadcast" /\ a.before = None
                     THEN [a EXCEPT !.before = head.number] ELSE a
  <2>1. attempts' = {f(a) : a \in attempts}
    BY <1>2 DEF SetBroadcastBeforeBlockNum
  <2>2. \A a \in attempts : f(a).before \in {a.before, head.number}
    BY <1>0 DEF AnyAttempt
  <2> HIDE DEF f
  <2> QED
    BY <2>1, <2>2 DEF Dated
<1>3. CASE fetchAndSaveReceipts /\ ~UNCHANGED attempts
  <2>1. PICK found \in SUBSET canonical :
          attempts' = {IF \E l \in found : l.hash = a.hash
                       THEN [a EXCEPT !.state = "broadcast",
                                      !.before = IF @ = None
                                                 THEN (CHOOSE l \in found : l.hash = a.hash).block
                                                 ELSE @]
                       ELSE a : a \in attempts}
    <3>1. PICK tx \in todo :
            LET asked == {a \in AttemptsOf(tx) : a.state # "insufficient_eth"}
                found == {l \in canonical : \E a \in asked : a.hash = l.hash}
            IN  attempts' = {IF \E l \in found : l.hash = a.hash
                             THEN [a EXCEPT !.state = "broadcast",
                                            !.before = IF @ = None
                                                       THEN (CHOOSE l \in found : l.hash = a.hash).block
                                                       ELSE @]
                             ELSE a : a \in attempts}
      BY <1>3 DEF fetchAndSaveReceipts
    <3>2. PICK found \in SUBSET canonical :
            found = {l \in canonical :
                       \E a \in {b \in AttemptsOf(tx) : b.state # "insufficient_eth"} : a.hash = l.hash}
      OBVIOUS
    <3> QED
      BY <3>1, <3>2
  <2> DEFINE blockOf(a) == (CHOOSE l \in found : l.hash = a.hash).block
             sent(a) == [a EXCEPT !.state = "broadcast",
                                  !.before = IF @ = None THEN blockOf(a) ELSE @]
             f(a) == IF \E l \in found : l.hash = a.hash THEN sent(a) ELSE a
  <2>2. attempts' = {f(a) : a \in attempts}
    BY <2>1
  <2>3. ASSUME NEW a \in attempts, \E l \in found : l.hash = a.hash
        PROVE  \E l \in canonical : blockOf(a) = l.block
    BY <2>3
  <2> HIDE DEF blockOf
  <2>4. \A a \in attempts : sent(a).before \in {a.before, blockOf(a)}
    BY <1>0 DEF AnyAttempt
  <2> HIDE DEF sent
  <2>5. \A a \in attempts : f(a).before = a.before \/ \E l \in canonical : f(a).before = l.block
    BY <2>3, <2>4
  <2> HIDE DEF f
  <2> QED
    BY <2>2, <2>5 DEF Dated
<1>4. lowest(1, todo) \subseteq todo
  BY DEF lowest
<1>5. ASSUME NEW a \in attempts,
             \/ \E s : attempts' = replaced(a, [a EXCEPT !.state = s])
             \/ \E h : \/ attempts' = replaced(a, InProgress(h))
                       \/ attempts' = attempts \cup {InProgress(h)}
      PROVE  \A c \in attempts' : Dated(c)
  <2>1. PICK b : /\ attempts' = replaced(a, b) \/ attempts' = attempts \cup {b}
                 /\ b.before = None \/ b.before = a.before
    BY <1>0, <1>5, RestatedDated, NewDated
  <2> QED
    BY <2>1, DatedOne
<1>6. ASSUME NEW tx \in Unsent, handleInProgressAttempt(tx), ~(attempts' \subseteq attempts)
      PROVE  \A c \in attempts' : Dated(c)
  <2>1. PICK a : a = CHOOSE b \in AttemptsOf(tx) : b.state = "in_progress"
    OBVIOUS
  <2>2. a \in attempts
    BY <2>1 DEF Unsent, AttemptsOf
  <2>3. \/ \E s : attempts' = replaced(a, [a EXCEPT !.state = s])
        \/ \E h : attempts' = replaced(a, InProgress(h))
    BY <1>6, <2>1 DEF handleInProgressAttempt
  <2> QED
    BY <1>5, <2>2, <2>3
<1>7. ASSUME NEW tx \in todo, ~UNCHANGED attempts,
             attemptForRebroadcast(tx) \/ (markForRebroadcast(tx) /\ AttemptsOf(tx) # {})
      PROVE  \A c \in attempts' : Dated(c)
  <2>1. PICK a : a = Highest(tx)
    OBVIOUS
  <2>2. AttemptsOf(tx) # {}
    BY <1>7 DEF attemptForRebroadcast
  <2>3. a \in attempts
    BY <1>0, <2>1, <2>2, HighestIsOne
  <2>4. \/ \E s : attempts' = replaced(a, [a EXCEPT !.state = s])
        \/ \E h : \/ attempts' = replaced(a, InProgress(h))
                  \/ attempts' = attempts \cup {InProgress(h)}
    BY <1>7, <2>1, <2>2 DEF attemptForRebroadcast, markForRebroadcast
  <2> QED
    BY <1>5, <2>3, <2>4
<1>8. CASE RebroadcastWhereNecessary /\ ~(attempts' \subseteq attempts)
  <2>1. \/ \E tx \in Unsent : handleInProgressAttempt(tx)
        \/ \E tx \in todo : attemptForRebroadcast(tx)
    BY <1>4, <1>8 DEF RebroadcastWhereNecessary, AttemptInv
  <2> QED
    BY <1>6, <1>7, <1>8, <2>1
<1>9. CASE EnsureConfirmedTransactionsInLongestChain /\ ~(attempts' \subseteq attempts)
  <2>1. \/ \E tx \in todo : AttemptsOf(tx) # {} /\ markForRebroadcast(tx)
        \/ \E tx \in Unsent : handleInProgressAttempt(tx)
    BY <1>4, <1>9 DEF EnsureConfirmedTransactionsInLongestChain, AttemptInv
  <2> QED
    BY <1>6, <1>7, <1>9, <2>1
<1> QED
  BY <1>1, <1>2, <1>3, <1>8, <1>9 DEF processHead, retrieveHead, CheckConfirmedMissingReceipt,
     markAllConfirmedMissingReceipt, markOldTxesMissingReceiptAsErrored,
     findTransactionsConfirmedInBlockRange, ResumePendingTaskRuns

LEMMA DatesKeep ==
  ASSUME FlowInv, AttemptInv, [Next]_vars
  PROVE  \A c \in attempts' : Dated(c)
<1>1. CASE UNCHANGED attempts
  BY <1>1 DEF Dated
<1> QED
  BY <1>1, BroadcasterDates, ConfirmerDates DEF Next, vars, dbVars, networkStep,
     CreateEthTransaction, PruneQueue, OnNewLongestChain, resendUnconfirmed, Restart

LEMMA AttemptsTyped ==
  ASSUME AttemptInv, RowInv
  PROVE  AttemptHashes \subseteq Hashes
<1> SUFFICES ASSUME NEW a \in attempts PROVE a.hash \in Hashes
  BY DEF AttemptHashes
<1>1. a.hash \in AnyHash
  BY DEF AttemptInv, AnyAttempt
<1>2. a.hash.nonce \in Nonces
  BY DEF RowInv
<1> QED
  BY <1>1, <1>2 DEF AnyHash, Hashes

LEMMA RowStep ==
  ASSUME TxInv, TxInv', RowInv, [Next]_vars
  PROVE  RowInv'
<1> USE DEF TxInv
<1>1. height' \in 0..MaxHeight /\ fork' \in 0..MaxForks /\ canonical' \subseteq Logs
  BY BlocksKeep
<1>2. Sends /\ (Derived \/ (Saves /\ saveInProgressTransaction))
  BY AttemptStep DEF ChainInv
<1>3. mempool' \subseteq Hashes
  BY <1>2, AttemptsTyped DEF Sends, RowInv
<1>4. head'.number \in 0..MaxHeight /\ head'.logs \subseteq Logs
  BY HeadMoves, ChainAssumption DEF RowInv
<1>5. receipts' \subseteq Logs
  BY ReceiptsComeFromTheChain DEF RowInv
<1>6. nonce' \in [Txs -> Nonces \cup {None}]
  BY NoncesKeep
<1>7. result' \in [Txs -> {"none", "receipt", "error"}]
  BY ResultsKeep
<1>8. ASSUME NEW b \in attempts' PROVE b.hash.nonce \in Nonces
  <2>1. CASE Derived
    BY <2>1 DEF Derived, RowInv
  <2>2. CASE Saves /\ saveInProgressTransaction
    <3>1. nextNonce \in Nonces /\ bNonce = nextNonce
      BY <2>2, GivenCounted, TxsCounted DEF RowInv, FlowInv, Nonces, saveInProgressTransaction
    <3>2. PICK new : new = [tx |-> bTx, nonce |-> bNonce, price |-> 1]
      OBVIOUS
    <3>3. attempts' = attempts \cup {InProgress(new)} /\ InProgress(new).hash = new
      BY <2>2, <3>2 DEF Saves, InProgress
    <3>4. new.nonce = nextNonce
      BY <3>1, <3>2
    <3> QED
      BY <3>1, <3>3, <3>4 DEF RowInv
  <2> QED
    BY <1>2, <2>1, <2>2
<1>9. ASSUME NEW b \in attempts' PROVE b.before \in 0..MaxHeight \cup {None}
  <2>1. Dated(b)
    BY DatesKeep
  <2>2. \A l \in canonical : l.block \in 0..MaxHeight
    BY DEF RowInv, Logs
  <2> QED
    BY <2>1, <2>2 DEF Dated, RowInv
<1>10. nextNonce' <= Cardinality(Given')
  BY CountKeeps
<1> QED
  BY <1>1, <1>3, <1>4, <1>5, <1>6, <1>7, <1>8, <1>9, <1>10 DEF RowInv

LEMMA RowInvariant == Spec => []RowInv
<1>1. TxInv /\ TxInv' /\ RowInv /\ [Next]_vars => RowInv'
  BY RowStep
<1> QED
  BY <1>1, RowInit, TxInvariant, PTL DEF Spec

\* The rows of the database have their types, for every number of transactions,
\* height of the chain, ceiling of the price and whatever fails: no nonce is given
\* out that is not below the number of transactions, because as many of them are
\* sent or given up.
THEOREM TypesOfTransactions == Spec => []TxTypeOK
<1>1. ASSUME TxInv, RowInv PROVE TxTypeOK
  <2> USE <1>1 DEF TxInv
  <2>1. state \in [Txs -> States]
    BY DEF FlowInv
  <2>2. attempts \subseteq [hash : Hashes, state : {"in_progress", "broadcast", "insufficient_eth"},
                            before : 0..MaxHeight \cup {None}]
    <3> SUFFICES ASSUME NEW a \in attempts
                 PROVE  a \in [hash : Hashes,
                               state : {"in_progress", "broadcast", "insufficient_eth"},
                               before : 0..MaxHeight \cup {None}]
      OBVIOUS
    <3>1. a \in AnyAttempt
      BY DEF AttemptInv
    <3>2. a.hash \in Hashes
      BY AttemptsTyped DEF AttemptHashes
    <3>3. a.before \in 0..MaxHeight \cup {None}
      BY DEF RowInv
    <3> HIDE DEF TxInv
    <3> QED
      BY <3>1, <3>2, <3>3 DEF AnyAttempt
  <2>3. nextNonce \in NextNonces
    BY GivenCounted, TxsCounted DEF RowInv, FlowInv, NextNonces
  <2>4. todo \subseteq Txs
    BY DEF FlowInv, SentTxs, In
  <2> QED
    BY <2>1, <2>2, <2>3, <2>4 DEF RowInv, TxTypeOK
<1> QED
  BY <1>1, RowInvariant, TxInvariant, PTL

-------------------------------------------------------------------------------
(* A job is told of what the head holds.  The receipts that count are those *)
(* of a confirmed transaction that has no other.                            *)

Sole(r) ==
  /\ r \in receipts /\ state[r.hash.tx] = "confirmed"
  /\ \A s \in receipts : s.hash.tx = r.hash.tx => s = r

\* The attempt of such a receipt is found again by the query that looks for lost
\* ones, and no price is raised of a transaction that is confirmed.
SentInv ==
  /\ \A r : Sole(r) => \E a \in attempts : a.hash = r.hash /\ a.state = "broadcast"
  /\ stage = "bump" => todo \subseteq In({"unconfirmed"})

\* Only the confirmer changes a transaction that was sent.
LEMMA OthersLeaveSent ==
  ASSUME FlowInv, [Next]_vars, ~processHead, NEW tx \in Txs, state[tx] \in SentStates
  PROVE  state'[tx] = state[tx]
<1> USE DEF SentStates
<1>1. CASE UNCHANGED state
  BY <1>1
<1>2. CASE processUnstartedEthTxs
  BY <1>2 DEF processUnstartedEthTxs, handleAnyInProgressEthTx,
     nextUnstartedTransactionWithNonce, saveInProgressTransaction, handleInProgressEthTx,
     handleAnswer, saveAttempt, tryAgainBumpingGas, resumeWithError,
     saveFatallyErroredTransaction, FlowInv, BusySteps
<1>3. ASSUME NEW t \in Txs, CreateEthTransaction(t) \/ PruneQueue(t)
      PROVE  state'[tx] = state[tx]
  BY <1>3 DEF CreateEthTransaction, PruneQueue, FlowInv
<1>4. CASE UNCHANGED vars \/ networkStep \/ OnNewLongestChain \/ resendUnconfirmed \/ Restart
  BY <1>1, <1>4 DEF vars, networkStep, OnNewLongestChain, resendUnconfirmed, Restart, dbVars
<1> QED
  BY <1>2, <1>3, <1>4 DEF Next

LEMMA OthersLeaveConfirmer ==
  ASSUME [Next]_vars, ~processHead
  PROVE  /\ UNCHANGED <<head, stage, todo, ensured>> \/ Restart
         /\ UNCHANGED receipts
<1>1. CASE processUnstartedEthTxs
  BY <1>1 DEF processUnstartedEthTxs, handleAnyInProgressEthTx,
       nextUnstartedTransactionWithNonce, saveInProgressTransaction, handleInProgressEthTx,
       handleAnswer, resumeWithError, saveFatallyErroredTransaction, besideBroadcaster,
       confirmerVars
<1>2. CASE \/ UNCHANGED vars \/ OnNewLongestChain \/ resendUnconfirmed \/ networkStep \/ Restart
           \/ \E tx \in Txs : CreateEthTransaction(tx) \/ PruneQueue(tx)
  BY <1>2 DEF vars, OnNewLongestChain, resendUnconfirmed, networkStep, CreateEthTransaction,
       PruneQueue, Restart, dbVars, confirmerVars
<1> QED
  BY <1>1, <1>2 DEF Next

\* A transaction is confirmed by a receipt alone.
LEMMA ConfirmedByReceipt ==
  ASSUME FlowInv, [Next]_vars, ~fetchAndSaveReceipts, NEW tx \in Txs, state'[tx] = "confirmed"
  PROVE  state[tx] = "confirmed"
<1>1. CASE UNCHANGED state
  BY <1>1
<1>2. CASE processUnstartedEthTxs
  BY <1>2 DEF processUnstartedEthTxs, handleAnyInProgressEthTx,
     nextUnstartedTransactionWithNonce, saveInProgressTransaction, handleInProgressEthTx,
     handleAnswer, saveAttempt, tryAgainBumpingGas, resumeWithError,
     saveFatallyErroredTransaction, FlowInv
<1>3. CASE processHead
  <2>1. lowest(1, todo) \subseteq todo
    BY DEF lowest
  <2>2. ASSUME NEW t \in todo, handleInProgressAttempt(t) \/ markForRebroadcast(t)
        PROVE  state[tx] = "confirmed"
    BY <2>2 DEF handleInProgressAttempt, markForRebroadcast, FlowInv
  <2>3. CASE RebroadcastWhereNecessary \/ EnsureConfirmedTransactionsInLongestChain
    BY <2>1, <2>2, <2>3 DEF RebroadcastWhereNecessary, EnsureConfirmedTransactionsInLongestChain
  <2>4. CASE CheckConfirmedMissingReceipt
    BY <2>4 DEF CheckConfirmedMissingReceipt, FlowInv
  <2> QED
    BY <1>3, <2>3, <2>4 DEF processHead, retrieveHead, SetBroadcastBeforeBlockNum,
         markAllConfirmedMissingReceipt, markOldTxesMissingReceiptAsErrored,
         findTransactionsConfirmedInBlockRange, ResumePendingTaskRuns
<1>4. ASSUME NEW t \in Txs, CreateEthTransaction(t) \/ PruneQueue(t)
      PROVE  state[tx] = "confirmed"
  BY <1>4 DEF CreateEthTransaction, PruneQueue, FlowInv
<1>5. CASE UNCHANGED vars \/ networkStep \/ OnNewLongestChain \/ resendUnconfirmed \/ Restart
  BY <1>1, <1>5 DEF vars, networkStep, OnNewLongestChain, resendUnconfirmed, Restart, dbVars
<1> QED
  BY <1>2, <1>3, <1>4, <1>5 DEF Next

\* The receipts of a transaction go all at once.
LEMMA ReceiptsGo ==
  ASSUME [Next]_vars, ~fetchAndSaveReceipts
  PROVE  \/ UNCHANGED receipts
         \/ \E tx \in todo : receipts' = receipts \ ReceiptsOf(tx) /\ markForRebroadcast(tx)
<1>1. CASE ~processHead
  BY <1>1, OthersLeaveConfirmer
<1>2. CASE EnsureConfirmedTransactionsInLongestChain
  BY <1>2 DEF EnsureConfirmedTransactionsInLongestChain, markForRebroadcast, lowest
<1> QED
  BY <1>1, <1>2 DEF processHead, retrieveHead, SetBroadcastBeforeBlockNum,
       CheckConfirmedMissingReceipt, markAllConfirmedMissingReceipt,
       markOldTxesMissingReceiptAsErrored,
       RebroadcastWhereNecessary, findTransactionsConfirmedInBlockRange, ResumePendingTaskRuns

LEMMA SoleStays ==
  ASSUME FlowInv, RowInv, [Next]_vars, ~fetchAndSaveReceipts, NEW r, Sole(r)'
  PROVE  Sole(r)
<1>1. /\ r \in receipts' /\ state'[r.hash.tx] = "confirmed"
      /\ \A s \in receipts' : s.hash.tx = r.hash.tx => s = r
  BY DEF Sole
<1>2. /\ r \in receipts
      /\ \A s \in receipts : s.hash.tx = r.hash.tx => s \in receipts'
  BY <1>1, ReceiptsGo DEF ReceiptsOf
<1>3. r.hash.tx \in Txs
  BY <1>2 DEF RowInv, Logs, Hashes
<1>4. state[r.hash.tx] = "confirmed"
  BY <1>1, <1>3, ConfirmedByReceipt
<1> QED
  BY <1>1, <1>2, <1>4 DEF Sole

\* What a query of the receipts of one transaction does.
Fetched(tx, found) ==
  /\ found \subseteq canonical /\ \A l \in found : l.hash.tx = tx
  /\ \A l \in found : \E a \in attempts : a.hash = l.hash
  /\ receipts' = receipts \cup found
  /\ state' = IF found = {} THEN state ELSE [state EXCEPT ![tx] = "confirmed"]
  /\ \A a \in attempts : \/ a \in attempts' /\ \A l \in found : l.hash # a.hash
                         \/ \E b \in attempts' : b.hash = a.hash /\ b.state = "broadcast"

LEMMA Fetching ==
  ASSUME AttemptInv, fetchAndSaveReceipts
  PROVE  \/ UNCHANGED <<state, attempts, receipts>>
         \/ \E tx \in todo, found \in SUBSET canonical : Fetched(tx, found)
<1>1. CASE UNCHANGED <<state, attempts, receipts>>
  BY <1>1
<1>2. CASE ~UNCHANGED <<state, attempts, receipts>>
  <2>1. PICK tx \in todo, found \in SUBSET canonical :
          /\ \A l \in found : \E a \in AttemptsOf(tx) : a.hash = l.hash
          /\ receipts' = receipts \cup found
          /\ state' = IF found = {} THEN state ELSE [state EXCEPT ![tx] = "confirmed"]
          /\ attempts' = {IF \E l \in found : l.hash = a.hash
                          THEN [a EXCEPT !.state = "broadcast",
                                         !.before = IF @ = None
                                                    THEN (CHOOSE l \in found : l.hash = a.hash).block
                                                    ELSE @]
                          ELSE a : a \in attempts}
    <3>1. PICK tx \in todo :
            LET asked == {a \in AttemptsOf(tx) : a.state # "insufficient_eth"}
                found == {l \in canonical : \E a \in asked : a.hash = l.hash}
            IN  /\ receipts' = receipts \cup found
                /\ state' = IF found = {} THEN state ELSE [state EXCEPT ![tx] = "confirmed"]
                /\ attempts' = {IF \E l \in found : l.hash = a.hash
                                THEN [a EXCEPT !.state = "broadcast",
                                               !.before = IF @ = None
                                                          THEN (CHOOSE l \in found : l.hash = a.hash).block
                                                          ELSE @]
                                ELSE a : a \in attempts}
      BY <1>2 DEF fetchAndSaveReceipts
    <3>2. PICK found \in SUBSET canonical :
            found = {l \in canonical :
                       \E a \in {b \in AttemptsOf(tx) : b.state # "insufficient_eth"} : a.hash = l.hash}
      OBVIOUS
    <3>3. \A l \in found : \E a \in AttemptsOf(tx) : a.hash = l.hash
      BY <3>2
    <3> QED
      BY <3>1, <3>2, <3>3
  <2> DEFINE sent(a) == [a EXCEPT !.state = "broadcast",
                                  !.before = IF @ = None
                                             THEN (CHOOSE l \in found : l.hash = a.hash).block
                                             ELSE @]
             f(a) == IF \E l \in found : l.hash = a.hash THEN sent(a) ELSE a
  <2>3. /\ receipts' = receipts \cup found
        /\ state' = IF found = {} THEN state ELSE [state EXCEPT ![tx] = "confirmed"]
        /\ attempts' = {f(a) : a \in attempts}
    BY <2>1
  <2>4. \A a \in attempts : sent(a).hash = a.hash /\ sent(a).state = "broadcast"
    BY DEF AttemptInv, AnyAttempt
  <2> HIDE DEF sent
  <2>5. \A a \in attempts : \/ f(a) = a /\ \A l \in found : l.hash # a.hash
                            \/ f(a).hash = a.hash /\ f(a).state = "broadcast"
    BY <2>4
  <2>6. \A l \in found : l.hash.tx = tx /\ \E a \in attempts : a.hash = l.hash
    BY <2>1 DEF AttemptsOf
  <2> HIDE DEF f
  <2>7. \A a \in attempts : \/ a \in attempts' /\ \A l \in found : l.hash # a.hash
                            \/ \E b \in attempts' : b.hash = a.hash /\ b.state = "broadcast"
    BY <2>3, <2>5
  <2> QED
    BY <2>3, <2>6, <2>7 DEF Fetched
<1> QED
  BY <1>1, <1>2

LEMMA SoleFetched ==
  ASSUME FlowInv, AttemptInv, RowInv, fetchAndSaveReceipts, NEW r, Sole(r)'
  PROVE  Sole(r) \/ r \in canonical
<1>1. CASE UNCHANGED <<state, attempts, receipts>>
  BY <1>1 DEF Sole
<1>2. ASSUME NEW tx \in todo, NEW found \in SUBSET canonical, Fetched(tx, found), r \notin found
      PROVE  Sole(r)
  <2>1. /\ r \in receipts' /\ state'[r.hash.tx] = "confirmed"
        /\ \A s \in receipts' : s.hash.tx = r.hash.tx => s = r
    BY DEF Sole
  <2>2. r \in receipts /\ receipts \subseteq receipts' /\ found \subseteq receipts'
    BY <1>2, <2>1 DEF Fetched
  <2>3. found # {} => r.hash.tx # tx
    BY <1>2, <2>1, <2>2 DEF Fetched
  <2>4. state[r.hash.tx] = "confirmed"
    BY <1>2, <2>1, <2>2, <2>3 DEF Fetched, RowInv, Logs, Hashes, FlowInv
  <2> QED
    BY <2>1, <2>2, <2>4 DEF Sole
<1> QED
  BY <1>1, <1>2, Fetching

\* A confirmed transaction keeps what was sent of it.
LEMMA BroadcastStays ==
  ASSUME TxInv, SentInv, [Next]_vars, ~fetchAndSaveReceipts,
         NEW a \in attempts, a.state = "broadcast",
         state[a.hash.tx] = "confirmed", state'[a.hash.tx] = "confirmed"
  PROVE  \E b \in attempts' : b.hash = a.hash /\ b.state = "broadcast"
<1> USE DEF TxInv
<1>0. attempts \subseteq AnyAttempt /\ a.hash.tx \in Txs
  BY DEF AttemptInv, AnyAttempt, AnyHash
<1>1. CASE a \in attempts'
  BY <1>1
<1>2. CASE processUnstartedEthTxs
  <2>1. CASE handleAnswer
    <3>1. bTx \in Txs /\ state[bTx] = "in_progress"
      BY <2>1 DEF handleAnswer, FlowInv, BusySteps
    <3>2. PICK top : top = Highest(bTx)
      OBVIOUS
    <3>3. top # a
      BY <1>0, <3>1, <3>2, HighestIsOne DEF AttemptInv
    <3>4. attempts' = attempts \/ \E b : attempts' = replaced(top, b)
      BY <2>1, <3>2 DEF handleAnswer, saveAttempt, tryAgainBumpingGas
    <3> QED
      BY <1>1, <3>3, <3>4 DEF replaced
  <2>2. CASE saveFatallyErroredTransaction
    <3>1. state[bTx] = "in_progress" /\ attempts' = attempts \ AttemptsOf(bTx)
      BY <2>2 DEF saveFatallyErroredTransaction, FlowInv, BusySteps
    <3> QED
      BY <1>1, <3>1 DEF AttemptsOf
  <2> QED
    BY <1>1, <1>2, <2>1, <2>2 DEF processUnstartedEthTxs, handleAnyInProgressEthTx,
       nextUnstartedTransactionWithNonce, saveInProgressTransaction, handleInProgressEthTx,
       resumeWithError
<1>3. CASE SetBroadcastBeforeBlockNum
  <2> DEFINE f(c) == IF c.state = "broadcast" /\ c.before = None
                     THEN [c EXCEPT !.before = head.number] ELSE c
  <2>1. attempts' = {f(c) : c \in attempts}
    BY <1>3 DEF SetBroadcastBeforeBlockNum
  <2>2. f(a).hash = a.hash /\ f(a).state = a.state
    BY <1>0 DEF AnyAttempt
  <2> HIDE DEF f
  <2> QED
    BY <2>1, <2>2
<1>4. lowest(1, todo) \subseteq todo
  BY DEF lowest
<1>5. ASSUME NEW t \in Unsent, handleInProgressAttempt(t) PROVE a \in attempts'
  <2>1. PICK c : c = CHOOSE b \in AttemptsOf(t) : b.state = "in_progress"
    OBVIOUS
  <2>2. c # a
    BY <2>1 DEF Unsent
  <2>3. \/ attempts' \in {attempts, attempts \ {c}}
        \/ \E b : attempts' = replaced(c, b)
    BY <1>5, <2>1 DEF handleInProgressAttempt
  <2> QED
    BY <2>2, <2>3 DEF replaced
<1>6. CASE RebroadcastWhereNecessary
  <2>1. ASSUME NEW t \in todo, stage = "bump", attemptForRebroadcast(t) PROVE a \in attempts'
    <3>1. CASE AttemptsOf(t) = {}
      BY <2>1, <3>1 DEF attemptForRebroadcast
    <3>2. CASE AttemptsOf(t) # {}
      <4>1. PICK top : top = Highest(t)
        OBVIOUS
      <4>2. state[t] = "unconfirmed" /\ top.hash.tx = t
        BY <1>0, <2>1, <3>2, <4>1, HighestIsOne DEF SentInv, In
      <4>3. \/ \E b : attempts' = replaced(top, b)
            \/ \E b : attempts' = attempts \cup {b}
        BY <2>1, <3>2, <4>1 DEF attemptForRebroadcast
      <4> QED
        BY <4>2, <4>3 DEF replaced
    <3> QED
      BY <3>1, <3>2
  <2>2. \/ UNCHANGED attempts
        \/ \E t \in Unsent : handleInProgressAttempt(t)
        \/ stage = "bump" /\ \E t \in todo : attemptForRebroadcast(t)
    BY <1>4, <1>6 DEF RebroadcastWhereNecessary, AttemptInv
  <2> QED
    BY <1>1, <1>5, <2>1, <2>2
<1>7. CASE EnsureConfirmedTransactionsInLongestChain
  <2>1. ASSUME NEW t \in todo, AttemptsOf(t) # {}, markForRebroadcast(t) PROVE a \in attempts'
    <3>1. PICK top : top = Highest(t)
      OBVIOUS
    <3>2. \/ UNCHANGED attempts
          \/ /\ state' = [state EXCEPT ![t] = "unconfirmed"]
             /\ \E b : attempts' = replaced(top, b)
      BY <2>1, <3>1 DEF markForRebroadcast
    <3>3. top.hash.tx = t
      BY <1>0, <2>1, <3>1, HighestIsOne
    <3> QED
      BY <1>0, <3>2, <3>3 DEF replaced, FlowInv
  <2>2. \/ UNCHANGED attempts
        \/ \E t \in Unsent : handleInProgressAttempt(t)
        \/ \E t \in todo : AttemptsOf(t) # {} /\ markForRebroadcast(t)
    BY <1>4, <1>7 DEF EnsureConfirmedTransactionsInLongestChain, AttemptInv
  <2> QED
    BY <1>1, <1>5, <2>1, <2>2
<1>8. CASE processHead
  BY <1>1, <1>3, <1>6, <1>7, <1>8 DEF processHead, retrieveHead, CheckConfirmedMissingReceipt,
     markAllConfirmedMissingReceipt, markOldTxesMissingReceiptAsErrored,
     findTransactionsConfirmedInBlockRange, ResumePendingTaskRuns
<1> QED
  BY <1>1, <1>2, <1>8 DEF Next, vars, dbVars, networkStep,
     CreateEthTransaction, PruneQueue, OnNewLongestChain, resendUnconfirmed, Restart

\* The confirmer bumps the price of unconfirmed transactions.
LEMMA BumpsUnconfirmed ==
  ASSUME FlowInv, SentInv, [Next]_vars, stage' = "bump"
  PROVE  todo' \subseteq In({"unconfirmed"})'
<1>1. CASE ~processHead
  <2>1. UNCHANGED <<stage, todo>>
    BY <1>1, OthersLeaveConfirmer DEF Restart, giveUp, goTo, Idle
  <2>2. \A tx \in todo : tx \in Txs /\ state[tx] = "unconfirmed"
    BY <2>1 DEF SentInv, In
  <2>3. \A tx \in todo : state'[tx] = "unconfirmed"
    BY <1>1, <2>2, OthersLeaveSent DEF SentStates
  <2> QED
    BY <2>1, <2>2, <2>3 DEF In
<1>2. CASE RebroadcastWhereNecessary
  <2>1. CASE goTo("bump", FindEthTxsRequiringRebroadcast) /\ UNCHANGED state
    BY <2>1 DEF goTo, FindEthTxsRequiringRebroadcast, lowest, In
  <2>2. ASSUME NEW tx \in todo, stage = "bump", handleInProgressAttempt(tx)
        PROVE  todo' \subseteq In({"unconfirmed"})'
    <3>1. \/ todo' = todo \ {tx} /\ \E s : state' = state \/ state' = [state EXCEPT ![tx] = s]
          \/ UNCHANGED <<todo, state>>
          \/ todo' = {}
      BY <2>2 DEF handleInProgressAttempt, goTo, giveUp
    <3>2. todo \subseteq In({"unconfirmed"})
      BY <2>2 DEF SentInv
    <3> QED
      BY <3>1, <3>2 DEF In, FlowInv
  <2>3. ASSUME NEW tx \in todo, stage = "bump", attemptForRebroadcast(tx), UNCHANGED state
        PROVE  todo' \subseteq In({"unconfirmed"})'
    <3>1. todo' \subseteq todo
      BY <2>3 DEF attemptForRebroadcast, goTo, giveUp
    <3> QED
      BY <2>3, <3>1 DEF SentInv, In
  <2>4. ASSUME NEW tx \in todo, stage = "rebroadcast", handleInProgressAttempt(tx)
        PROVE  FALSE
    BY <2>4 DEF handleInProgressAttempt, goTo, giveUp, Idle
  <2>5. lowest(1, todo) \subseteq todo
    BY DEF lowest
  <2> QED
    BY <1>2, <2>1, <2>2, <2>3, <2>4, <2>5 DEF RebroadcastWhereNecessary
<1>3. CASE processHead /\ ~RebroadcastWhereNecessary
  BY <1>3 DEF processHead, retrieveHead, SetBroadcastBeforeBlockNum,
       CheckConfirmedMissingReceipt, fetchAndSaveReceipts, markAllConfirmedMissingReceipt,
       markOldTxesMissingReceiptAsErrored, findTransactionsConfirmedInBlockRange,
       EnsureConfirmedTransactionsInLongestChain, handleInProgressAttempt, markForRebroadcast,
       ResumePendingTaskRuns, goTo, giveUp, Idle
<1> QED
  BY <1>1, <1>2, <1>3

LEMMA SentStep ==
  ASSUME TxInv, RowInv, SentInv, [Next]_vars
  PROVE  SentInv'
<1> USE DEF TxInv
<1>1. stage' = "bump" => todo' \subseteq In({"unconfirmed"})'
  BY BumpsUnconfirmed
<1>2. ASSUME NEW r, Sole(r)'
      PROVE  \E b \in attempts' : b.hash = r.hash /\ b.state = "broadcast"
  <2>1. CASE ~fetchAndSaveReceipts
    <3>1. Sole(r)
      BY <1>2, <2>1, SoleStays
    <3>2. PICK a \in attempts : a.hash = r.hash /\ a.state = "broadcast"
      BY <3>1 DEF SentInv
    <3>3. state[a.hash.tx] = "confirmed" /\ state'[a.hash.tx] = "confirmed"
      BY <1>2, <3>1, <3>2 DEF Sole
    <3> QED
      BY <2>1, <3>2, <3>3, BroadcastStays
  <2>2. CASE fetchAndSaveReceipts
    <3>1. CASE UNCHANGED <<state, attempts, receipts>>
      BY <1>2, <3>1 DEF Sole, SentInv
    <3>2. ASSUME NEW tx \in todo, NEW found \in SUBSET canonical, Fetched(tx, found)
          PROVE  \E b \in attempts' : b.hash = r.hash /\ b.state = "broadcast"
      <4>1. CASE r \in found
        BY <3>2, <4>1 DEF Fetched
      <4>2. CASE r \notin found
        <5>1. /\ r \in receipts' /\ state'[r.hash.tx] = "confirmed"
              /\ \A s \in receipts' : s.hash.tx = r.hash.tx => s = r
          BY <1>2 DEF Sole
        <5>2. r \in receipts /\ receipts \subseteq receipts' /\ found \subseteq receipts'
          BY <3>2, <4>2, <5>1 DEF Fetched
        <5>3. found # {} => r.hash.tx # tx
          BY <3>2, <4>2, <5>1, <5>2 DEF Fetched
        <5>4. state[r.hash.tx] = "confirmed"
          BY <3>2, <5>1, <5>2, <5>3 DEF Fetched, RowInv, Logs, Hashes, FlowInv
        <5>5. Sole(r)
          BY <5>1, <5>2, <5>4 DEF Sole
        <5> QED
          BY <3>2, <5>5 DEF SentInv, Fetched
      <4> QED
        BY <4>1, <4>2
    <3> QED
      BY <2>2, <3>1, <3>2, Fetching
  <2> QED
    BY <2>1, <2>2
<1> QED
  BY <1>1, <1>2 DEF SentInv

-------------------------------------------------------------------------------
(* How far a reorganisation can reach.  A chain that has no reorganisation  *)
(* left but this one gives back no block below the height it could have     *)
(* had, were there none, less the blocks of all of them.                    *)

Deepest == MaxForks * ReorgDepth
Reach == height + fork * ReorgDepth

LEMMA ReachBounds ==
  ASSUME RowInv
  PROVE  /\ Deepest \in Nat /\ Reach \in Nat /\ height \in Nat
         /\ height <= Reach /\ Reach <= height + Deepest
<1>1. fork \in Nat /\ fork <= MaxForks /\ height \in Nat /\ MaxForks \in Nat /\ ReorgDepth \in Nat
  BY ChainAssumption DEF RowInv
<1>2. fork * ReorgDepth <= MaxForks * ReorgDepth /\ fork * ReorgDepth \in Nat
      /\ MaxForks * ReorgDepth \in Nat
  BY <1>1, ProductMonotone
<1> DEFINE p == fork * ReorgDepth
           q == MaxForks * ReorgDepth
<1>3. p <= q /\ p \in Nat /\ q \in Nat /\ Deepest = q /\ Reach = height + p
  BY <1>2 DEF Deepest, Reach
<1> HIDE DEF p, q
<1> QED
  BY <1>1, <1>3

\* One more fork reaches deeper by the depth of a reorganisation.
LEMMA OneMoreFork ==
  ASSUME RowInv, fork < MaxForks
  PROVE  /\ (fork + 1) * ReorgDepth = fork * ReorgDepth + ReorgDepth
         /\ fork * ReorgDepth \in Nat
         /\ fork * ReorgDepth + ReorgDepth <= Deepest
<1>1. fork \in Nat /\ fork + 1 \in Nat /\ fork + 1 <= MaxForks /\ MaxForks \in Nat /\ ReorgDepth \in Nat
  BY ChainAssumption DEF RowInv
<1>2. (fork + 1) * ReorgDepth <= MaxForks * ReorgDepth
  BY <1>1, ProductMonotone
<1>3. (fork + 1) * ReorgDepth = fork * ReorgDepth + ReorgDepth
  BY <1>1
<1>4. fork * ReorgDepth \in Nat
  BY <1>1, ProductNat
<1> QED
  BY <1>2, <1>3, <1>4 DEF Deepest

\* A step takes back, or adds, only blocks that are within reach.
LEMMA ReachGrows ==
  ASSUME RowInv, ChainInv, ensured \in Nat, [Next]_vars
  PROVE  /\ Reach' \in Nat /\ Reach <= Reach'
         /\ height' \in Nat /\ (height' <= height \/ height' <= ensured + MaxGap)
         /\ \A l \in canonical \ canonical' : l.block > Reach - Deepest
         /\ \A l \in canonical' \ canonical : l.block > Reach - Deepest
<1> DEFINE p == fork * ReorgDepth
<1>1. /\ height \in Nat /\ fork \in Nat /\ ReorgDepth \in Nat /\ Deepest \in Nat /\ p \in Nat
      /\ Reach = height + p /\ p <= Deepest
  <2>1. fork \in Nat /\ ReorgDepth \in Nat
    BY ChainAssumption DEF RowInv
  <2>2. p \in Nat
    BY <2>1, ProductNat
  <2>3. Reach = height + p
    BY DEF Reach
  <2> HIDE DEF p
  <2> QED
    BY <2>1, <2>2, <2>3, ReachBounds
<1>2. CASE UNCHANGED <<height, canonical, fork>>
  BY <1>1, <1>2, ReachBounds DEF Reach
<1>3. ASSUME NEW logs, extend(logs), KeepsUp, \A l \in logs : l.block = height + 1
      PROVE  /\ Reach' \in Nat /\ Reach <= Reach'
             /\ height' \in Nat /\ (height' <= height \/ height' <= ensured + MaxGap)
             /\ \A l \in canonical \ canonical' : l.block > Reach - Deepest
             /\ \A l \in canonical' \ canonical : l.block > Reach - Deepest
  <2>1. Reach' = height' + p /\ height' = height + 1 /\ canonical' = canonical \cup logs
    BY <1>3 DEF extend, Reach
  <2>2. Reach' \in Nat /\ Reach <= Reach' /\ height' \in Nat
    BY <1>1, <2>1
  <2>3. height' <= ensured + MaxGap
    <3>1. MaxGap \in Nat
      BY TxManagerAssumption
    <3> QED
      BY <1>1, <1>3, <2>1, <3>1 DEF KeepsUp
  <2>4. \A l \in logs : l.block > Reach - Deepest
    BY <1>1, <1>3
  <2> QED
    BY <2>1, <2>2, <2>3, <2>4
<1>4. ASSUME NEW depth \in 1..ReorgDepth, Reorg(depth)
      PROVE  /\ Reach' \in Nat /\ Reach <= Reach'
             /\ height' \in Nat /\ (height' <= height \/ height' <= ensured + MaxGap)
             /\ \A l \in canonical \ canonical' : l.block > Reach - Deepest
             /\ \A l \in canonical' \ canonical : l.block > Reach - Deepest
  <2>1. /\ fork < MaxForks /\ depth <= height /\ height' = height - depth
        /\ fork' = fork + 1 /\ canonical' = canonical \ TakenBack(depth)
    BY <1>4 DEF Reorg
  <2>2. (fork + 1) * ReorgDepth = p + ReorgDepth /\ p + ReorgDepth <= Deepest
    BY <2>1, OneMoreFork
  <2>3. Reach' = height - depth + (p + ReorgDepth)
    BY <2>1, <2>2 DEF Reach
  <2> HIDE DEF p
  <2>4. Reach' \in Nat /\ Reach <= Reach' /\ height' \in Nat /\ height' <= height
    BY <1>1, <2>1, <2>3
  <2>5. \A l \in TakenBack(depth) : l.block > Reach - Deepest
    BY <1>1, <2>2 DEF TakenBack, ChainInv
  <2> QED
    BY <2>1, <2>4, <2>5
<1>5. ~UNCHANGED <<height, canonical, fork>> =>
        \/ \E logs : extend(logs) /\ KeepsUp /\ \A l \in logs : l.block = height + 1
        \/ \E depth \in 1..ReorgDepth : Reorg(depth)
  <2>1. CASE networkStep
    <3>1. CASE Mine
      <4>1. CASE extend({})
        BY <3>1, <4>1 DEF Mine
      <4>2. ASSUME NEW h \in mempool, extend({[hash |-> h, block |-> height + 1, fork |-> fork]})
            PROVE  \E logs : extend(logs) /\ \A l \in logs : l.block = height + 1
        <5> DEFINE l == [hash |-> h, block |-> height + 1, fork |-> fork]
        <5>1. extend({l}) /\ l.block = height + 1
          BY <4>2
        <5> HIDE DEF l
        <5> QED
          BY <5>1
      <4> QED
        BY <3>1, <4>1, <4>2 DEF Mine
    <3> QED
      BY <2>1, <3>1 DEF networkStep, chainVars
  <2> QED
    BY <2>1, ChainChanges
<1> QED
  BY <1>2, <1>3, <1>4, <1>5

\* Once the confirmer looks for lost receipts, each of a block up to the head is
\* in the head, or still to be taken back.
RoundInv ==
  /\ IsFiniteSet(receipts)
  /\ stage \in {"ensure", "again", "resume"} =>
       \A r : Sole(r) /\ r.block <= head.number =>
         r \in head.logs \/ (stage = "ensure" /\ r.hash.tx \in todo)

\* Everything that can be lost is newer than the depth that is made sure of: the
\* receipts that left the chain were there at the last head, or left it since.
Within(e, g) ==
  /\ ensured <= e /\ e <= g /\ g <= Reach
  /\ height <= e + MaxGap /\ head.number <= e + MaxGap /\ head.number <= g
  /\ \A r : Sole(r) /\ r \notin canonical => r.block > e - Deepest
  /\ stage # Idle =>
       /\ g <= head.number + Deepest
       /\ \A l \in head.logs : l \notin canonical => l.block > g - Deepest
       /\ \A l \in canonical : l \notin head.logs => l.block > head.number \/ l.block > g - Deepest

DepthInv == ensured \in Nat /\ \E e, g \in Nat : Within(e, g)

\* A receipt that is lost is found by the query of the last FinalityDepth blocks.
LEMMA LostIsInRange ==
  ASSUME TxInv, RowInv, SentInv, DepthInv, stage # Idle,
         NEW r, Sole(r), r.block <= head.number, r \notin head.logs
  PROVE  /\ r.hash.tx \in ConfirmedInBlockRange
         /\ \A s \in ReceiptsOf(r.hash.tx) : ~InLongestChain(s)
<1>1. PICK e, g \in Nat : Within(e, g)
  BY DEF DepthInv
<1>2. r.block \in Nat /\ r.hash.tx \in Txs
  BY DEF Sole, RowInv, Logs, Hashes
<1>3. r.block > e - Deepest
  BY <1>1, <1>2, ReachBounds DEF Within, TxInv, HeadInv
<1>4. /\ FinalityDepth \in Nat /\ MaxGap \in Nat /\ Deepest \in Nat
      /\ MaxGap + Deepest <= FinalityDepth
  BY TxManagerAssumption, ReachBounds DEF Deepest
<1>5. r.block \in head.number - FinalityDepth + 1..head.number
  BY <1>1, <1>2, <1>3, <1>4 DEF Within, TxInv, HeadInv
<1>6. PICK a \in attempts : a.hash = r.hash /\ a.state = "broadcast"
  BY DEF SentInv
<1>7. a \in AttemptsOf(r.hash.tx) /\ r \in ReceiptsOf(r.hash.tx)
  BY <1>6 DEF AttemptsOf, ReceiptsOf, Sole
<1>8. r.hash.tx \in ConfirmedInBlockRange
  BY <1>2, <1>5, <1>6, <1>7 DEF ConfirmedInBlockRange, In, Sole
<1>9. \A s \in ReceiptsOf(r.hash.tx) : s = r
  BY DEF Sole, ReceiptsOf
<1> QED
  BY <1>8, <1>9 DEF InLongestChain

LEMMA ReceiptsFinite ==
  ASSUME TxInv, IsFiniteSet(receipts), [Next]_vars
  PROVE  IsFiniteSet(receipts')
<1> USE DEF TxInv
<1>1. CASE ~fetchAndSaveReceipts
  BY <1>1, ReceiptsGo, FS_Subset
<1>2. CASE UNCHANGED receipts
  BY <1>2
<1>3. ASSUME NEW tx, NEW found \in SUBSET canonical, Fetched(tx, found)
      PROVE  IsFiniteSet(receipts')
  BY <1>3, FS_Subset, FS_Union DEF Fetched, ChainInv
<1> QED
  BY <1>1, <1>2, <1>3, Fetching

\* The round of the confirmer at its last stages.
LEMMA RoundStep ==
  ASSUME TxInv, RowInv, SentInv, DepthInv, RoundInv, [Next]_vars
  PROVE  RoundInv'
<1> USE DEF TxInv
<1>1. IsFiniteSet(receipts')
  BY ReceiptsFinite DEF RoundInv
<1>2. SUFFICES ASSUME stage' \in {"ensure", "again", "resume"},
                      NEW r, Sole(r)', r.block <= head'.number
               PROVE  r \in head'.logs \/ (stage' = "ensure" /\ r.hash.tx \in todo')
  BY <1>1 DEF RoundInv
<1>3. ~fetchAndSaveReceipts /\ ~Restart /\ ~retrieveHead
  BY <1>2 DEF fetchAndSaveReceipts, Restart, retrieveHead, goTo, giveUp, Idle
<1>4. Sole(r) /\ UNCHANGED head
  BY <1>2, <1>3, SoleStays, HeadMoves
<1>5. CASE ~processHead
  BY <1>2, <1>3, <1>4, <1>5, OthersLeaveConfirmer DEF RoundInv
<1>6. CASE findTransactionsConfirmedInBlockRange
  <2>1. /\ stage = "bump" /\ stage' = "ensure"
        /\ todo' = {tx \in ConfirmedInBlockRange : \A s \in ReceiptsOf(tx) : ~InLongestChain(s)}
    BY <1>6 DEF findTransactionsConfirmedInBlockRange, goTo
  <2>2. CASE r \notin head.logs
    BY <1>2, <1>4, <2>1, <2>2, LostIsInRange DEF Idle
  <2> QED
    BY <1>4, <2>2
<1>7. CASE EnsureConfirmedTransactionsInLongestChain
  <2>1. ASSUME NEW tx \in todo, stage = "ensure", markForRebroadcast(tx)
        PROVE  r \in head'.logs \/ (stage' = "ensure" /\ r.hash.tx \in todo')
    <3>1. /\ receipts' = receipts \ ReceiptsOf(tx) /\ stage' = stage /\ todo' = todo \ {tx}
      BY <1>2, <2>1 DEF markForRebroadcast, giveUp, goTo, Idle
    <3>2. r.hash.tx # tx
      BY <1>2, <3>1 DEF Sole, ReceiptsOf
    <3> QED
      BY <1>2, <1>4, <2>1, <3>1, <3>2 DEF RoundInv
  <2>2. ASSUME stage = "ensure", todo = {}
        PROVE  r \in head.logs
    BY <1>2, <1>4, <2>2 DEF RoundInv
  <2>3. ASSUME stage = "again"
        PROVE  r \in head.logs
    BY <1>2, <1>4, <2>3 DEF RoundInv
  <2>4. lowest(1, todo) \subseteq todo
    BY DEF lowest
  <2>5. /\ head' = head
        /\ \/ stage = "ensure" /\ \E tx \in todo : markForRebroadcast(tx)
           \/ stage = "ensure" /\ todo = {}
           \/ stage = "again"
    BY <1>7, <2>4 DEF EnsureConfirmedTransactionsInLongestChain
  <2> QED
    BY <2>1, <2>2, <2>3, <2>5
<1>8. CASE ResumePendingTaskRuns
  BY <1>2, <1>4, <1>8 DEF RoundInv, ResumePendingTaskRuns
<1>9. CASE RebroadcastWhereNecessary
  BY <1>2, <1>9 DEF RebroadcastWhereNecessary, handleInProgressAttempt, attemptForRebroadcast,
     goTo, giveUp, Idle
<1>10. CASE \/ SetBroadcastBeforeBlockNum \/ CheckConfirmedMissingReceipt
            \/ markAllConfirmedMissingReceipt \/ markOldTxesMissingReceiptAsErrored
  BY <1>2, <1>10 DEF SetBroadcastBeforeBlockNum, CheckConfirmedMissingReceipt,
     markAllConfirmedMissingReceipt, markOldTxesMissingReceiptAsErrored, goTo, giveUp, Idle
<1> QED
  BY <1>3, <1>5, <1>6, <1>7, <1>8, <1>9, <1>10 DEF processHead

\* Work on a head starts when the head is taken, and what it made sure of is
\* written down when no receipt is left to be taken back.
LEMMA RoundsStart ==
  ASSUME FlowInv, [Next]_vars
  PROVE  /\ stage = Idle => stage' = Idle \/ retrieveHead
         /\ \/ UNCHANGED ensured
            \/ stage = "ensure" /\ todo = {} /\ ensured' = head.number
<1>1. CASE ~processHead
  <2>1. CASE Restart
    BY <2>1 DEF Restart, giveUp, goTo
  <2> QED
    BY <1>1, <2>1, OthersLeaveConfirmer
<1>2. CASE processHead
  <2>1. ASSUME stage = Idle PROVE retrieveHead
    BY <1>2, <2>1 DEF processHead, SetBroadcastBeforeBlockNum, CheckConfirmedMissingReceipt,
       fetchAndSaveReceipts, markAllConfirmedMissingReceipt, markOldTxesMissingReceiptAsErrored,
       RebroadcastWhereNecessary, findTransactionsConfirmedInBlockRange,
       EnsureConfirmedTransactionsInLongestChain, ResumePendingTaskRuns, Idle
  <2>2. \/ UNCHANGED ensured
        \/ stage = "ensure" /\ todo = {} /\ ensured' = head.number
    BY <1>2 DEF processHead, retrieveHead, SetBroadcastBeforeBlockNum,
       CheckConfirmedMissingReceipt,
       fetchAndSaveReceipts, markAllConfirmedMissingReceipt, markOldTxesMissingReceiptAsErrored,
       RebroadcastWhereNecessary, findTransactionsConfirmedInBlockRange,
       EnsureConfirmedTransactionsInLongestChain, ResumePendingTaskRuns
  <2> QED
    BY <2>1, <2>2
<1> QED
  BY <1>1, <1>2

\* A receipt that is new, or no longer on the chain, is of a block in reach.
LEMMA SoleInReach ==
  ASSUME TxInv, RowInv, ensured \in Nat, [Next]_vars,
         NEW e \in Nat, NEW g \in Nat, Within(e, g), NEW r, Sole(r)', r \notin canonical'
  PROVE  r.block > e - Deepest
<1> USE DEF TxInv
<1>1. CASE r \in canonical
  <2>1. r.block > Reach - Deepest /\ r.block \in Nat
    BY <1>1, ReachGrows DEF ChainInv
  <2> QED
    BY <2>1, ReachBounds DEF Within
<1>2. CASE r \notin canonical
  <2>1. Sole(r)
    BY <1>2, SoleStays, SoleFetched
  <2> QED
    BY <1>2, <2>1 DEF Within
<1> QED
  BY <1>1, <1>2

\* Within the same bounds as long as no head is taken.
LEMMA StaysWithin ==
  ASSUME TxInv, RowInv, ensured \in Nat, [Next]_vars, UNCHANGED head,
         stage' # Idle => stage # Idle,
         NEW e \in Nat, NEW g \in Nat, Within(e, g), ensured' <= e
  PROVE  Within(e, g)'
<1> USE DEF TxInv
<1>1. /\ Reach \in Nat /\ Reach' \in Nat /\ Reach <= Reach' /\ height \in Nat /\ height' \in Nat
      /\ MaxGap \in Nat /\ Deepest \in Nat /\ head.number \in Nat
  BY ReachGrows, ReachBounds, TxManagerAssumption DEF HeadInv
<1>2. height' <= e + MaxGap
  <2>1. height' <= height \/ height' <= ensured + MaxGap
    BY ReachGrows
  <2> QED
    BY <1>1, <2>1 DEF Within
<1>3. g <= Reach'
  BY <1>1 DEF Within
<1>4. \A r : Sole(r)' /\ r \notin canonical' => r.block > e - Deepest
  BY SoleInReach
<1>5. ASSUME stage' # Idle
      PROVE  /\ \A l \in head.logs : l \notin canonical' => l.block > g - Deepest
             /\ \A l \in canonical' : l \notin head.logs =>
                  l.block > head.number \/ l.block > g - Deepest
  <2>1. /\ \A l \in head.logs : l \notin canonical => l.block > g - Deepest
        /\ \A l \in canonical : l \notin head.logs => l.block > head.number \/ l.block > g - Deepest
    BY <1>5 DEF Within
  <2>2. \A l : l \in canonical \cup canonical' => l.block \in Nat
    BY BlocksKeep DEF RowInv, Logs
  <2>3. \A l : (l \in canonical) # (l \in canonical') => l.block > g - Deepest
    <3> SUFFICES ASSUME NEW l, (l \in canonical) # (l \in canonical') PROVE l.block > g - Deepest
      OBVIOUS
    <3>1. l.block > Reach - Deepest /\ l.block \in Nat
      BY <2>2, ReachGrows
    <3> QED
      BY <1>1, <3>1 DEF Within
  <2> QED
    BY <2>1, <2>3
<1>6. /\ ensured' <= e /\ e <= g /\ head'.number <= e + MaxGap /\ head'.number <= g
      /\ Deepest' = Deepest /\ MaxGap' = MaxGap
      /\ stage' # Idle => g <= head'.number + Deepest
  BY DEF Within, Deepest
<1> QED
  BY <1>2, <1>3, <1>4, <1>5, <1>6 DEF Within

LEMMA DepthStep ==
  ASSUME TxInv, RowInv, SentInv, DepthInv, RoundInv, [Next]_vars
  PROVE  DepthInv'
<1> USE DEF TxInv
<1>1. PICK e, g \in Nat : Within(e, g)
  BY DEF DepthInv
<1>2. /\ Reach \in Nat /\ height \in Nat /\ height <= Reach /\ Reach <= height + Deepest
      /\ MaxGap \in Nat /\ Deepest \in Nat /\ head.number \in Nat /\ ensured \in Nat
  BY ReachBounds, TxManagerAssumption DEF HeadInv, DepthInv
<1>3. CASE retrieveHead
  <2>1. /\ head' = [number |-> height, logs |-> canonical] /\ UNCHANGED <<ensured, chainVars>>
        /\ UNCHANGED <<receipts, state>> /\ stage' # Idle
    BY <1>3 DEF retrieveHead, goTo, besideConfirmer, Idle
  <2>2. Reach' = Reach /\ Deepest' = Deepest
    BY <2>1 DEF Reach, Deepest, chainVars
  <2>3. UNCHANGED <<height, canonical>> /\ head'.number = height /\ head'.logs = canonical
    BY <2>1 DEF chainVars
  <2>4. \A r : Sole(r)' => Sole(r)
    BY <2>1 DEF Sole
  <2>5. Within(e, Reach)'
    BY <1>1, <1>2, <2>1, <2>2, <2>3, <2>4 DEF Within
  <2> QED
    BY <1>2, <2>1, <2>2, <2>5 DEF DepthInv
<1>4. CASE Restart
  <2>1. /\ head' = [number |-> 0, logs |-> {}] /\ UNCHANGED <<ensured, chainVars>>
        /\ UNCHANGED <<receipts, state>> /\ stage' = Idle
    BY <1>4 DEF Restart, giveUp, goTo
  <2>2. Reach' = Reach /\ Deepest' = Deepest /\ UNCHANGED <<height, canonical>>
    BY <2>1 DEF Reach, Deepest, chainVars
  <2>3. \A r : Sole(r)' => Sole(r)
    BY <2>1 DEF Sole
  <2>4. head'.number = 0
    BY <2>1
  <2>5. Within(e, e)'
    BY <1>1, <1>2, <2>1, <2>2, <2>3, <2>4 DEF Within
  <2> QED
    BY <1>2, <2>1, <2>5 DEF DepthInv
<1>5. CASE stage = "ensure" /\ todo = {} /\ ensured' = head.number /\ ~retrieveHead /\ ~Restart
  <2>1. UNCHANGED head
    BY <1>5, HeadMoves
  <2>2. ASSUME NEW r, Sole(r), r \notin canonical
        PROVE  r.block > g - Deepest
    <3>1. r.block \in Nat
      BY <2>2 DEF Sole, RowInv, Logs
    <3>2. CASE r.block <= head.number
      BY <1>1, <1>5, <2>2, <3>2 DEF RoundInv, Within, Idle
    <3>3. CASE r.block > head.number
      BY <1>1, <1>2, <1>5, <3>1, <3>3 DEF Within, Idle
    <3> QED
      BY <1>2, <3>1, <3>2, <3>3
  <2>3. Within(g, g)
    BY <1>1, <1>2, <1>5, <2>2 DEF Within
  <2>4. ensured' <= g /\ ensured' \in Nat /\ stage # Idle
    BY <1>1, <1>2, <1>5 DEF Within, Idle
  <2>5. Within(g, g)'
    BY <1>2, <2>1, <2>3, <2>4, StaysWithin
  <2> QED
    BY <2>4, <2>5 DEF DepthInv
<1>6. CASE UNCHANGED ensured /\ ~retrieveHead /\ ~Restart
  <2>1. UNCHANGED head /\ (stage' # Idle => stage # Idle) /\ ensured' <= e
    BY <1>1, <1>6, HeadMoves, RoundsStart DEF Within
  <2>2. Within(e, g)'
    BY <1>1, <1>2, <1>6, <2>1, StaysWithin
  <2> QED
    BY <1>2, <1>6, <2>2 DEF DepthInv
<1> QED
  BY <1>3, <1>4, <1>5, <1>6, RoundsStart

\* Only ResumePendingTaskRuns gives a job the receipt.
LEMMA ReceiptsAreTold ==
  ASSUME [Next]_vars, NEW tx, result \in [Txs -> {"none", "receipt", "error"}], tx \in Txs,
         result[tx] = "none", result'[tx] = "receipt"
  PROVE  ResumePendingTaskRuns /\ Resumable(tx) # {}
<1>1. ~UNCHANGED result
  OBVIOUS
<1>2. CASE processUnstartedEthTxs
  <2>1. ~resumeWithError
    BY DEF resumeWithError
  <2> QED
    BY <1>1, <1>2, <2>1 DEF processUnstartedEthTxs, handleAnyInProgressEthTx,
       nextUnstartedTransactionWithNonce, saveInProgressTransaction, handleInProgressEthTx,
       handleAnswer, saveFatallyErroredTransaction
<1>3. CASE processHead
  <2>1. ResumePendingTaskRuns
    BY <1>1, <1>3 DEF processHead, retrieveHead, SetBroadcastBeforeBlockNum,
       CheckConfirmedMissingReceipt,
       fetchAndSaveReceipts, markAllConfirmedMissingReceipt, markOldTxesMissingReceiptAsErrored,
       RebroadcastWhereNecessary, findTransactionsConfirmedInBlockRange,
       EnsureConfirmedTransactionsInLongestChain
  <2> QED
    BY <2>1 DEF ResumePendingTaskRuns
<1>4. CASE \/ UNCHANGED vars \/ networkStep \/ OnNewLongestChain \/ resendUnconfirmed \/ Restart
           \/ \E t \in Txs : CreateEthTransaction(t) \/ PruneQueue(t)
  BY <1>1, <1>4 DEF vars, networkStep, OnNewLongestChain, resendUnconfirmed, Restart,
     CreateEthTransaction, PruneQueue
<1> QED
  BY <1>2, <1>3, <1>4 DEF Next

LEMMA DepthInit == Init => RoundInv /\ DepthInv /\ SentInv
<1> SUFFICES ASSUME Init PROVE RoundInv /\ DepthInv /\ SentInv
  OBVIOUS
<1>1. receipts = {} /\ stage = Idle /\ head.number = 0 /\ height = 0 /\ ensured = 0 /\ fork = 0
  BY DEF Init, ChainInit
<1>2. \A r : ~Sole(r)
  BY <1>1 DEF Sole
<1>3. 0 * ReorgDepth = 0
  BY ProductNat, ChainAssumption
<1>4. Reach = 0 /\ MaxGap \in Nat
  BY <1>1, <1>3, TxManagerAssumption DEF Reach
<1>5. Within(0, 0)
  BY <1>1, <1>2, <1>4 DEF Within
<1> QED
  BY <1>1, <1>2, <1>5, FS_EmptySet DEF RoundInv, DepthInv, SentInv, Idle

\* A job whose transaction is confirmed by its one receipt is told of a receipt
\* that the head holds, deep enough: however many reorganisations of whatever
\* depth there were, and wherever the node was stopped, a receipt that one of them
\* took back is found again by the query of the last FinalityDepth blocks, and
\* taken back before a job is told, as long as the heads the confirmer misses and
\* the blocks that are taken back make no more than FinalityDepth.
THEOREM ToldOfTheChain == Spec => ResumesOnChain
<1>1. TxInv /\ RowInv /\ SentInv /\ RoundInv /\ DepthInv /\ [Next]_vars
        => SentInv' /\ RoundInv' /\ DepthInv'
  BY SentStep, RoundStep, DepthStep
<1>2. ASSUME TxInv, RowInv, RoundInv, [Next]_vars,
             NEW tx \in In({"confirmed"}), result[tx] = "none", result'[tx] = "receipt",
             Cardinality(ReceiptsOf(tx)) = 1
      PROVE  \E l \in head.logs : l.hash.tx = tx /\ l.block <= head.number - MinConfirmations
  <2>1. ResumePendingTaskRuns /\ Resumable(tx) # {}
    BY <1>2, ReceiptsAreTold DEF In, RowInv
  <2>2. PICK r \in ReceiptsOf(tx) : r.block <= head.number - MinConfirmations
    BY <2>1 DEF Resumable
  <2>3. \A s \in ReceiptsOf(tx) : s = r
    <3>1. IsFiniteSet(ReceiptsOf(tx))
      BY <1>2, FS_Subset DEF RoundInv, ReceiptsOf
    <3>2. \E s : ReceiptsOf(tx) = {s}
      BY <1>2, <3>1, FS_Singleton
    <3> QED
      BY <3>2
  <2>4. Sole(r) /\ r.hash.tx = tx
    BY <1>2, <2>2, <2>3 DEF Sole, ReceiptsOf, In
  <2>5. r.block <= head.number
    <3>1. r.block \in Nat /\ head.number \in Nat /\ MinConfirmations \in Nat
      BY <1>2, <2>4, TxManagerAssumption DEF Sole, RowInv, Logs, TxInv, HeadInv
    <3> QED
      BY <2>2, <3>1
  <2>6. r \in head.logs
    BY <1>2, <2>1, <2>4, <2>5 DEF RoundInv, ResumePendingTaskRuns
  <2> QED
    BY <2>2, <2>4, <2>6
<1>3. TxInv /\ RowInv /\ RoundInv /\ [Next]_vars
        => [\A tx \in In({"confirmed"}) :
              result[tx] = "none" /\ result'[tx] = "receipt" /\ Cardinality(ReceiptsOf(tx)) = 1 =>
                \E l \in head.logs : l.hash.tx = tx /\ l.block <= head.number - MinConfirmations]_vars
  BY <1>2
<1> QED
  BY <1>1, <1>3, DepthInit, TxInvariant, RowInvariant, PTL DEF Spec, ResumesOnChain
==============================================================================
