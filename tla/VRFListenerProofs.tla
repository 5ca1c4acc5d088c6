-------------------------- MODULE VRFListenerProofs ---------------------------
(***************************************************************************)
(* The job of the oracle node for every number of requests, blocks, forks, *)
(* restarts and replays, with every fault: no request is run twice, and    *)
(* each variable keeps its type; without faults of the database and of the *)
(* mailbox, no request is out of reach of a redelivery.                    *)
(***************************************************************************)
EXTENDS VRFListener, NumberTheorems, SequenceTheorems

\* What was run is consumed, and what the head goroutine is about to run is
\* not: no other goroutine consumes a request.
RunInv ==
  /\ runs \in [RequestLogs -> Nat]
  /\ \A l \in RequestLogs : runs[l] <= 1 /\ (runs[l] > 0 => l \in consumed)
  /\ step \in {"callback", "run"} /\ request.log \in RequestLogs => request.log \notin consumed

\* Steps that start no run and consume nothing the head goroutine is about to.
LEMMA NoneStarted ==
  ASSUME RunInv, runs' = runs, consumed \subseteq consumed',
         \/ step' \notin {"callback", "run"}
         \/ /\ step' = step /\ toProcess' = toProcess
            /\ \A l \in consumed' \ consumed : l \notin RequestLogs
  PROVE  RunInv'
BY DEF RunInv, request

LEMMA RunInit == Init => RunInv
BY DEF Init, RunInv, Idle

\* The log goroutine consumes fulfilments only.
LEMMA LogsHandled ==
  ASSUME RunInv, handleLog
  PROVE  RunInv'
<1>1. runs' = runs /\ step' = step /\ toProcess' = toProcess
  BY DEF handleLog, workVars
<1>2. CASE UNCHANGED consumed
  BY <1>1, <1>2, NoneStarted
<1>3. CASE Head(mailbox).kind = "fulfilled" /\ countFulfilment(Head(mailbox))
  <2>1. Head(mailbox) \notin RequestLogs
    BY <1>3 DEF RequestLogs, LogsOf
  <2>2. consumed' \in {consumed, consumed \cup {Head(mailbox)}}
    BY <1>3 DEF countFulfilment, markConsumed
  <2> QED
    BY <1>1, <2>1, <2>2, NoneStarted
<1> QED
  BY <1>2, <1>3 DEF handleLog

LEMMA HeadsHandled ==
  ASSUME RunInv, runHeadListener
  PROVE  RunInv'
<1>1. CASE extractConfirmedLogs
  BY <1>1, NoneStarted DEF extractConfirmedLogs, dbVars
<1>2. CASE checkConsumed
  <2>1. CASE request.log \notin consumed /\ goOn("callback")
    BY <1>2, <2>1 DEF checkConsumed, goOn, dbVars, RunInv, request
  <2>2. CASE processed(TRUE)
    BY <1>2, <2>2, NoneStarted DEF checkConsumed, processed, dbVars
  <2> QED
    BY <1>2, <2>1, <2>2 DEF checkConsumed
<1>3. CASE checkFulfilled
  <2>1. CASE step = "callback" /\ goOn("run") /\ UNCHANGED <<consumed, runs>>
    BY <2>1 DEF goOn, RunInv, request
  <2>2. CASE markConsumed(request.log) /\ processed(TRUE) /\ UNCHANGED runs
    BY <2>2, NoneStarted DEF markConsumed, processed
  <2> QED
    BY <1>3, <2>1, <2>2 DEF checkFulfilled
<1>4. CASE startRun
  <2>1. CASE /\ step = "run" /\ step' = "tasks"
             /\ consumed' = consumed \cup {request.log}
             /\ runs' = [runs EXCEPT ![request.log] = @ + 1]
    <3>1. ASSUME NEW l \in RequestLogs, l # request.log
          PROVE  runs'[l] = runs[l] /\ (l \in consumed => l \in consumed')
      BY <2>1, <3>1 DEF RunInv
    <3>2. CASE request.log \in RequestLogs
      <4>1. runs[request.log] = 0
        BY <2>1, <3>2 DEF RunInv
      <4>2. runs'[request.log] = 1 /\ request.log \in consumed'
        BY <2>1, <3>2, <4>1 DEF RunInv
      <4>3. runs' \in [RequestLogs -> Nat]
        <5>1. runs \in [RequestLogs -> Nat]
          BY DEF RunInv
        <5>2. runs' = [runs EXCEPT ![request.log] = 1]
          BY <2>1, <4>1
        <5> QED
          BY <5>1, <5>2
      <4>4. \A l \in RequestLogs : runs'[l] <= 1 /\ (runs'[l] > 0 => l \in consumed')
        BY <3>1, <4>2 DEF RunInv
      <4> QED
        BY <2>1, <4>3, <4>4 DEF RunInv
    <3>3. CASE request.log \notin RequestLogs
      BY <2>1, <3>1, <3>3 DEF RunInv
    <3> QED
      BY <3>2, <3>3
  <2>2. CASE processed(FALSE) /\ UNCHANGED dbVars
    BY <2>2, NoneStarted DEF processed, dbVars
  <2> QED
    BY <1>4, <2>1, <2>2 DEF startRun, goOn
<1>5. CASE finishRun
  BY <1>5, NoneStarted DEF finishRun, processed
<1>6. CASE keepForRetry
  BY <1>6, NoneStarted DEF keepForRetry, Idle, dbVars
<1> QED
  BY <1>1, <1>2, <1>3, <1>4, <1>5, <1>6 DEF runHeadListener

LEMMA RunStep == RunInv /\ [Next]_vars => RunInv'
<1> SUFFICES ASSUME RunInv, [Next]_vars PROVE RunInv'
  OBVIOUS
<1>1. CASE ChainStep
  BY <1>1, NoneStarted DEF ChainStep, dbVars, workVars
<1>2. ASSUME NEW l \in mined, HandleLog(l) PROVE RunInv'
  BY <1>2, NoneStarted DEF HandleLog, dbVars, workVars
<1>3. CASE ReplayStartedCallback \/ OnNewLongestChain
  BY <1>3, NoneStarted DEF ReplayStartedCallback, OnNewLongestChain, dbVars, workVars
<1>4. ASSUME NEW l \in resuming, ResumeRun(l) PROVE RunInv'
  BY <1>4, NoneStarted DEF ResumeRun
<1>5. CASE Restart
  BY <1>5, NoneStarted DEF Restart, Idle, dbVars
<1>6. CASE UNCHANGED vars
  BY <1>6, NoneStarted DEF vars, dbVars, workVars
<1> QED
  BY <1>1, <1>2, <1>3, <1>4, <1>5, <1>6, LogsHandled, HeadsHandled DEF Next

(***************************************************************************)
(* RunsOnce: however often a request is delivered, whatever fails and      *)
(* whenever the node stops, one run at most is started for it.             *)
(***************************************************************************)
THEOREM RequestsRunOnce == Spec => []RunsOnce
<1>1. RunInv => RunsOnce
  BY DEF RunInv, RunsOnce
<1> QED
  BY <1>1, RunInit, RunStep, PTL DEF Spec

-------------------------------------------------------------------------------
(* What a list holds *)

LEMMA Appended ==
  ASSUME NEW S, NEW s \in Seq(S), NEW e
  PROVE  /\ ToSet(Append(s, e)) = ToSet(s) \cup {e}
         /\ Len(Append(s, e)) = Len(s) + 1 /\ Append(s, e) # <<>>
         /\ e \in S => Append(s, e) \in Seq(S)
<1>1. /\ Len(s) \in Nat /\ DOMAIN s = 1..Len(s)
      /\ DOMAIN Append(s, e) = 1..Len(s) + 1 /\ Len(Append(s, e)) = Len(s) + 1
      /\ Append(s, e)[Len(s) + 1] = e
      /\ \A i \in 1..Len(s) : Append(s, e)[i] = s[i]
  OBVIOUS
<1>2. \A i \in 1..Len(s) + 1 : i \in 1..Len(s) \/ i = Len(s) + 1
  BY <1>1
<1>3. ToSet(Append(s, e)) = ToSet(s) \cup {e}
  BY <1>1, <1>2 DEF ToSet
<1> QED
  BY <1>1, <1>3

LEMMA HeadRemoved ==
  ASSUME NEW S, NEW s \in Seq(S), s # <<>>
  PROVE  /\ ToSet(s) = ToSet(Tail(s)) \cup {Head(s)}
         /\ Head(s) \in S /\ Tail(s) \in Seq(S) /\ Len(Tail(s)) = Len(s) - 1
<1>1. /\ Head(s) \in S /\ Tail(s) \in Seq(S) /\ Len(Tail(s)) = Len(s) - 1
      /\ \A i \in 1..Len(Tail(s)) : Tail(s)[i] = s[i + 1]
  BY HeadTailProperties
<1>2. /\ Len(s) \in Nat /\ Len(s) > 0 /\ DOMAIN s = 1..Len(s) /\ DOMAIN Tail(s) = 1..Len(s) - 1
      /\ Head(s) = s[1]
  OBVIOUS
<1>3. \A i \in 1..Len(s) : i = 1 \/ (i - 1 \in 1..Len(s) - 1 /\ (i - 1) + 1 = i)
  BY <1>2
<1>4. \A i \in 1..Len(s) - 1 : i + 1 \in 1..Len(s)
  BY <1>2
<1>5. ToSet(s) \subseteq ToSet(Tail(s)) \cup {Head(s)}
  <2> DEFINE t == Tail(s)
             n == Len(s)
  <2>1. /\ DOMAIN s = 1..n /\ DOMAIN t = 1..n - 1 /\ Head(s) = s[1]
        /\ \A i \in 1..n - 1 : t[i] = s[i + 1]
    BY <1>1, <1>2
  <2> HIDE DEF t, n
  <2>2. \A i \in 1..n : i = 1 \/ \E k \in 1..n - 1 : s[i] = t[k]
    BY <1>3, <2>1 DEF n
  <2>3. ASSUME NEW e \in ToSet(s) PROVE e \in ToSet(t) \cup {Head(s)}
    <3>1. PICK i \in 1..n : e = s[i]
      BY <2>1 DEF ToSet
    <3>2. CASE i = 1
      BY <2>1, <3>1, <3>2
    <3>3. CASE \E k \in 1..n - 1 : s[i] = t[k]
      BY <2>1, <3>1, <3>3 DEF ToSet
    <3> QED
      BY <2>2, <3>2, <3>3
  <2> QED
    BY <2>3 DEF t
<1>6. ToSet(Tail(s)) \cup {Head(s)} \subseteq ToSet(s)
  <2>1. 1 \in DOMAIN s
    BY <1>2
  <2> QED
    BY <1>1, <1>2, <1>4, <2>1 DEF ToSet
<1> QED
  BY <1>1, <1>5, <1>6

LEMMA Joined ==
  ASSUME NEW S, NEW s \in Seq(S), NEW t \in Seq(S)
  PROVE  s \o t \in Seq(S) /\ ToSet(s \o t) = ToSet(s) \cup ToSet(t)
<1>1. /\ s \o t \in Seq(S) /\ Len(s \o t) = Len(s) + Len(t)
      /\ \A i \in 1..Len(s) + Len(t) :
           (s \o t)[i] = IF i <= Len(s) THEN s[i] ELSE t[i - Len(s)]
  BY ConcatProperties
<1>2. /\ DOMAIN s = 1..Len(s) /\ DOMAIN t = 1..Len(t) /\ DOMAIN (s \o t) = 1..Len(s \o t)
      /\ Len(s) \in Nat /\ Len(t) \in Nat
  BY <1>1, LenProperties
<1> DEFINE u == s \o t
           n == Len(s)
           m == Len(t)
<1>3. /\ DOMAIN u = 1..n + m /\ DOMAIN s = 1..n /\ DOMAIN t = 1..m /\ n \in Nat /\ m \in Nat
      /\ \A i \in 1..n + m : u[i] = IF i <= n THEN s[i] ELSE t[i - n]
  BY <1>1, <1>2
<1> HIDE DEF u, n, m
<1>4. \A i \in 1..n + m : u[i] \in ToSet(s) \cup ToSet(t)
  <2> SUFFICES ASSUME NEW i \in 1..n + m PROVE u[i] \in ToSet(s) \cup ToSet(t)
    OBVIOUS
  <2>1. CASE i <= n
    <3>1. i \in 1..n /\ u[i] = s[i]
      BY <1>3, <2>1
    <3> QED
      BY <1>3, <3>1 DEF ToSet
  <2>2. CASE i > n
    <3>1. i - n \in 1..m /\ u[i] = t[i - n]
      BY <1>3, <2>2
    <3> QED
      BY <1>3, <3>1 DEF ToSet
  <2> QED
    BY <1>3, <2>1, <2>2
<1>5. \A i \in 1..n : s[i] \in ToSet(u)
  <2>1. \A i \in 1..n : i \in 1..n + m /\ u[i] = s[i]
    BY <1>3
  <2> QED
    BY <1>3, <2>1 DEF ToSet
<1>6. \A i \in 1..m : t[i] \in ToSet(u)
  <2>1. \A i \in 1..m : i + n \in 1..n + m /\ u[i + n] = t[i]
    BY <1>3
  <2> QED
    BY <1>3, <2>1 DEF ToSet
<1>7. ToSet(u) = ToSet(s) \cup ToSet(t)
  BY <1>3, <1>4, <1>5, <1>6 DEF ToSet
<1> QED
  BY <1>1, <1>7 DEF u

\* A list that is split in two by the places of its members loses none.
LEMMA OrderIsOnto ==
  ASSUME NEW places, IsFiniteSet(places), NEW order \in InOrder(places)
  PROVE  /\ Cardinality(places) \in Nat /\ DOMAIN order = 1..Cardinality(places)
         /\ {order[i] : i \in DOMAIN order} = places
<1> DEFINE n == Cardinality(places)
<1>1. n \in Nat
  BY FS_CardinalityType
<1>2. order \in [1..n -> places] /\ \A i, j \in 1..n : i # j => order[i] # order[j]
  BY DEF InOrder, SetToSeqs, n
<1>3. order \in Injection(1..n, places)
  BY <1>2 DEF Injection, IsInjective
<1>4. Cardinality(1..n) = n
  BY <1>1, FS_Interval
<1> HIDE DEF n
<1>5. order \in Surjection(1..n, places)
  BY <1>3, <1>4, FS_Injection DEF n
<1>6. \A p \in places : \E i \in 1..n : order[i] = p
  BY <1>5 DEF Surjection
<1> QED
  BY <1>1, <1>2, <1>6 DEF n

LEMMA ListTaken ==
  ASSUME NEW S, reqs \in Seq(S), NEW confirmed \in BOOLEAN, NEW order \in InOrder(Places(confirmed))
  PROVE  /\ reqsAt(order) \in Seq(S)
         /\ ToSet(reqsAt(order)) = {reqs[i] : i \in Places(confirmed)}
<1>1. /\ DOMAIN reqs = 1..Len(reqs) /\ Len(reqs) \in Nat /\ \A i \in 1..Len(reqs) : reqs[i] \in S
  BY LenProperties
<1>2. IsFiniteSet(Places(confirmed)) /\ Places(confirmed) \subseteq 1..Len(reqs)
  <2>1. Places(confirmed) \subseteq 1..Len(reqs)
    BY <1>1 DEF Places
  <2>2. IsFiniteSet(1..Len(reqs))
    BY <1>1, FS_Interval
  <2> QED
    BY <2>1, <2>2, FS_Subset
<1> DEFINE n == Cardinality(Places(confirmed))
<1>3. /\ n \in Nat /\ DOMAIN order = 1..n
      /\ {order[i] : i \in 1..n} = Places(confirmed)
  BY <1>2, OrderIsOnto
<1> HIDE DEF n
<1>4. reqsAt(order) = [i \in 1..n |-> reqs[order[i]]]
  BY <1>3 DEF reqsAt
<1>5. \A i \in 1..n : order[i] \in Places(confirmed) /\ reqs[order[i]] \in S
  BY <1>1, <1>2, <1>3
<1>6. reqsAt(order) \in [1..n -> S]
  BY <1>4, <1>5
<1>7. reqsAt(order) \in Seq(S)
  <2>1. Seq(S) = UNION {[1..k -> S] : k \in Nat}
    BY SeqDef
  <2> QED
    BY <1>3, <1>6, <2>1
<1>8. ToSet(reqsAt(order)) = {reqs[order[i]] : i \in 1..n}
  BY <1>4 DEF ToSet
<1>9. {reqs[order[i]] : i \in 1..n} = {reqs[p] : p \in Places(confirmed)}
  BY <1>3, <1>5
<1> QED
  BY <1>7, <1>8, <1>9

LEMMA ListSplit ==
  ASSUME NEW S, reqs \in Seq(S), NEW ready \in InOrder(Places(TRUE)),
         NEW rest \in InOrder(Places(FALSE))
  PROVE  /\ reqsAt(ready) \in Seq(S) /\ reqsAt(rest) \in Seq(S)
         /\ ToSet(reqsAt(ready)) \cup ToSet(reqsAt(rest)) = ToSet(reqs)
<1>1. Places(TRUE) \cup Places(FALSE) = DOMAIN reqs
  BY DEF Places
<1>2. ToSet(reqs) = {reqs[i] : i \in Places(TRUE)} \cup {reqs[i] : i \in Places(FALSE)}
  BY <1>1 DEF ToSet
<1> QED
  BY <1>2, ListTaken

-------------------------------------------------------------------------------
(* The types, and what they rest on: what waits is a request that was on    *)
(* the chain, and the head goroutine has requests in hand just as long as   *)
(* it is not between two heads.                                             *)

Waiting == [log : RequestLogs \cap mined, confirmedAt : Nat]

ChainOK ==
  /\ height \in 0..MaxHeight /\ fork \in 0..MaxForks
  /\ mined \subseteq Logs /\ canonical \subseteq mined
  /\ sent \subseteq RequestLogs /\ IsFiniteSet(sent)

DatabaseOK ==
  /\ consumed \subseteq mined /\ unfinished \subseteq consumed \cap RequestLogs
  /\ resuming \subseteq unfinished

QueueOK ==
  /\ latestHead \in 0..MaxHeight /\ newHead \in BOOLEAN
  /\ delivered \subseteq mined /\ lastPruneHeight \in 0..MaxHeight
  /\ mailbox \in Seq(mined)
  /\ MailboxCapacity > 0 => Len(mailbox) <= MailboxCapacity

CountOK ==
  /\ respCount \in [Requests -> Nat]
  /\ blockNumberToReqID \subseteq [block : 1..MaxHeight, id : Requests]

InHand == {"check", "callback", "run", "tasks"}

WorkOK ==
  /\ reqs \in Seq(Waiting) /\ toProcess \in Seq(Waiting) /\ toRetry \in Seq(Waiting)
  /\ step \in {Idle, "finish"} \cup InHand
  /\ step \in InHand <=> toProcess # <<>>
  /\ step = "tasks" => request.log \in consumed \ resuming

ListenerInv == RunInv /\ ChainOK /\ DatabaseOK /\ QueueOK /\ CountOK /\ WorkOK

LEMMA ListenerInit == Init => ListenerInv
<1> SUFFICES ASSUME Init PROVE ListenerInv
  OBVIOUS
<1>1. RunInv
  BY RunInit
<1>2. ChainOK
  BY FS_EmptySet, ChainAssumption DEF Init, ChainInit, ChainOK
<1>3. DatabaseOK /\ QueueOK /\ CountOK
  <2>1. <<>> \in Seq(mined) /\ Len(<<>>) = 0
    BY EmptySeq
  <2>2. /\ mailbox = <<>> /\ latestHead = 0 /\ newHead = FALSE /\ lastPruneHeight = 0
        /\ delivered = {} /\ consumed = {} /\ unfinished = {} /\ resuming = {}
        /\ respCount = [id \in Requests |-> 0] /\ blockNumberToReqID = {}
    BY DEF Init
  <2>3. 0 \in 0..MaxHeight /\ MailboxCapacity \in Nat
    BY ChainAssumption, ListenerAssumption
  <2>4. mailbox \in Seq(mined) /\ Len(mailbox) = 0
    BY <2>1, <2>2
  <2>5. MailboxCapacity > 0 => Len(mailbox) <= MailboxCapacity
    BY <2>3, <2>4
  <2>6. newHead \in BOOLEAN /\ delivered \subseteq mined
    BY <2>2
  <2>7. QueueOK
    BY <2>2, <2>3, <2>4, <2>5, <2>6 DEF QueueOK
  <2> QED
    BY <2>2, <2>7 DEF DatabaseOK, CountOK
<1>4. WorkOK
  BY DEF Init, WorkOK, Idle, InHand
<1> QED
  BY <1>1, <1>2, <1>3, <1>4 DEF ListenerInv

\* The request in hand.
LEMMA RequestInHand ==
  ASSUME WorkOK, step \in InHand
  PROVE  /\ request \in Waiting /\ request.log \in RequestLogs \cap mined
         /\ Tail(toProcess) \in Seq(Waiting) /\ Append(toRetry, request) \in Seq(Waiting)
         /\ Len(toProcess) \in Nat /\ Len(toProcess) # 0
         /\ Len(toProcess) = 1 <=> Tail(toProcess) = <<>>
<1>1. toProcess \in Seq(Waiting) /\ toProcess # <<>> /\ toRetry \in Seq(Waiting)
  BY DEF WorkOK
<1>2. request \in Waiting /\ Tail(toProcess) \in Seq(Waiting)
      /\ Len(Tail(toProcess)) = Len(toProcess) - 1
  BY <1>1, HeadRemoved DEF request
<1>3. request.log \in RequestLogs \cap mined
  BY <1>2 DEF Waiting
<1>4. Append(toRetry, request) \in Seq(Waiting)
  BY <1>1, <1>2, Appended
<1>5. Len(toProcess) \in Nat /\ Len(toProcess) # 0
      /\ (Len(toProcess) = 1 <=> Tail(toProcess) = <<>>)
  <2>1. \A s \in Seq(Waiting) : Len(s) \in Nat /\ (Len(s) = 0 <=> s = <<>>)
    BY EmptySeq, LenProperties
  <2> DEFINE n == Len(toProcess)
             t == Tail(toProcess)
  <2>2. n \in Nat /\ n # 0 /\ Len(t) = n - 1 /\ (Len(t) = 0 <=> t = <<>>)
    BY <1>1, <1>2, <2>1
  <2> HIDE DEF n, t
  <2>3. n \in Nat /\ n # 0 /\ (n = 1 <=> t = <<>>)
    BY <2>2
  <2> QED
    BY <2>3 DEF n, t
<1> QED
  BY <1>2, <1>3, <1>4, <1>5

\* A step that leaves the work alone.
LEMMA WorkStays ==
  ASSUME WorkOK, UNCHANGED <<reqs, toProcess, toRetry, step, resuming>>,
         mined \subseteq mined', consumed \subseteq consumed'
  PROVE  WorkOK'
<1>1. Waiting \subseteq Waiting'
  BY DEF Waiting, RequestLogs, LogsOf
<1>2. reqs \in Seq(Waiting') /\ toProcess \in Seq(Waiting') /\ toRetry \in Seq(Waiting')
  BY <1>1, SeqMonotonic DEF WorkOK
<1> QED
  BY <1>2 DEF WorkOK, request

LEMMA BlocksMined ==
  ASSUME ListenerInv, ChainStep
  PROVE  ListenerInv'
<1> USE DEF ListenerInv
<1>0. RunInv'
  BY RunStep DEF Next
<1>1. UNCHANGED <<sent, dbVars, latestHead, newHead, queueVars, reqs, countVars, workVars>>
  BY DEF ChainStep, CoordinatorNext
<1>2. ASSUME NEW logs \in SUBSET Logs, extend(logs)
      PROVE  mined \subseteq mined' /\ ChainOK'
  BY <1>1, <1>2, ChainAssumption DEF extend, ChainOK
<1>3. ASSUME NEW depth \in 1..ReorgDepth, Reorg(depth)
      PROVE  mined \subseteq mined' /\ ChainOK'
  BY <1>1, <1>3, ChainAssumption DEF Reorg, ChainOK
<1>4. mined \subseteq mined' /\ ChainOK'
  <2>1. ASSUME NEW kind \in {"request", "fulfilled"}, NEW id \in Requests,
               extend({Log(kind, id, height + 1, fork)})
        PROVE  mined \subseteq mined' /\ ChainOK'
    <3>1. height + 1 \in 1..MaxHeight /\ fork \in 0..MaxForks
      BY <2>1, ChainAssumption DEF extend, ChainOK
    <3>2. Log(kind, id, height + 1, fork) \in Logs
      BY <3>1 DEF Log, Logs, RequestLogs, LogsOf
    <3> QED
      BY <1>2, <2>1, <3>2
  <2>2. \A id \in Requests : randomnessRequest(id) => mined \subseteq mined' /\ ChainOK'
    BY <2>1 DEF randomnessRequest
  <2>3. ASSUME NEW l \in sent, fulfillRandomnessRequest(l)
        PROVE  mined \subseteq mined' /\ ChainOK'
    <3>1. l.id \in Requests
      BY DEF ChainOK, RequestLogs, LogsOf
    <3> QED
      BY <2>1, <2>3, <3>1 DEF fulfillRandomnessRequest
  <2> QED
    BY <1>2, <1>3, <2>2, <2>3 DEF ChainStep, CoordinatorNext
<1>5. DatabaseOK' /\ CountOK'
  BY <1>1, <1>4 DEF DatabaseOK, CountOK, dbVars, countVars, workVars
<1>6. QueueOK'
  <2>1. mailbox \in Seq(mined')
    BY <1>4, SeqMonotonic DEF QueueOK
  <2> QED
    BY <1>1, <1>4, <2>1 DEF QueueOK, queueVars
<1>7. WorkOK'
  BY <1>1, <1>4, WorkStays DEF workVars, dbVars
<1> QED
  BY <1>0, <1>4, <1>5, <1>6, <1>7

\* A delivery.
LEMMA LogsDelivered ==
  ASSUME ListenerInv, NEW l \in mined, HandleLog(l)
  PROVE  ListenerInv'
<1> USE DEF ListenerInv
<1>0. RunInv'
  BY RunStep DEF Next
<1>1. UNCHANGED <<chainVars, sent, dbVars, latestHead, newHead, reqs, countVars, workVars>>
  BY DEF HandleLog
<1>2. mined \subseteq Logs /\ l.block \in 1..MaxHeight
  BY DEF ChainOK, Logs, RequestLogs, LogsOf
<1>3. delivered' \subseteq mined /\ lastPruneHeight' \in 0..MaxHeight
  BY <1>2, ChainAssumption DEF HandleLog, prune, QueueOK
<1>4. /\ mailbox' \in Seq(mined)
      /\ MailboxCapacity > 0 => Len(mailbox') <= MailboxCapacity
  <2>1. mailbox \in Seq(mined) /\ Len(mailbox) \in Nat /\ MailboxCapacity \in Nat
    BY ListenerAssumption DEF QueueOK
  <2>2. CASE Len(mailbox) = MailboxCapacity /\ MailboxCapacity > 0
    <3>1. mailbox # <<>>
      BY <2>2
    <3>2. Tail(mailbox) \in Seq(mined) /\ Len(Tail(mailbox)) = Len(mailbox) - 1
      BY <2>1, <3>1, HeadRemoved
    <3>3. Append(Tail(mailbox), l) \in Seq(mined)
          /\ Len(Append(Tail(mailbox), l)) = Len(mailbox) - 1 + 1
      BY <3>2, Appended
    <3> QED
      BY <2>1, <2>2, <3>3 DEF HandleLog, Deliver
  <2>3. CASE ~(Len(mailbox) = MailboxCapacity /\ MailboxCapacity > 0)
    <3>1. Append(mailbox, l) \in Seq(mined) /\ Len(Append(mailbox, l)) = Len(mailbox) + 1
      BY <2>1, Appended
    <3> QED
      BY <2>1, <2>3, <3>1 DEF HandleLog, Deliver, QueueOK
  <2> QED
    BY <2>2, <2>3
<1>5. QueueOK'
  BY <1>1, <1>3, <1>4 DEF QueueOK, chainVars
<1>6. ChainOK' /\ DatabaseOK' /\ CountOK'
  BY <1>1 DEF ChainOK, DatabaseOK, CountOK, chainVars, dbVars, countVars, workVars
<1>7. WorkOK'
  BY <1>1, WorkStays DEF workVars, dbVars, chainVars
<1> QED
  BY <1>0, <1>5, <1>6, <1>7

\* The log goroutine.
LEMMA ConfirmedAtIsABlock ==
  ASSUME ListenerInv, NEW l \in RequestLogs
  PROVE  getConfirmedAt(l) \in Nat
<1>1. l.id \in Requests /\ l.block \in Nat
  BY ChainAssumption DEF RequestLogs, LogsOf
<1>2. respCount[l.id] \in Nat
  BY <1>1 DEF ListenerInv, CountOK
<1>3. Word \in Nat /\ Word > 0 /\ MinConfs \in Nat /\ MaxConfs \in Nat
  BY ChainAssumption, ListenerAssumption
<1> DEFINE p == 2 ^ respCount[l.id]
           q == MinConfs * p
           m == q % Word
<1>4. p \in Int
  BY <1>2
<1> HIDE DEF p
<1>5. q \in Int
  BY <1>3, <1>4
<1> HIDE DEF q
<1>6. m \in Nat
  BY <1>3, <1>5
<1> HIDE DEF m
<1>7. \E x \in {m, MaxConfs} : \A y \in {m, MaxConfs} : x <= y
  BY <1>3, <1>6
<1>8. Min({m, MaxConfs}) \in {m, MaxConfs}
  BY <1>7 DEF Min
<1>9. l.block + Min({m, MaxConfs}) \in Nat
  BY <1>1, <1>3, <1>6, <1>8
<1> QED
  BY <1>9 DEF getConfirmedAt, m, q, p

LEMMA LogsTaken ==
  ASSUME ListenerInv, handleLog
  PROVE  ListenerInv'
<1> USE DEF ListenerInv
<1>0. RunInv'
  BY LogsHandled
<1>1. UNCHANGED <<chainVars, sent, unfinished, latestHead, newHead, delivered, lastPruneHeight,
                  workVars>>
  BY DEF handleLog
<1> DEFINE l == Head(mailbox)
<1>2. mailbox # <<>> /\ l \in mined /\ mailbox' \in Seq(mined) /\ Len(mailbox') = Len(mailbox) - 1
      /\ Len(mailbox) \in Nat
  BY HeadRemoved DEF handleLog, QueueOK
<1>3. QueueOK'
  <2>1. MailboxCapacity > 0 => Len(mailbox') <= MailboxCapacity
    BY <1>2, ListenerAssumption DEF QueueOK
  <2> QED
    BY <1>1, <1>2, <2>1 DEF QueueOK, chainVars
<1>4. ChainOK'
  BY <1>1 DEF ChainOK, chainVars
<1>5. l \in Logs /\ l.id \in Requests /\ l.block \in 1..MaxHeight
  BY <1>2 DEF ChainOK, Logs, RequestLogs, LogsOf
<1>6. CASE l.kind = "fulfilled" /\ countFulfilment(l) /\ UNCHANGED reqs
  <2>1. consumed' \in {consumed, consumed \cup {l}}
    BY <1>6 DEF countFulfilment, markConsumed
  <2>2. DatabaseOK'
    BY <1>1, <1>2, <2>1 DEF DatabaseOK, workVars, chainVars
  <2>3. CountOK'
    <3>1. respCount[l.id] + 1 \in Nat
      BY <1>5 DEF CountOK
    <3>2. respCount' \in [Requests -> Nat]
      BY <1>5, <1>6, <3>1 DEF countFulfilment, CountOK, countVars
    <3>3. [block |-> l.block, id |-> l.id] \in [block : 1..MaxHeight, id : Requests]
      BY <1>5
    <3>4. blockNumberToReqID' \subseteq [block : 1..MaxHeight, id : Requests]
      BY <1>6, <3>3 DEF countFulfilment, CountOK, countVars
    <3> QED
      BY <3>2, <3>4 DEF CountOK
  <2>4. WorkOK'
    BY <1>1, <1>6, <2>1, WorkStays DEF workVars, chainVars
  <2> QED
    BY <1>0, <1>3, <1>4, <2>2, <2>3, <2>4
<1>7. CASE /\ l.kind = "request" /\ UNCHANGED <<countVars, consumed>>
           /\ reqs' = Append(reqs, [log |-> l, confirmedAt |-> getConfirmedAt(l)])
  <2>1. l \in RequestLogs
    BY <1>5, <1>7 DEF Logs, LogsOf
  <2>2. [log |-> l, confirmedAt |-> getConfirmedAt(l)] \in Waiting
    BY <1>2, <2>1, ConfirmedAtIsABlock DEF Waiting
  <2>3. reqs' \in Seq(Waiting)
    BY <1>7, <2>2, Appended DEF WorkOK
  <2>4. UNCHANGED Waiting
    BY <1>1 DEF Waiting, RequestLogs, LogsOf, chainVars
  <2>5. WorkOK'
    BY <1>1, <1>7, <2>3, <2>4 DEF WorkOK, workVars, request
  <2>6. DatabaseOK' /\ CountOK'
    BY <1>1, <1>7 DEF DatabaseOK, CountOK, workVars, chainVars, countVars
  <2> QED
    BY <1>0, <1>3, <1>4, <2>5, <2>6
<1> QED
  BY <1>6, <1>7 DEF handleLog

\* The head goroutine.
LEMMA Listening ==
  ASSUME ListenerInv, UNCHANGED <<chainVars, latestHead, newHead, queueVars, reqs, countVars,
                                  resuming, sent>>
  PROVE  ChainOK' /\ QueueOK' /\ CountOK' /\ UNCHANGED <<Waiting, reqs, resuming, mined>>
BY DEF ListenerInv, ChainOK, QueueOK, CountOK, Waiting, RequestLogs, LogsOf, chainVars, queueVars,
       countVars

LEMMA ReadyTaken ==
  ASSUME ListenerInv, extractConfirmedLogs
  PROVE  ListenerInv'
<1> USE DEF ListenerInv
<1>0. RunInv'
  BY HeadsHandled DEF runHeadListener
<1>1. /\ UNCHANGED <<chainVars, sent, dbVars, latestHead, queueVars, countVars, toRetry, resuming>>
      /\ newHead' = FALSE /\ step = Idle
      /\ step' = IF toProcess' = <<>> THEN "finish" ELSE "check"
  BY DEF extractConfirmedLogs
<1>2. toProcess' \in Seq(Waiting) /\ reqs' \in Seq(Waiting)
  <2>1. PICK ready \in InOrder(Places(TRUE)), rest \in InOrder(Places(FALSE)) :
          toProcess' = reqsAt(ready) /\ reqs' = reqsAt(rest)
    BY DEF extractConfirmedLogs
  <2>2. reqs \in Seq(Waiting)
    BY DEF WorkOK
  <2> QED
    BY <2>1, <2>2, ListSplit
<1>3. UNCHANGED Waiting
  BY <1>1 DEF Waiting, RequestLogs, LogsOf, chainVars
<1>4. ChainOK' /\ QueueOK' /\ CountOK' /\ DatabaseOK'
  BY <1>1 DEF ChainOK, QueueOK, CountOK, DatabaseOK, chainVars, queueVars, countVars, dbVars
<1>5. WorkOK'
  BY <1>1, <1>2, <1>3 DEF WorkOK, InHand, Idle
<1> QED
  BY <1>0, <1>4, <1>5

LEMMA RequestProcessed ==
  ASSUME WorkOK, step \in InHand, NEW success \in BOOLEAN, processed(success),
         UNCHANGED <<reqs, Waiting>>
  PROVE  WorkOK'
<1>1. /\ toProcess' \in Seq(Waiting) /\ toRetry' \in Seq(Waiting) /\ reqs' \in Seq(Waiting)
      /\ step' = IF toProcess' = <<>> THEN "finish" ELSE "check"
  BY RequestInHand DEF processed, WorkOK
<1> QED
  BY <1>1 DEF WorkOK, InHand, Idle

LEMMA WorkGoesOn ==
  ASSUME WorkOK, step \in InHand, NEW next \in InHand, goOn(next), UNCHANGED <<reqs, Waiting>>,
         next = "tasks" => request.log \in consumed' \ resuming'
  PROVE  WorkOK'
<1>1. step' = next /\ UNCHANGED <<toProcess, toRetry>>
  BY DEF goOn
<1> QED
  BY <1>1 DEF WorkOK, request

LEMMA RequestsWorkedOn ==
  ASSUME ListenerInv, checkConsumed \/ checkFulfilled \/ startRun \/ finishRun
  PROVE  ListenerInv'
<1> USE DEF ListenerInv
<1>0. RunInv'
  BY HeadsHandled DEF runHeadListener
<1>1. UNCHANGED <<chainVars, latestHead, newHead, queueVars, reqs, countVars, resuming>>
      /\ step \in InHand
  BY DEF checkConsumed, checkFulfilled, startRun, finishRun, listening, InHand
<1>2. /\ request \in Waiting /\ request.log \in RequestLogs \cap mined
  BY <1>1, RequestInHand
<1>3. CASE checkConsumed
  <2>1. UNCHANGED <<sent, dbVars>>
    BY <1>3 DEF checkConsumed
  <2>2. ChainOK' /\ QueueOK' /\ CountOK' /\ UNCHANGED <<Waiting, reqs, resuming, mined>>
    BY <1>1, <2>1, Listening
  <2>3. DatabaseOK'
    BY <2>1, <2>2 DEF DatabaseOK, dbVars
  <2>4. WorkOK'
    <3>1. goOn("callback") \/ processed(TRUE)
      BY <1>3 DEF checkConsumed
    <3>2. CASE goOn("callback")
      BY <1>1, <2>2, <3>2, WorkGoesOn DEF InHand
    <3>3. CASE processed(TRUE)
      BY <1>1, <2>2, <3>3, RequestProcessed
    <3> QED
      BY <3>1, <3>2, <3>3
  <2> QED
    BY <1>0, <2>2, <2>3, <2>4
<1>4. CASE checkFulfilled
  <2>1. UNCHANGED <<sent, unfinished>>
    BY <1>4 DEF checkFulfilled
  <2>2. ChainOK' /\ QueueOK' /\ CountOK' /\ UNCHANGED <<Waiting, reqs, resuming, mined>>
    BY <1>1, <2>1, Listening
  <2>3. consumed' \in {consumed, consumed \cup {request.log}}
    BY <1>4 DEF checkFulfilled, markConsumed
  <2>4. DatabaseOK'
    BY <1>2, <2>1, <2>2, <2>3 DEF DatabaseOK
  <2>5. WorkOK'
    <3>1. goOn("run") \/ processed(TRUE)
      BY <1>4 DEF checkFulfilled
    <3>2. CASE goOn("run")
      BY <1>1, <2>2, <3>2, WorkGoesOn DEF InHand
    <3>3. CASE processed(TRUE)
      BY <1>1, <2>2, <3>3, RequestProcessed
    <3> QED
      BY <3>1, <3>2, <3>3
  <2> QED
    BY <1>0, <2>2, <2>4, <2>5
<1>5. CASE startRun
  <2>1. UNCHANGED sent
    BY <1>5 DEF startRun
  <2>2. ChainOK' /\ QueueOK' /\ CountOK' /\ UNCHANGED <<Waiting, reqs, resuming, mined>>
    BY <1>1, <2>1, Listening
  <2>3. CASE /\ consumed' = consumed \cup {request.log}
             /\ unfinished' = unfinished \cup {request.log} /\ goOn("tasks")
    <3>1. DatabaseOK'
      BY <1>2, <2>2, <2>3 DEF DatabaseOK
    <3>2. request.log \in consumed' \ resuming'
      <4>1. request.log \notin consumed
        BY <1>2, <1>5 DEF RunInv, startRun
      <4> QED
        BY <2>2, <2>3, <4>1 DEF DatabaseOK
    <3>3. WorkOK'
      BY <1>1, <2>2, <2>3, <3>2, WorkGoesOn DEF InHand
    <3> QED
      BY <1>0, <2>2, <3>1, <3>3
  <2>4. CASE processed(FALSE) /\ UNCHANGED dbVars
    <3>1. DatabaseOK'
      BY <2>2, <2>4 DEF DatabaseOK, dbVars
    <3>2. WorkOK'
      BY <1>1, <2>2, <2>4, RequestProcessed
    <3> QED
      BY <1>0, <2>2, <3>1, <3>2
  <2> QED
    BY <1>5, <2>3, <2>4 DEF startRun
<1>6. CASE finishRun
  <2>1. PICK success \in BOOLEAN : execute(request.log, success) /\ processed(success)
    BY <1>6 DEF finishRun
  <2>2. /\ step = "tasks" /\ UNCHANGED consumed
        /\ sent' \in {sent, sent \cup {request.log}}
        /\ unfinished' \in {unfinished, unfinished \ {request.log}}
    BY <1>6, <2>1 DEF finishRun, execute
  <2>3. ChainOK'
    BY <1>1, <1>2, <2>2, FS_AddElement DEF ChainOK, chainVars
  <2>4. QueueOK' /\ CountOK' /\ UNCHANGED <<Waiting, mined>>
    BY <1>1 DEF QueueOK, CountOK, Waiting, RequestLogs, LogsOf, chainVars, queueVars, countVars
  <2>5. DatabaseOK'
    <3>1. request.log \notin resuming
      BY <2>2 DEF WorkOK
    <3> QED
      BY <1>1, <2>2, <2>4, <3>1 DEF DatabaseOK
  <2>6. WorkOK'
    BY <1>1, <2>1, <2>4, RequestProcessed
  <2> QED
    BY <1>0, <2>3, <2>4, <2>5, <2>6
<1> QED
  BY <1>3, <1>4, <1>5, <1>6

LEMMA RetriesKept ==
  ASSUME ListenerInv, keepForRetry
  PROVE  ListenerInv'
<1> USE DEF ListenerInv
<1>0. RunInv'
  BY HeadsHandled DEF runHeadListener
<1>1. /\ UNCHANGED <<chainVars, sent, dbVars, latestHead, newHead, queueVars, toProcess, resuming>>
      /\ step = "finish" /\ step' = Idle /\ reqs' = reqs \o toRetry /\ toRetry' = <<>>
  BY DEF keepForRetry
<1>2. UNCHANGED Waiting
  BY <1>1 DEF Waiting, RequestLogs, LogsOf, chainVars
<1>3. reqs' \in Seq(Waiting) /\ toRetry' \in Seq(Waiting)
  BY <1>1, Joined, EmptySeq DEF WorkOK
<1>4. WorkOK'
  BY <1>1, <1>2, <1>3 DEF WorkOK, InHand, Idle
<1>5. CountOK'
  BY DEF keepForRetry, pruneConfirmedRequestCounts, CountOK
<1>6. ChainOK' /\ QueueOK' /\ DatabaseOK'
  BY <1>1 DEF ChainOK, QueueOK, DatabaseOK, chainVars, queueVars, dbVars
<1> QED
  BY <1>0, <1>4, <1>5, <1>6

LEMMA RunsResumed ==
  ASSUME ListenerInv, NEW l \in resuming, ResumeRun(l)
  PROVE  ListenerInv'
<1> USE DEF ListenerInv
<1>0. RunInv'
  BY RunStep DEF Next
<1>1. /\ UNCHANGED <<chainVars, consumed, runs, latestHead, newHead, queueVars, reqs, countVars,
                     step, toProcess, toRetry>>
      /\ resuming' = resuming \ {l}
      /\ sent' \in {sent, sent \cup {l}} /\ unfinished' \in {unfinished, unfinished \ {l}}
  BY DEF ResumeRun, execute
<1>2. l \in RequestLogs
  BY DEF DatabaseOK
<1>3. ChainOK'
  BY <1>1, <1>2, FS_AddElement DEF ChainOK, chainVars
<1>4. DatabaseOK'
  BY <1>1 DEF DatabaseOK, chainVars
<1>5. QueueOK' /\ CountOK' /\ UNCHANGED Waiting
  BY <1>1 DEF QueueOK, CountOK, Waiting, RequestLogs, LogsOf, chainVars, queueVars, countVars
<1>6. WorkOK'
  BY <1>1, <1>5 DEF WorkOK, request
<1> QED
  BY <1>0, <1>3, <1>4, <1>5, <1>6

LEMMA NodeRestarted ==
  ASSUME ListenerInv, Restart
  PROVE  ListenerInv'
<1> USE DEF ListenerInv
<1>0. RunInv'
  BY RunStep DEF Next
<1>1. /\ UNCHANGED <<chainVars, sent, dbVars>>
      /\ latestHead' \in {0, height} /\ newHead' = FALSE
      /\ delivered' = {} /\ lastPruneHeight' = 0 /\ mailbox' = <<>> /\ reqs' = <<>>
      /\ respCount' \in GetStartingResponseCounts /\ blockNumberToReqID' = {}
      /\ step' = Idle /\ toProcess' = <<>> /\ toRetry' = <<>> /\ resuming' = unfinished
  BY DEF Restart
<1>2. ChainOK' /\ DatabaseOK'
  BY <1>1 DEF ChainOK, DatabaseOK, chainVars, dbVars
<1>3. QueueOK'
  <2>1. mailbox' \in Seq(mined') /\ Len(mailbox') = 0
    BY <1>1, EmptySeq
  <2>2. MailboxCapacity > 0 => Len(mailbox') <= MailboxCapacity
    BY <2>1, ListenerAssumption
  <2>3. latestHead' \in 0..MaxHeight /\ lastPruneHeight' \in 0..MaxHeight
    BY <1>1, ChainAssumption DEF ChainOK
  <2>4. newHead' \in BOOLEAN /\ delivered' \subseteq mined'
    BY <1>1
  <2> QED
    BY <2>1, <2>2, <2>3, <2>4 DEF QueueOK
<1>4. CountOK'
  <2>1. Cardinality(sent) \in Nat
    BY FS_CardinalityType DEF ChainOK
  <2>2. 0..Cardinality(sent) \subseteq Nat
    BY <2>1
  <2>3. respCount' \in [Requests -> Nat]
    BY <1>1, <2>2 DEF GetStartingResponseCounts
  <2> QED
    BY <1>1, <2>3 DEF CountOK
<1>5. WorkOK'
  <2>1. reqs' \in Seq(Waiting') /\ toProcess' \in Seq(Waiting') /\ toRetry' \in Seq(Waiting')
    BY <1>1, EmptySeq
  <2> QED
    BY <1>1, <2>1 DEF WorkOK, InHand, Idle
<1> QED
  BY <1>0, <1>2, <1>3, <1>4, <1>5

LEMMA ListenerStep == ListenerInv /\ [Next]_vars => ListenerInv'
<1> SUFFICES ASSUME ListenerInv, [Next]_vars PROVE ListenerInv'
  OBVIOUS
<1>0. RunInv'
  BY RunStep DEF ListenerInv
<1>1. CASE OnNewLongestChain
  <2>1. latestHead' \in {latestHead, height} /\ newHead' = TRUE
    <3>1. latestHead \in Int /\ height \in Int
      BY DEF ListenerInv, QueueOK, ChainOK
    <3>2. \E x \in {latestHead, height} : \A y \in {latestHead, height} : x >= y
      BY <3>1, latestHead >= height \/ height >= latestHead
    <3>3. Max({latestHead, height}) \in {latestHead, height}
      BY <3>2 DEF Max
    <3> QED
      BY <1>1, <3>3 DEF OnNewLongestChain
  <2>2. UNCHANGED <<chainVars, sent, dbVars, queueVars, reqs, countVars, workVars>>
    BY <1>1 DEF OnNewLongestChain
  <2>3. ChainOK' /\ DatabaseOK' /\ CountOK'
    BY <2>2 DEF ListenerInv, ChainOK, DatabaseOK, CountOK, chainVars, dbVars, workVars, countVars
  <2>4. QueueOK'
    BY <2>1, <2>2 DEF ListenerInv, ChainOK, QueueOK, queueVars, chainVars
  <2>5. WorkOK'
    BY <2>2, WorkStays DEF ListenerInv, workVars, chainVars, dbVars
  <2> QED
    BY <1>0, <2>3, <2>4, <2>5 DEF ListenerInv
<1>2. CASE ReplayStartedCallback \/ UNCHANGED vars
  <2>1. /\ UNCHANGED <<chainVars, sent, dbVars, latestHead, newHead, lastPruneHeight, mailbox,
                       reqs, countVars, workVars>>
        /\ delivered' \in {{}, delivered}
    BY <1>2 DEF ReplayStartedCallback, vars, queueVars
  <2>2. ChainOK' /\ DatabaseOK' /\ CountOK' /\ QueueOK'
    BY <2>1 DEF ListenerInv, ChainOK, DatabaseOK, CountOK, QueueOK, chainVars, dbVars, workVars,
       countVars
  <2>3. WorkOK'
    BY <2>1, WorkStays DEF ListenerInv, workVars, chainVars, dbVars
  <2> QED
    BY <1>0, <2>2, <2>3 DEF ListenerInv
<1> QED
  BY <1>1, <1>2, BlocksMined, LogsDelivered, LogsTaken, ReadyTaken, RequestsWorkedOn, RetriesKept,
     RunsResumed, NodeRestarted DEF Next, runHeadListener

LEMMA ListenerInvariant == Spec => []ListenerInv
BY ListenerInit, ListenerStep, PTL DEF Spec

\* Every variable keeps its type, for every number of requests, blocks, forks,
\* confirmations, restarts and replays, whatever fails.
THEOREM TypesOfListener == Spec => []TypeOK
<1>1. ASSUME ListenerInv PROVE TypeOK
  <2> USE <1>1 DEF ListenerInv
  <2>1. Waiting \subseteq Request
    BY DEF Waiting, Request
  <2>2. reqs \in Seq(Request) /\ toProcess \in Seq(Request) /\ toRetry \in Seq(Request)
    BY <2>1, SeqMonotonic DEF WorkOK
  <2>3. step \in {Idle, "check", "callback", "run", "tasks", "finish"}
    BY DEF WorkOK, InHand
  <2> QED
    BY <2>2, <2>3 DEF RunInv, ChainOK, DatabaseOK, QueueOK, CountOK, TypeOK
<1> QED
  BY <1>1, ListenerInvariant, PTL

-------------------------------------------------------------------------------
(* A request that is not consumed is held, or can be delivered again. *)

\* The mailbox drops nothing as long as it is not full.
Room == MailboxCapacity = 0 \/ Len(mailbox) < MailboxCapacity

\* What a step of the listener keeps, but for what it consumes.
Keeps ==
  /\ delivered' \subseteq delivered /\ consumed \subseteq consumed'
  /\ \A l \in RequestLogs : l \in held => l \in held' \/ l \in consumed'

LEMMA KeptIsARetry ==
  ASSUME ResendIsARetry, Keeps
  PROVE  ResendIsARetry'
BY DEF ResendIsARetry, Keeps

LEMMA HeldStays ==
  ASSUME UNCHANGED <<mailbox, reqs, toProcess, toRetry>>
  PROVE  held' = held
BY DEF held

LEMMA DeliveredIsHeld ==
  ASSUME ListenerInv, Room, ResendIsARetry, NEW l \in mined, HandleLog(l)
  PROVE  ResendIsARetry'
<1>1. UNCHANGED <<consumed, reqs, toProcess, toRetry>>
  BY DEF HandleLog, dbVars, workVars
<1>2. delivered' \subseteq delivered \cup {l}
  BY DEF HandleLog, prune
<1>3. mailbox' = IF l \in delivered THEN mailbox ELSE Append(mailbox, l)
  <2>1. Len(mailbox) \in Nat /\ MailboxCapacity \in Nat
    BY ListenerAssumption DEF ListenerInv, QueueOK
  <2> QED
    BY <2>1 DEF HandleLog, Known, Deliver, Room
<1>4. ToSet(mailbox') = IF l \in delivered THEN ToSet(mailbox) ELSE ToSet(mailbox) \cup {l}
  BY <1>3, Appended DEF ListenerInv, QueueOK
<1>5. held' = IF l \in delivered THEN held ELSE held \cup {l}
  BY <1>1, <1>4 DEF held
<1> QED
  BY <1>1, <1>2, <1>5 DEF ResendIsARetry

LEMMA TakenIsHeld ==
  ASSUME ListenerInv, handleLog
  PROVE  Keeps
<1>1. delivered' = delivered /\ consumed \subseteq consumed' /\ UNCHANGED <<toProcess, toRetry>>
  BY DEF handleLog, countFulfilment, markConsumed, workVars
<1>2. mailbox # <<>> /\ ToSet(mailbox) = ToSet(mailbox') \cup {Head(mailbox)}
  BY HeadRemoved DEF handleLog, ListenerInv, QueueOK
<1>3. CASE UNCHANGED reqs /\ Head(mailbox).kind = "fulfilled"
  <2>1. Head(mailbox) \notin RequestLogs
    BY <1>3 DEF RequestLogs, LogsOf
  <2>2. \A l \in RequestLogs : l \in held => l \in held'
    BY <1>1, <1>2, <1>3, <2>1 DEF held
  <2> QED
    BY <1>1, <2>2 DEF Keeps
<1>4. CASE reqs' = Append(reqs, [log |-> Head(mailbox), confirmedAt |-> getConfirmedAt(Head(mailbox))])
  <2> DEFINE r == [log |-> Head(mailbox), confirmedAt |-> getConfirmedAt(Head(mailbox))]
  <2>1. r.log = Head(mailbox)
    OBVIOUS
  <2> HIDE DEF r
  <2>2. ToSet(reqs') = ToSet(reqs) \cup {r}
    BY <1>4, Appended DEF ListenerInv, WorkOK, r
  <2>3. \A l \in RequestLogs : l \in held => l \in held'
    BY <1>1, <1>2, <2>1, <2>2 DEF held
  <2> QED
    BY <1>1, <2>3 DEF Keeps
<1> QED
  BY <1>3, <1>4 DEF handleLog

LEMMA ProcessedIsHeld ==
  ASSUME ListenerInv, step \in InHand, NEW success \in BOOLEAN, processed(success),
         UNCHANGED <<delivered, mailbox, reqs>>, consumed \subseteq consumed',
         success => request.log \in consumed'
  PROVE  Keeps
<1>1. toProcess \in Seq(Waiting) /\ toProcess # <<>> /\ toRetry \in Seq(Waiting)
  BY DEF ListenerInv, WorkOK
<1>2. ToSet(toProcess) = ToSet(toProcess') \cup {request}
  BY <1>1, HeadRemoved DEF processed, request
<1>3. ToSet(toRetry') = IF success THEN ToSet(toRetry) ELSE ToSet(toRetry) \cup {request}
  BY <1>1, Appended DEF processed
<1>4. \A l \in RequestLogs : l \in held => l \in held' \/ l \in consumed'
  BY <1>2, <1>3 DEF held
<1> QED
  BY <1>4 DEF Keeps

LEMMA WorkedOnIsHeld ==
  ASSUME ListenerInv, "db" \notin Faults, runHeadListener
  PROVE  Keeps
<1>0. ~MayFail("db")
  BY DEF MayFail
<1>1. CASE extractConfirmedLogs
  <2>1. UNCHANGED <<mailbox, delivered, consumed, toRetry>> /\ toProcess = <<>>
    BY <1>1 DEF extractConfirmedLogs, ListenerInv, WorkOK, InHand, Idle, queueVars, dbVars
  <2>2. PICK ready \in InOrder(Places(TRUE)), rest \in InOrder(Places(FALSE)) :
          toProcess' = reqsAt(ready) /\ reqs' = reqsAt(rest)
    BY <1>1 DEF extractConfirmedLogs
  <2>3. ToSet(toProcess') \cup ToSet(reqs') = ToSet(reqs)
    BY <2>2, ListSplit DEF ListenerInv, WorkOK
  <2>4. ToSet(toProcess) = {}
    BY <2>1 DEF ToSet
  <2>5. held' = held
    BY <2>1, <2>3, <2>4 DEF held
  <2> QED
    BY <2>1, <2>5 DEF Keeps
<1>2. CASE checkConsumed \/ checkFulfilled \/ startRun \/ finishRun
  <2>1. step \in InHand /\ UNCHANGED <<delivered, mailbox, reqs>>
    BY <1>2 DEF checkConsumed, checkFulfilled, startRun, finishRun, listening, queueVars, InHand
  <2>2. consumed \subseteq consumed'
    BY <1>2 DEF checkConsumed, checkFulfilled, startRun, finishRun, markConsumed, dbVars
  <2>3. ASSUME NEW next, goOn(next) PROVE Keeps
    <3>1. held' = held
      BY <2>1, <2>3, HeldStays DEF goOn
    <3> QED
      BY <2>1, <2>2, <3>1 DEF Keeps
  <2>4. CASE checkConsumed
    <3>1. goOn("callback") \/ (request.log \in consumed /\ processed(TRUE))
      BY <1>0, <2>4 DEF checkConsumed
    <3> QED
      BY <2>1, <2>2, <2>3, <3>1, ProcessedIsHeld
  <2>5. CASE checkFulfilled
    <3>1. goOn("run") \/ (request.log \in consumed' /\ processed(TRUE))
      BY <1>0, <2>5 DEF checkFulfilled, markConsumed
    <3> QED
      BY <2>1, <2>2, <2>3, <3>1, ProcessedIsHeld
  <2>6. CASE startRun
    BY <1>0, <2>3, <2>6 DEF startRun
  <2>7. CASE finishRun
    <3>1. request.log \in consumed' /\ \E success \in BOOLEAN : processed(success)
      BY <2>7 DEF finishRun, ListenerInv, WorkOK
    <3> QED
      BY <2>1, <2>2, <3>1, ProcessedIsHeld
  <2> QED
    BY <1>2, <2>4, <2>5, <2>6, <2>7
<1>3. CASE keepForRetry
  <2>1. /\ UNCHANGED <<mailbox, delivered, consumed, toProcess>>
        /\ reqs' = reqs \o toRetry /\ toRetry' = <<>>
    BY <1>3 DEF keepForRetry, queueVars, dbVars
  <2>2. ToSet(reqs') = ToSet(reqs) \cup ToSet(toRetry)
    BY <2>1, Joined DEF ListenerInv, WorkOK
  <2>3. \A l \in RequestLogs : l \in held => l \in held'
    BY <2>1, <2>2 DEF held
  <2> QED
    BY <2>1, <2>3 DEF Keeps
<1> QED
  BY <1>1, <1>2, <1>3 DEF runHeadListener

LEMMA RetryStep ==
  ASSUME "db" \notin Faults, ListenerInv, Room, ResendIsARetry, [Next]_vars
  PROVE  ResendIsARetry'
<1>1. ASSUME UNCHANGED <<consumed, mailbox, reqs, toProcess, toRetry>>, delivered' \in {{}, delivered}
      PROVE  ResendIsARetry'
  BY <1>1, HeldStays, KeptIsARetry DEF Keeps
<1>2. CASE \/ ChainStep \/ ReplayStartedCallback \/ OnNewLongestChain \/ UNCHANGED vars
           \/ \E l \in resuming : ResumeRun(l)
  BY <1>1, <1>2 DEF ChainStep, ReplayStartedCallback, OnNewLongestChain, ResumeRun, vars, dbVars,
     queueVars, workVars
<1>3. CASE Restart
  BY <1>3 DEF Restart, ResendIsARetry
<1> QED
  BY <1>2, <1>3, DeliveredIsHeld, TakenIsHeld, WorkedOnIsHeld, KeptIsARetry DEF Next

\* A request that is not consumed is held by the listener or is let through when it
\* is delivered again, through restarts, replays and reorganisations, whatever
\* depth the deduper is pruned to, as long as the queries of the database do not
\* fail and the mailbox never fills up.
THEOREM ResentAsARetry ==
  ASSUME "db" \notin Faults
  PROVE  Spec /\ []Room => []ResendIsARetry
<1>1. Init => ResendIsARetry
  BY DEF Init, ResendIsARetry
<1>2. ListenerInv /\ Room /\ ResendIsARetry /\ [Next]_vars => ResendIsARetry'
  BY RetryStep
<1> QED
  BY <1>1, <1>2, ListenerInvariant, PTL DEF Spec
==============================================================================
