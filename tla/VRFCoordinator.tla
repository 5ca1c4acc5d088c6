---------------------------- MODULE VRFCoordinator ----------------------------
(***************************************************************************)
(* The VRF coordinator                                                     *)
(* (src/lib/chainlink/contracts/src/v0.6/VRFCoordinator.sol) on a chain    *)
(* that may be reorganised: the logs of requests and of fulfilments.       *)
(***************************************************************************)
EXTENDS Chain

CONSTANTS
  Requests,
  LastRequestBlock   \* a bound: no request is made after it

VARIABLE sent        \* the requests, by log, a fulfilment was sent for

ASSUME CoordinatorAssumption == LastRequestBlock \in Nat

Log(kind, id, block, f) == [kind |-> kind, id |-> id, block |-> block, fork |-> f]

LogsOf(kind) ==
  [kind : {kind}, id : Requests, block : 1..MaxHeight, fork : 0..MaxForks]
RequestLogs == LogsOf("request")
Logs == RequestLogs \cup LogsOf("fulfilled")

\* callbacks[id].seedAndBlockNum as of a block: a request forgets it when it
\* is fulfilled.
Open(id, block) ==
  /\ \E l \in canonical : l.kind = "request" /\ l.id = id /\ l.block <= block
  /\ ~\E l \in canonical : l.kind = "fulfilled" /\ l.id = id /\ l.block <= block

randomnessRequest(id) ==
  /\ height < LastRequestBlock
  /\ ~\E l \in canonical : l.kind = "request" /\ l.id = id
  /\ extend({Log("request", id, height + 1, fork)})

\* The proof is checked against the hash of the block of the request, so a
\* transaction sent for a log that left the chain is reverted.
fulfillRandomnessRequest(l) ==
  /\ l \in sent \cap canonical
  /\ Open(l.id, height)
  /\ extend({Log("fulfilled", l.id, height + 1, fork)})

CoordinatorNext ==
  /\ \/ extend({})
     \/ \E id \in Requests : randomnessRequest(id)
     \/ \E l \in sent : fulfillRandomnessRequest(l)
     \/ \E depth \in 1..ReorgDepth : Reorg(depth)
  /\ UNCHANGED sent
==============================================================================
