------------------------------ MODULE LogDelivery -----------------------------
(***************************************************************************)
(* What the log broadcaster of the oracle node promises a job: only logs   *)
(* of the chain are delivered, and a log that stays on the chain is        *)
(* delivered after every start of the node until the job consumed it.      *)
(***************************************************************************)
CONSTANT Logs

VARIABLES
  mined, canonical,   \* the logs that were ever, and that are, on the chain
  consumed,           \* what the job is done with, in the database
  received            \* what the job was sent since the start of the node

vars == <<mined, canonical, consumed, received>>

Init == mined = {} /\ canonical = {} /\ consumed = {} /\ received = {}

\* New logs appear on the chain and old ones leave it.
ChainMoves ==
  /\ mined' \in SUBSET Logs
  /\ mined \subseteq mined'
  /\ canonical' \in SUBSET mined'
  /\ UNCHANGED <<consumed, received>>

Deliver(l) ==
  /\ l \in mined
  /\ received' = received \cup {l}
  /\ UNCHANGED <<mined, canonical, consumed>>

Consume(l) ==
  /\ l \in received
  /\ consumed' = consumed \cup {l}
  /\ UNCHANGED <<mined, canonical, received>>

\* A replay may ask for logs again that were consumed.
Replay ==
  /\ consumed' \in SUBSET consumed
  /\ UNCHANGED <<mined, canonical, received>>

Crash == received' = {} /\ UNCHANGED <<mined, canonical, consumed>>

Next ==
  \/ ChainMoves
  \/ \E l \in Logs : Deliver(l) \/ Consume(l)
  \/ Replay
  \/ Crash

Due(l) == l \in canonical \ consumed

Spec == Init /\ [][Next]_vars

FairSpec ==
  /\ Spec
  /\ \A l \in Logs : WF_vars(Due(l) /\ Deliver(l))
==============================================================================
