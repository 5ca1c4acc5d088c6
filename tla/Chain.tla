--------------------------------- MODULE Chain --------------------------------
(***************************************************************************)
(* The chain as the node sees it: blocks with the logs it listens to, and  *)
(* reorganisations that take the newest blocks back.  A log is known by    *)
(* its block: mined again on another fork it is another log.               *)
(***************************************************************************)
EXTENDS Naturals

CONSTANTS
  \* Bounds of an instance.
  MaxHeight,   \* blocks of the chain
  MaxForks,    \* reorganisations
  ReorgDepth   \* blocks a reorganisation may take back

VARIABLES
  height,
  fork,
  mined,       \* every log that ever was on the chain
  canonical    \* the logs on the chain now

chainVars == <<height, fork, mined, canonical>>

ASSUME ChainAssumption ==
  MaxHeight \in Nat /\ MaxForks \in Nat /\ ReorgDepth \in Nat

ChainInit ==
  /\ height = 0
  /\ fork = 0
  /\ mined = {}
  /\ canonical = {}

extend(logs) ==
  /\ height < MaxHeight
  /\ height' = height + 1
  /\ mined' = mined \cup logs
  /\ canonical' = canonical \cup logs
  /\ UNCHANGED fork

TakenBack(depth) == {l \in canonical : l.block > height - depth}

Reorg(depth) ==
  /\ fork < MaxForks
  /\ depth <= height
  /\ fork' = fork + 1
  /\ height' = height - depth
  /\ canonical' = canonical \ TakenBack(depth)
  /\ UNCHANGED mined
==============================================================================
