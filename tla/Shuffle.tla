------------------------------- MODULE Shuffle -------------------------------
(***************************************************************************)
(* The loop of revealWarrior (src/src/ZeroWarrior.sol) as a pure           *)
(* algorithm: a Fisher-Yates shuffle of the indices of the non-legendary   *)
(* ids run lazily, one draw per revealed id.  idx[id] = 0 stands for       *)
(* "never touched", and then the index of id is id itself.                 *)
(***************************************************************************)
EXTENDS Supply

CONSTANTS
  Seeds,       \* the values a seed can take, 0..2^64-1
  NextSeed(_)  \* keccak256(seed) % 2^64

ASSUME SeedAssumption ==
  /\ Seeds \subseteq Nat
  /\ 0 \in Seeds
  /\ \A s \in Seeds : NextSeed(s) \in Seeds

IndexOf(idx, id) == IF idx[id] = 0 THEN id ELSE idx[id]

\* Faults checked against Draw: the drawn id keeps its own index; the draw is
\* from all ids and not from those that remain.
DrawWithoutSwap(s) ==
  LET current == s.last + 1
      swap    == current + (s.seed % (FIRST_LEGENDARY_APE_ID - s.last - 1))
  IN  [idx  |-> [s.idx EXCEPT ![current] = IndexOf(s.idx, swap)],
       seed |-> NextSeed(s.seed),
       last |-> current]

DrawFromAll(s) ==
  LET current == s.last + 1
      swap    == 1 + (s.seed % (FIRST_LEGENDARY_APE_ID - 1))
  IN  [idx  |-> [s.idx EXCEPT ![current] = IndexOf(s.idx, swap),
                              ![swap]    = IndexOf(s.idx, current)],
       seed |-> NextSeed(s.seed),
       last |-> current]

\* One iteration: the next id takes the index of an id drawn from itself and
\* the ones after it, and gives that id its own.
Draw(s) ==
  LET remainingIds == FIRST_LEGENDARY_APE_ID - s.last - 1
      current      == s.last + 1
      swap         == current + (s.seed % remainingIds)
  IN  [idx  |-> [s.idx EXCEPT ![current] = IndexOf(s.idx, swap),
                              ![swap]    = IndexOf(s.idx, current)],
       seed |-> NextSeed(s.seed),
       last |-> current]

\* n iterations from s.
Draws(s, n) ==
  LET run[i \in 0..n] == IF i = 0 THEN s ELSE Draw(run[i - 1])
  IN  run[n]
==============================================================================
