------------------------------ MODULE LazyReveal -----------------------------
(***************************************************************************)
(* What the reveals of the collection promise: the ordinary ids are minted *)
(* in order and revealed in order, an id only after it was minted, and     *)
(* each gets at its reveal an index that no id before it got, for good.    *)
(***************************************************************************)
EXTENDS Integers, Sequences

CONSTANT Size       \* how many ordinary ids there are

VARIABLES
  minted,           \* how many of them are minted
  drawn             \* the indices of the revealed ones, in the order of the ids

vars == <<minted, drawn>>

Init == minted = 0 /\ drawn = <<>>

Mint ==
  /\ minted' \in minted + 1..Size
  /\ UNCHANGED drawn

Distinct(indices) ==
  \A i, j \in DOMAIN indices : indices[i] = indices[j] => i = j

\* A batch: the next ids get indices that are left.
Reveal ==
  /\ \E n \in Len(drawn) + 1..minted : drawn' \in [1..n -> 1..Size]
  /\ \A i \in DOMAIN drawn : drawn'[i] = drawn[i]
  /\ Distinct(drawn')
  /\ UNCHANGED minted

Next == Mint \/ Reveal

Spec == Init /\ [][Next]_vars
==============================================================================
