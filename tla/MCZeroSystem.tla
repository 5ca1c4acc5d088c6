----------------------------- MODULE MCZeroSystem -----------------------------
(***************************************************************************)
(* The values of the operator constants for the instances TLC checks.      *)
(***************************************************************************)
EXTENDS ZeroSystem

\* Warriors are free; a name costs 2, and half of it when time ran ahead of the sales.
FreePrice(elapsed, sold) == 0
NamePrice(elapsed, sold) == IF elapsed < 2 + sold THEN 2 ELSE 1

OneSeed == {0}
SameSeed(seed) == seed
==============================================================================
