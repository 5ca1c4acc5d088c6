------------------------------- MODULE Supply --------------------------------
(***************************************************************************)
(* The supply constants of src/src/ZeroWarrior.sol and the ids they give:  *)
(* 1..FIRST_LEGENDARY_APE_ID-1 for claimed, bought and reserved warriors,  *)
(* the last LEGENDARY_SUPPLY ids for legendary ones.                       *)
(***************************************************************************)
EXTENDS Integers

CONSTANTS
  MAX_SUPPLY,        \* 10000
  MINTLIST_SUPPLY,   \* 2000
  LEGENDARY_SUPPLY,  \* 10
  ReserveDivisor     \* 5: the divisor of RESERVED_SUPPLY and of the reserve guard

GeneralSupply == MAX_SUPPLY - MINTLIST_SUPPLY - LEGENDARY_SUPPLY

RESERVED_SUPPLY == GeneralSupply \div ReserveDivisor

MAX_MINTABLE == GeneralSupply - RESERVED_SUPPLY

FIRST_LEGENDARY_APE_ID == MAX_SUPPLY - LEGENDARY_SUPPLY + 1

LEGENDARY_AUCTION_INTERVAL == MAX_MINTABLE \div (LEGENDARY_SUPPLY + 1)

Ids             == 1..MAX_SUPPLY
NonLegendaryIds == 1..(FIRST_LEGENDARY_APE_ID - 1)

\* The last conjunct holds of the deployed numbers (7990 % 5 = 0); with a
\* remainder of 4 the reserve guard would let the reserve outgrow its supply.
ASSUME SupplyAssumption ==
  /\ MAX_SUPPLY \in Nat /\ MINTLIST_SUPPLY \in Nat /\ LEGENDARY_SUPPLY \in Nat
  /\ ReserveDivisor \in Nat /\ ReserveDivisor >= 2
  /\ MINTLIST_SUPPLY + LEGENDARY_SUPPLY <= MAX_SUPPLY
  /\ LEGENDARY_AUCTION_INTERVAL > 0
  /\ GeneralSupply % ReserveDivisor < ReserveDivisor - 1
==============================================================================
