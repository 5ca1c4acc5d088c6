------------------------------ MODULE Addresses ------------------------------
(***************************************************************************)
(* The addresses of the system: externally owned accounts, the two         *)
(* WarriorReserve contracts the collection mints its reserve to, and        *)
(* address(0), which owns every id that is not minted or was burned.        *)
(***************************************************************************)
EXTENDS Integers, FiniteSets

CONSTANTS
  Users,      \* the accounts that send transactions
  Team,       \* the WarriorReserve of the team
  Community,  \* the WarriorReserve of the community
  NoOne       \* address(0)

Reserves == {Team, Community}
Accounts == Users \cup Reserves
Holders  == Accounts \cup {NoOne}

ASSUME AddressesAssumption ==
  /\ Users \cap Reserves = {}
  /\ NoOne \notin Accounts
  /\ IsFiniteSet(Users)

\* What an account loses and another gains, one after the other: nothing when
\* the two are the same.
moved(f, from, to, amount) ==
  [a \in DOMAIN f |-> f[a] - (IF a = from THEN amount ELSE 0) + (IF a = to THEN amount ELSE 0)]
==============================================================================
