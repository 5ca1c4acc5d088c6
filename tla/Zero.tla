-------------------------------- MODULE Zero ---------------------------------
(***************************************************************************)
(* The ZERO token (src/src/Zero.sol over solmate's ERC20): balances and    *)
(* the total supply.  Only the warrior contract mints, only the warrior    *)
(* and the zeroname contract burn; an allowance is left out, a holder      *)
(* moves its own tokens.                                                   *)
(***************************************************************************)
EXTENDS Addresses, Integers

VARIABLES balanceOf, totalSupply

zeroVars == <<balanceOf, totalSupply>>

ZeroTypeOK ==
  /\ balanceOf \in [Users -> Nat]
  /\ totalSupply \in Nat

ZeroInit ==
  /\ balanceOf = [u \in Users |-> 0]
  /\ totalSupply = 0

mintForWarrior(to, amount) ==
  /\ balanceOf' = [balanceOf EXCEPT ![to] = @ + amount]
  /\ totalSupply' = totalSupply + amount

burn(from, amount) ==
  /\ balanceOf[from] >= amount
  /\ balanceOf' = [balanceOf EXCEPT ![from] = @ - amount]
  /\ totalSupply' = totalSupply - amount

burnForWarrior(from, amount) == burn(from, amount)

burnForZeroName(from, amount) == burn(from, amount)

transfer(from, to, amount) ==
  /\ balanceOf[from] >= amount
  /\ balanceOf' = moved(balanceOf, from, to, amount)
  /\ UNCHANGED totalSupply
==============================================================================
