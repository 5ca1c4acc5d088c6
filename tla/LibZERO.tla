------------------------------- MODULE LibZERO -------------------------------
(***************************************************************************)
(* ZERO issuance (src/lib/zero-issuance/src/LibZERO.sol): the virtual      *)
(* balance of an account after some time, from its emission multiple and   *)
(* its balance at the last snapshot, in the fixed-point arithmetic of      *)
(* solmate.  WAD is 1e18 and Day 86400 seconds in the code.                *)
(***************************************************************************)
EXTENDS Integers

CONSTANTS WAD, Day

ASSUME LibZEROAssumption == WAD \in Nat \ {0} /\ Day \in Nat \ {0}

toDaysWad(seconds) == (seconds * WAD) \div Day

mulWadDown(x, y) == (x * y) \div WAD

\* solmate's sqrt rounds down.
sqrt(x) == CHOOSE r \in 0..x : r * r <= x /\ x < (r + 1) * (r + 1)

computeZEROBalance(multiple, lastBalanceWad, timeElapsedWad) ==
  lastBalanceWad
    + ((multiple * mulWadDown(timeElapsedWad, timeElapsedWad)) \div 4)
    + mulWadDown(timeElapsedWad, sqrt(multiple * lastBalanceWad * WAD))
==============================================================================
