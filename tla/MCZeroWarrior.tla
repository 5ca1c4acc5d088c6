---------------------------- MODULE MCZeroWarrior ----------------------------
(***************************************************************************)
(* The values of the operator constants for the instances TLC checks.      *)
(***************************************************************************)
EXTENDS ZeroWarrior

\* A market left alone long enough sells for nothing.
FreePrice(elapsed, sold) == 0

\* A price that falls with time and rises with every sale.
MovingPrice(elapsed, sold) == IF elapsed < 2 * (sold + 1) THEN 2 * (sold + 1) - elapsed ELSE 0

\* A hash of the seeds 0..5 and of the seeds 0..11 that leaves none fixed.
SixSeeds == 0..5
NextOfSix(seed) == (5 * seed + 2) % 6

TwelveSeeds == 0..11
NextOfTwelve(seed) == (7 * seed + 5) % 12

OneSeed == {0}
TwoSeeds == {0, 1}
NextOfTwo(seed) == 1 - seed
SameSeed(seed) == seed
==============================================================================
