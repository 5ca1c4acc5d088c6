-------------------------- MODULE ZeroWarriorProofs ---------------------------
(***************************************************************************)
(* The safety of the warrior collection for every supply, every set of     *)
(* accounts and every price.  First its pure algorithms: issuance gives a  *)
(* natural that never falls with time, a snapshot in between gains and     *)
(* costs next to nothing, and the shuffle of revealWarrior                 *)
(* permutes the indices.  Then the shares of the supply, the rounds of     *)
(* reveals and the oracle, the legendary auction, whose price only falls,  *)
(* and the ownership of ids: what is burned stays burned, and an approval  *)
(* ends with the ownership it was given under.  What is summed or counted  *)
(* over the ids of an account is in EmissionProofs.                        *)
(***************************************************************************)
EXTENDS ZeroWarrior, NumberTheorems

(* Issuance *)

(***************************************************************************)
(* Every natural has an integer square root, the one sqrt chooses.         *)
(***************************************************************************)
LEMMA SqrtExists ==
  ASSUME NEW x \in Nat
  PROVE  /\ sqrt(x) \in Nat
         /\ sqrt(x) * sqrt(x) <= x
         /\ x < (sqrt(x) + 1) * (sqrt(x) + 1)
<1> DEFINE IsRoot(r, n) == r * r <= n /\ n < (r + 1) * (r + 1)
           N == {n \in Nat : \E r \in 0..n : IsRoot(r, n)}
<1>1. 0 \in N
  OBVIOUS
<1>2. ASSUME NEW n \in N PROVE n + 1 \in N
  <2>1. PICK r \in 0..n : IsRoot(r, n)
    OBVIOUS
  <2>2. CASE n + 1 < (r + 1) * (r + 1)
    <3>1. r \in 0..(n + 1) /\ r * r <= n + 1
      BY <2>1
    <3>2. IsRoot(r, n + 1)
      BY <3>1, <2>2
    <3> HIDE DEF IsRoot
    <3> QED
      BY <3>1, <3>2
  <2>3. CASE ~ (n + 1 < (r + 1) * (r + 1))
    <3>1. (r + 1) * (r + 1) = n + 1
      BY <2>1, <2>3
    <3>2. (r + 2) * (r + 2) = (r + 1) * (r + 1) + 2 * r + 3
      OBVIOUS
    <3>3. n + 1 < ((r + 1) + 1) * ((r + 1) + 1)
      BY <3>1, <3>2
    <3>4. r + 1 \in 0..(n + 1) /\ (r + 1) * (r + 1) <= n + 1
      BY <3>1
    <3>5. IsRoot(r + 1, n + 1)
      BY <3>3, <3>4
    <3> HIDE DEF IsRoot
    <3> QED
      BY <3>4, <3>5
  <2> QED
    BY <2>2, <2>3
<1>3. N = Nat
  BY <1>1, <1>2, NatSetInduction
<1>4. \E r \in 0..x : IsRoot(r, x)
  BY <1>3
<1>5. sqrt(x) = CHOOSE r \in 0..x : IsRoot(r, x)
  BY DEF sqrt
<1>6. sqrt(x) \in 0..x /\ IsRoot(sqrt(x), x)
  <2> HIDE DEF IsRoot
  <2> QED
    BY <1>4, <1>5
<1> QED
  BY <1>6

(***************************************************************************)
(* computeZEROBalance returns a natural no smaller than the balance it     *)
(* starts from, and that balance itself when no time has passed.           *)
(***************************************************************************)
THEOREM BalanceNeverFalls ==
  ASSUME NEW multiple \in Nat, NEW balance \in Nat, NEW elapsed \in Nat
  PROVE  /\ computeZEROBalance(multiple, balance, elapsed) \in Nat
         /\ computeZEROBalance(multiple, balance, elapsed) >= balance
         /\ computeZEROBalance(multiple, balance, 0) = balance
<1>1. WAD \in Nat \ {0}
  BY LibZEROAssumption
<1>2. ASSUME NEW a \in Nat, NEW b \in Nat
      PROVE  mulWadDown(a, b) \in Nat /\ mulWadDown(0, b) = 0
  <2>1. a * b \in Nat /\ 0 * b = 0
    BY ProductNat
  <2> QED
    BY <1>1, <2>1, DivNat DEF mulWadDown
<1>3. ASSUME NEW t \in Nat
      PROVE  /\ (multiple * mulWadDown(t, t)) \div 4 \in Nat
             /\ (multiple * mulWadDown(0, 0)) \div 4 = 0
  <2>1. mulWadDown(t, t) \in Nat /\ mulWadDown(0, 0) = 0
    BY <1>2
  <2>2. multiple * mulWadDown(t, t) \in Nat /\ multiple * 0 = 0
    BY <2>1, ProductNat
  <2> QED
    BY <2>1, <2>2, DivNat
<1>4. sqrt(multiple * balance * WAD) \in Nat
  <2>1. multiple * balance \in Nat
    BY ProductNat
  <2>2. multiple * balance * WAD \in Nat
    BY <2>1, <1>1, ProductNat
  <2> QED
    BY <2>2, SqrtExists
<1>5. /\ mulWadDown(elapsed, sqrt(multiple * balance * WAD)) \in Nat
      /\ mulWadDown(0, sqrt(multiple * balance * WAD)) = 0
  BY <1>2, <1>4
<1> QED
  BY <1>3, <1>5 DEF computeZEROBalance

\* The time passed, in days, is a natural, and none when no second has passed.
LEMMA DaysNat ==
  ASSUME NEW seconds \in Nat
  PROVE  toDaysWad(seconds) \in Nat /\ toDaysWad(0) = 0
<1>1. seconds * WAD \in Nat /\ 0 * WAD = 0
  BY LibZEROAssumption, ProductNat
<1> QED
  BY <1>1, LibZEROAssumption, DivNat DEF toDaysWad

\* Roots of two sums of squares: an estimate from above and one from below.
LEMMA RootAbove ==
  ASSUME NEW x \in Nat, NEW s \in Nat, NEW r \in Nat,
         4 * (r * r) < 4 * ((s + 1) * (s + 1)) + x * x + 4 * (x * s)
  PROVE  2 * r < 2 * s + x + 2
<1> DEFINE y == 2 * s + x + 2
<1>1. SUFFICES ASSUME y <= 2 * r PROVE FALSE
  BY DEF y
<1>2. y \in Nat /\ 2 * r \in Nat
  OBVIOUS
<1>3. y * y <= (2 * r) * (2 * r)
  <2> HIDE DEF y
  <2>1. y * y <= (2 * r) * y /\ (2 * r) * y <= (2 * r) * (2 * r)
    BY <1>1, <1>2
  <2> QED
    BY <2>1, <1>2
<1>4. (2 * r) * (2 * r) = 4 * (r * r)
  OBVIOUS
<1>5. y * y = 4 * ((s + 1) * (s + 1)) + x * x + 4 * (x * s) + 4 * x
  BY DEF y
<1>6. s * s \in Nat /\ x * x \in Nat /\ x * s \in Nat /\ r * r \in Nat /\ (s + 1) * (s + 1) \in Nat
  OBVIOUS
<1> QED
  BY <1>3, <1>4, <1>5, <1>6

LEMMA RootBelow ==
  ASSUME NEW x \in Nat, NEW y \in Nat, NEW d \in Nat, NEW k \in Nat,
         x * x < y * y + d, d < (k + 1) * (k + 1)
  PROVE  x <= y + k
<1>1. SUFFICES ASSUME y + k + 1 <= x PROVE FALSE
  OBVIOUS
<1> DEFINE z == y + k + 1
<1>2. z \in Nat /\ z <= x
  BY <1>1
<1>3. z * z <= x * x
  <2> HIDE DEF z
  <2>1. z * z <= x * z /\ x * z <= x * x
    BY <1>2
  <2> QED
    BY <2>1, <1>2
<1>4. z * z = y * y + 2 * (y * (k + 1)) + (k + 1) * (k + 1)
  BY DEF z
<1>5. y * (k + 1) \in Nat
  OBVIOUS
<1>6. y * y \in Nat /\ x * x \in Nat /\ (k + 1) * (k + 1) \in Nat
  OBVIOUS
<1> QED
  BY <1>3, <1>4, <1>5, <1>6

\* What the formula adds to a balance, without its three roundings and with them.
LEMMA Issuance ==
  ASSUME NEW m \in Nat, NEW b \in Nat, NEW t \in Nat
  PROVE  LET added == 4 * (WAD * (computeZEROBalance(m, b, t) - b))
             exact == m * (t * t) + 4 * (t * sqrt(m * b * WAD))
         IN  /\ computeZEROBalance(m, b, t) \in Nat
             /\ added <= exact /\ exact < added + (m + 7) * WAD
<1> DEFINE s == sqrt(m * b * WAD)
           p == (t * t) \div WAD
           e == (m * p) \div 4
           f == (t * s) \div WAD
<1>0. WAD \in Nat \ {0} /\ m * b \in Nat /\ m * b * WAD \in Nat
  BY LibZEROAssumption, ProductNat
<1>1. s \in Nat
  BY <1>0, SqrtExists
<1>2. computeZEROBalance(m, b, t) = b + e + f
  BY DEF computeZEROBalance, mulWadDown
<1> HIDE DEF s
<1>3. t * t \in Nat /\ t * s \in Nat
  BY <1>1, ProductNat
<1>4. p \in Nat /\ p * WAD <= t * t /\ t * t < p * WAD + WAD
  BY <1>0, <1>3, Rounded
<1> HIDE DEF p
<1>5. m * p \in Nat /\ 4 \in Nat \ {0}
  BY <1>4, ProductNat
<1>6. e \in Nat /\ e * 4 <= m * p /\ m * p < e * 4 + 4
  BY <1>5, Rounded
<1>7. f \in Nat /\ f * WAD <= t * s /\ t * s < f * WAD + WAD
  BY <1>0, <1>3, Rounded
<1> HIDE DEF e, f
<1> DEFINE P == p * WAD  T == t * t  F == f * WAD  S == t * s  E == e * WAD
<1>8. P \in Nat /\ T \in Nat /\ F \in Nat /\ S \in Nat /\ E \in Nat
  BY <1>0, <1>1, <1>4, <1>6, <1>7, ProductNat
<1>9. m * P <= m * T /\ m * T <= m * P + m * WAD
  <2>1. P <= T /\ T <= P + WAD /\ P + WAD \in Nat
    BY <1>0, <1>4, <1>8
  <2> HIDE DEF P, T
  <2>2. P * m <= T * m /\ T * m <= (P + WAD) * m
    BY <2>1, <1>8, ProductMonotone
  <2> QED
    BY <2>2, <1>0, <1>8
<1>10. 4 * E <= m * P /\ m * P <= 4 * E + 3 * WAD
  <2> DEFINE q == m * p
  <2>1. e * 4 <= q /\ q <= e * 4 + 3 /\ q \in Nat /\ e * 4 \in Nat /\ e * 4 + 3 \in Nat
    BY <1>5, <1>6
  <2>2. m * P = q * WAD
    BY <1>0, <1>4
  <2> HIDE DEF q
  <2>3. (e * 4) * WAD <= q * WAD /\ q * WAD <= (e * 4 + 3) * WAD
    BY <2>1, <1>0, ProductMonotone
  <2>4. (e * 4) * WAD = 4 * E /\ (e * 4 + 3) * WAD = 4 * E + 3 * WAD
    BY <1>0, <1>6
  <2> QED
    BY <2>2, <2>3, <2>4
<1>11. 4 * (WAD * (computeZEROBalance(m, b, t) - b)) = 4 * E + 4 * F
  <2>1. computeZEROBalance(m, b, t) - b = e + f
    BY <1>2, <1>6, <1>7
  <2>2. WAD * (e + f) = e * WAD + f * WAD
    BY <1>0, <1>6, <1>7
  <2> QED
    BY <2>1, <2>2, <1>8
<1>12. F <= S /\ S <= F + WAD - 1
  BY <1>7, <1>8, <1>0
<1>13. (m + 7) * WAD = m * WAD + 7 * WAD /\ m * WAD \in Nat /\ m * P \in Nat /\ m * T \in Nat
  BY <1>0, <1>8, ProductNat
<1>14. computeZEROBalance(m, b, t) \in Nat
  BY <1>2, <1>6, <1>7
<1>15. m * (t * t) = m * T /\ t * sqrt(m * b * WAD) = S
  BY DEF s
<1> HIDE DEF P, T, F, S, E
<1>16. 4 * E + 4 * F <= m * T + 4 * S
  BY <1>8, <1>9, <1>10, <1>12, <1>13
<1>17. m * T + 4 * S < 4 * E + 4 * F + (m + 7) * WAD
  BY <1>0, <1>8, <1>9, <1>10, <1>12, <1>13
<1> QED
  BY <1>11, <1>14, <1>15, <1>16, <1>17

\* A balance brought up to date in the middle is about what it would have been.
LEMMA SnapshotInBetween ==
  ASSUME NEW m \in Nat, NEW b \in Nat, NEW t \in Nat, NEW u \in Nat
  PROVE  LET between == computeZEROBalance(m, computeZEROBalance(m, b, t), u)
             once    == computeZEROBalance(m, b, t + u)
             k       == sqrt(m * (m + 7) * WAD)
         IN  /\ between \in Nat /\ once \in Nat /\ k \in Nat
             /\ 4 * (WAD * between) <= 4 * (WAD * once) + (m + 7) * WAD + 2 * u
             /\ 4 * (WAD * once) <= 4 * (WAD * between) + 2 * ((m + 7) * WAD) + 2 * (u * (k + 2))
<1> DEFINE c1 == computeZEROBalance(m, b, t)
           c2 == computeZEROBalance(m, c1, u)
           c3 == computeZEROBalance(m, b, t + u)
           D  == (m + 7) * WAD
           s  == sqrt(m * b * WAD)
           r  == sqrt(m * c1 * WAD)
           k  == sqrt(m * (m + 7) * WAD)
<1>0. WAD \in Nat \ {0}
  BY LibZEROAssumption
<1>1. /\ c1 \in Nat
      /\ 4 * (WAD * (c1 - b)) <= m * (t * t) + 4 * (t * s)
      /\ m * (t * t) + 4 * (t * s) < 4 * (WAD * (c1 - b)) + D
  BY Issuance
<1>2. /\ c3 \in Nat
      /\ 4 * (WAD * (c3 - b)) <= m * ((t + u) * (t + u)) + 4 * ((t + u) * s)
      /\ m * ((t + u) * (t + u)) + 4 * ((t + u) * s) < 4 * (WAD * (c3 - b)) + D
  <2>1. t + u \in Nat
    OBVIOUS
  <2> QED
    BY <2>1, Issuance
<1> HIDE DEF c1
<1>3. /\ c2 \in Nat
      /\ 4 * (WAD * (c2 - c1)) <= m * (u * u) + 4 * (u * r)
      /\ m * (u * u) + 4 * (u * r) < 4 * (WAD * (c2 - c1)) + D
  BY <1>1, Issuance
<1>4. /\ m * b * WAD \in Nat /\ m * c1 * WAD \in Nat
      /\ m * (m + 7) * WAD \in Nat /\ D \in Nat
  BY <1>0, <1>1, ProductNat
<1>5. /\ s \in Nat /\ s * s <= m * b * WAD /\ m * b * WAD < (s + 1) * (s + 1)
      /\ r \in Nat /\ r * r <= m * c1 * WAD /\ m * c1 * WAD < (r + 1) * (r + 1)
      /\ k \in Nat /\ m * (m + 7) * WAD < (k + 1) * (k + 1)
  BY <1>4, SqrtExists
<1> HIDE DEF c2, c3, D, s, r, k
<1> DEFINE x == m * t
           G == WAD * (c1 - b)
           B == m * b * WAD
           C == m * c1 * WAD
<1>6. x \in Nat /\ x * x = m * (m * (t * t)) /\ x * s = m * (t * s)
  BY <1>5, ProductNat
<1>7. G \in Int /\ C = B + m * G
  BY <1>0, <1>1
<1>8. /\ 4 * (m * G) <= x * x + 4 * (x * s)
      /\ x * x + 4 * (x * s) <= 4 * (m * G) + m * D
  <2> DEFINE A == m * (t * t) + 4 * (t * s)
  <2>1. A \in Nat /\ 4 * G <= A /\ A <= 4 * G + D
    <3>1. A \in Nat
      BY <1>5, ProductNat
    <3>2. 4 * G <= A /\ A < 4 * G + D
      BY <1>1
    <3> HIDE DEF A, G
    <3> QED
      BY <3>1, <3>2, <1>4, <1>7
  <2>2. m * A = x * x + 4 * (x * s)
    BY <1>5
  <2> HIDE DEF A, G
  <2>3. m * (4 * G) <= m * A /\ m * A <= m * (4 * G + D)
    BY <2>1, <1>4, <1>7
  <2>4. m * (4 * G) = 4 * (m * G) /\ m * (4 * G + D) = 4 * (m * G) + m * D
    BY <1>4, <1>7
  <2> QED
    BY <2>2, <2>3, <2>4
<1> HIDE DEF x, G, B, C
\* The root after the snapshot is that before it and half of what the multiple
\* adds, up to one and k.
<1>9. 2 * r < 2 * s + x + 2
  <2>1. 4 * (r * r) < 4 * ((s + 1) * (s + 1)) + x * x + 4 * (x * s)
    <3>1. r * r \in Nat /\ (s + 1) * (s + 1) \in Nat /\ x * x \in Nat /\ x * s \in Nat /\ m * G \in Int
      BY <1>5, <1>6, <1>7, ProductNat
    <3>2. r * r <= B + m * G /\ B < (s + 1) * (s + 1) /\ B \in Nat
      BY <1>4, <1>5, <1>7 DEF B, C
    <3> QED
      BY <3>1, <3>2, <1>8
  <2> QED
    BY <2>1, <1>5, <1>6, RootAbove
<1>10. 2 * s + x <= 2 * (r + 1) + k
  <2> DEFINE v == 2 * s + x
             w == 2 * (r + 1)
             d == m * (m + 7) * WAD
  <2>1. v \in Nat /\ w \in Nat /\ d \in Nat
    BY <1>4, <1>5, <1>6
  <2>2. v * v = 4 * (s * s) + x * x + 4 * (x * s) /\ w * w = 4 * ((r + 1) * (r + 1))
    BY <1>5, <1>6
  <2>3. d = m * D
    BY <1>0 DEF D
  <2>4. /\ s * s <= B /\ B + m * G < (r + 1) * (r + 1) /\ B \in Nat
        /\ s * s \in Nat /\ (r + 1) * (r + 1) \in Nat /\ m * G \in Int /\ x * x \in Nat /\ x * s \in Nat
    BY <1>4, <1>5, <1>6, <1>7, ProductNat DEF B, C
  <2>5. d < (k + 1) * (k + 1)
    BY <1>5
  <2> HIDE DEF v, w, d
  <2>6. v * v < w * w + d
    BY <2>1, <2>2, <2>3, <2>4, <1>8
  <2>7. v <= w + k
    BY <2>1, <2>5, <2>6, <1>5, RootBelow
  <2> QED
    BY <2>7 DEF v, w
\* Both times at once make the square of the sum.
<1>11. m * ((t + u) * (t + u)) = m * (t * t) + m * (u * u) + 2 * (u * x)
  BY DEF x
<1>12. (t + u) * s = t * s + u * s
  BY <1>5
<1>13. /\ 2 * (u * r) <= 2 * (u * s) + u * x + u
       /\ 2 * (u * s) + u * x <= 2 * (u * r) + u * (k + 2)
  <2>1. 2 * r \in Nat /\ 2 * s + x + 1 \in Nat /\ 2 * r <= 2 * s + x + 1
    BY <1>5, <1>6, <1>9
  <2>2. 2 * s + x \in Nat /\ 2 * r + (k + 2) \in Nat /\ 2 * s + x <= 2 * r + (k + 2)
    BY <1>5, <1>6, <1>10
  <2>3. (2 * r) * u <= (2 * s + x + 1) * u /\ (2 * s + x) * u <= (2 * r + (k + 2)) * u
    BY <2>1, <2>2, ProductMonotone
  <2>4. /\ (2 * r) * u = 2 * (u * r) /\ (2 * s + x + 1) * u = 2 * (u * s) + u * x + u
        /\ (2 * s + x) * u = 2 * (u * s) + u * x /\ (2 * r + (k + 2)) * u = 2 * (u * r) + u * (k + 2)
    BY <1>5, <1>6
  <2> QED
    BY <2>3, <2>4
<1>14. /\ m * (t * t) \in Nat /\ m * (u * u) \in Nat /\ u * x \in Nat /\ t * s \in Nat /\ u * s \in Nat
       /\ u * r \in Nat /\ u * (k + 2) \in Nat
  BY <1>5, <1>6, ProductNat
<1>15. /\ WAD * (c1 - b) = WAD * c1 - WAD * b /\ WAD * (c2 - c1) = WAD * c2 - WAD * c1
       /\ WAD * (c3 - b) = WAD * c3 - WAD * b
       /\ WAD * b \in Nat /\ WAD * c1 \in Nat /\ WAD * c2 \in Nat /\ WAD * c3 \in Nat
  BY <1>0, <1>1, <1>2, <1>3, ProductNat
<1>16. 4 * (WAD * c2) <= 4 * (WAD * c3) + D + 2 * u
  BY <1>1, <1>2, <1>3, <1>4, <1>11, <1>12, <1>13, <1>14, <1>15
<1>17. 4 * (WAD * c3) <= 4 * (WAD * c2) + 2 * D + 2 * (u * (k + 2))
  BY <1>1, <1>2, <1>3, <1>4, <1>11, <1>12, <1>13, <1>14, <1>15
<1> QED
  BY <1>2, <1>3, <1>5, <1>16, <1>17 DEF c1, c2, c3, D, k

LEMMA BalanceGrows ==
  ASSUME NEW m \in Nat, NEW b \in Nat, NEW t \in Nat, NEW u \in Nat, t <= u
  PROVE  computeZEROBalance(m, b, t) <= computeZEROBalance(m, b, u)
<1> DEFINE s == sqrt(m * b * WAD)
<1>0. WAD \in Nat \ {0} /\ m * b * WAD \in Nat
  BY LibZEROAssumption, ProductNat
<1>1. s \in Nat
  BY <1>0, SqrtExists
<1> HIDE DEF s
<1>2. ASSUME NEW x \in Nat, NEW y \in Nat, NEW d \in Nat \ {0}, x <= y
      PROVE  x \div d <= y \div d /\ x \div d \in Nat /\ y \div d \in Nat
  <2>1. x \div d \in Nat /\ y \div d \in Nat /\ (x \div d) * d <= x /\ (x \div d) * d \in Nat
    BY DivNat, Rounded, ProductNat
  <2>2. (x \div d) * d <= y
    BY <2>1, <1>2
  <2> QED
    BY <2>1, <2>2, DivBound
<1>3. t * t <= u * u /\ t * t \in Nat /\ u * u \in Nat
  <2>1. t * t <= u * t /\ t * u <= u * u /\ t * t \in Nat /\ u * t \in Nat /\ u * u \in Nat
    BY ProductMonotone
  <2> QED
    BY <2>1
<1>4. t * s <= u * s /\ t * s \in Nat /\ u * s \in Nat
  BY <1>1, ProductMonotone
<1> DEFINE p == (t * t) \div WAD  q == (u * u) \div WAD
<1>5. p <= q /\ p \in Nat /\ q \in Nat
  BY <1>0, <1>2, <1>3
<1> HIDE DEF p, q
<1>6. m * p <= m * q /\ m * p \in Nat /\ m * q \in Nat
  <2>1. p * m <= q * m /\ p * m \in Nat /\ q * m \in Nat
    BY <1>5, ProductMonotone
  <2> QED
    BY <2>1, <1>5
<1>7. (m * p) \div 4 <= (m * q) \div 4 /\ (m * p) \div 4 \in Nat /\ (m * q) \div 4 \in Nat
  <2>1. 4 \in Nat \ {0}
    OBVIOUS
  <2> QED
    BY <2>1, <1>2, <1>6
<1>8. (t * s) \div WAD <= (u * s) \div WAD /\ (t * s) \div WAD \in Nat /\ (u * s) \div WAD \in Nat
  BY <1>0, <1>2, <1>4
<1> QED
  BY <1>7, <1>8 DEF computeZEROBalance, mulWadDown, p, q, s

\* Days are rounded down, the more often the more.
LEMMA DaysAdd ==
  ASSUME NEW first \in Nat, NEW second \in Nat
  PROVE  toDaysWad(first) + toDaysWad(second) <= toDaysWad(first + second)
<1> DEFINE x == first * WAD  y == second * WAD
<1>1. x \in Nat /\ y \in Nat /\ Day \in Nat \ {0} /\ (first + second) * WAD = x + y /\ x + y \in Nat
  BY LibZEROAssumption, ProductNat
<1>2. toDaysWad(first) = x \div Day /\ toDaysWad(second) = y \div Day
      /\ toDaysWad(first + second) = (x + y) \div Day
  BY <1>1 DEF toDaysWad
<1> HIDE DEF x, y
<1> DEFINE q == x \div Day  r == y \div Day
<1>3. q \in Nat /\ r \in Nat /\ q * Day <= x /\ r * Day <= y
  BY <1>1, Rounded
<1> HIDE DEF q, r
<1>4. (q + r) * Day = q * Day + r * Day /\ q * Day \in Nat /\ r * Day \in Nat /\ q + r \in Nat
  BY <1>1, <1>3, ProductNat
<1>5. (q + r) * Day <= x + y
  BY <1>1, <1>3, <1>4
<1>6. q + r <= (x + y) \div Day
  BY <1>1, <1>4, <1>5, DivBound
<1> QED
  BY <1>2, <1>6 DEF q, r

(***************************************************************************)
(* Bringing a balance up to date between two times gains next to nothing:  *)
(* at most a quarter of the multiple and two units more of 1e-18 ZERO,     *)
(* and half a unit for each day after it, whatever the balance and the     *)
(* times.  It is what testSnapshotDoesNotAffectBalance tests at a point,   *)
(* and why no account earns more by depositing and withdrawing often.      *)
(***************************************************************************)
THEOREM SnapshotsEarnNoMore ==
  ASSUME NEW multiple \in Nat, NEW balance \in Nat, NEW first \in Nat, NEW second \in Nat
  PROVE  LET early == computeZEROBalance(multiple, balance, toDaysWad(first))
             twice == computeZEROBalance(multiple, early, toDaysWad(second))
             once  == computeZEROBalance(multiple, balance, toDaysWad(first + second))
         IN  4 * (WAD * twice) <= 4 * (WAD * once) + (multiple + 7) * WAD + 2 * toDaysWad(second)
<1> DEFINE t == toDaysWad(first)
           u == toDaysWad(second)
           v == toDaysWad(first + second)
           twice == computeZEROBalance(multiple, computeZEROBalance(multiple, balance, t), u)
           between == computeZEROBalance(multiple, balance, t + u)
           once == computeZEROBalance(multiple, balance, v)
<1>1. t \in Nat /\ u \in Nat /\ v \in Nat /\ t + u \in Nat /\ t + u <= v /\ WAD \in Nat
  <2>1. first + second \in Nat
    OBVIOUS
  <2>2. t \in Nat /\ u \in Nat /\ v \in Nat /\ t + u <= v
    BY <2>1, DaysNat, DaysAdd
  <2> QED
    BY <2>2, LibZEROAssumption
<1> HIDE DEF t, u, v
<1>2. twice \in Nat /\ between \in Nat
      /\ 4 * (WAD * twice) <= 4 * (WAD * between) + (multiple + 7) * WAD + 2 * u
  BY <1>1, SnapshotInBetween
<1>3. between <= once /\ once \in Nat
  BY <1>1, BalanceGrows, BalanceNeverFalls
<1> HIDE DEF twice, between, once
<1>4. WAD * between <= WAD * once /\ WAD * between \in Nat /\ WAD * once \in Nat
      /\ WAD * twice \in Nat /\ (multiple + 7) * WAD \in Nat
  <2>1. between * WAD <= once * WAD
    BY <1>1, <1>2, <1>3, ProductMonotone
  <2> QED
    BY <2>1, <1>1, <1>2, <1>3, ProductNat
<1>5. 4 * (WAD * twice) <= 4 * (WAD * once) + (multiple + 7) * WAD + 2 * u
  BY <1>1, <1>2, <1>4
<1> QED
  BY <1>5 DEF twice, once, t, u, v

(***************************************************************************)
(* And it loses next to nothing: for each day after it about half the      *)
(* multiple times the square root of WAD, in units of 1 / WAD, so that     *)
(* with a WAD of 1e18 it is half a billionth of a ZERO for each multiple.  *)
(***************************************************************************)
THEOREM SnapshotsCostLittle ==
  ASSUME NEW multiple \in Nat, NEW balance \in Nat, NEW first \in Nat, NEW second \in Nat
  PROVE  LET early == computeZEROBalance(multiple, balance, first)
             twice == computeZEROBalance(multiple, early, second)
             once  == computeZEROBalance(multiple, balance, first + second)
             slack == sqrt(multiple * (multiple + 7) * WAD) + 2
         IN  4 * (WAD * once)
               <= 4 * (WAD * twice) + 2 * ((multiple + 7) * WAD) + 2 * (second * slack)
BY SnapshotInBetween

-------------------------------------------------------------------------------
(* The shuffle *)

IdxType == [Ids -> {0} \cup NonLegendaryIds]

Permuted(indices) ==
  \A i, j \in NonLegendaryIds :
    /\ IndexOf(indices, i) \in NonLegendaryIds
    /\ IndexOf(indices, i) = IndexOf(indices, j) => i = j

State == [idx : IdxType, seed : Seeds, last : 0..(FIRST_LEGENDARY_APE_ID - 1)]

LEMMA FirstLegendaryNat ==
  /\ FIRST_LEGENDARY_APE_ID \in Nat
  /\ FIRST_LEGENDARY_APE_ID >= 1
  /\ FIRST_LEGENDARY_APE_ID - 1 <= MAX_SUPPLY
  /\ MAX_SUPPLY \in Nat
  /\ NonLegendaryIds \subseteq Ids
BY SupplyAssumption DEF FIRST_LEGENDARY_APE_ID, NonLegendaryIds, Ids

(***************************************************************************)
(* One draw keeps the indices a permutation, leaves every id before it     *)
(* alone and gives the next id an index that is set.                       *)
(***************************************************************************)
LEMMA DrawPermutes ==
  ASSUME NEW s \in State, Permuted(s.idx), s.last < FIRST_LEGENDARY_APE_ID - 1
  PROVE  /\ Draw(s) \in State
         /\ Draw(s).last = s.last + 1
         /\ Permuted(Draw(s).idx)
         /\ \A id \in 1..s.last : Draw(s).idx[id] = s.idx[id]
         /\ Draw(s).idx[s.last + 1] # 0
<1> DEFINE L == FIRST_LEGENDARY_APE_ID - 1
           remaining == FIRST_LEGENDARY_APE_ID - s.last - 1
           current == s.last + 1
           swap == current + (s.seed % remaining)
           new == [s.idx EXCEPT ![current] = IndexOf(s.idx, swap), ![swap] = IndexOf(s.idx, current)]
<1>0. L \in Nat /\ NonLegendaryIds = 1..L /\ NonLegendaryIds \subseteq Ids
  BY FirstLegendaryNat DEF NonLegendaryIds
<1>1. s.last \in 0..L /\ s.seed \in Nat /\ s.idx \in IdxType /\ s.last < L
  BY SeedAssumption DEF State
<1>2. remaining \in Nat /\ remaining > 0 /\ remaining = L - s.last
  BY <1>0, <1>1, FirstLegendaryNat
<1>3. s.seed % remaining \in 0..(remaining - 1)
  BY <1>1, <1>2
<1>4. current \in 1..L /\ swap \in current..L
  <2>1. PICK drawn : drawn = s.seed % remaining
    OBVIOUS
  <2>2. drawn \in Nat /\ drawn < L - s.last
    BY <1>0, <1>1, <1>2, <1>3, <2>1
  <2>3. current = s.last + 1 /\ swap = current + drawn
    BY <2>1
  <2> HIDE DEF current, swap, remaining
  <2> QED
    BY <1>0, <1>1, <2>2, <2>3
<1>5. Draw(s) = [idx |-> new, seed |-> NextSeed(s.seed), last |-> current]
  BY DEF Draw
<1> HIDE DEF remaining, current, swap, L
<1>6. current \in NonLegendaryIds /\ swap \in NonLegendaryIds /\ current \in Ids /\ swap \in Ids
  BY <1>0, <1>4
<1>7. /\ new \in IdxType
      /\ new[current] = IndexOf(s.idx, swap)
      /\ new[swap] = IndexOf(s.idx, current)
      /\ \A i \in NonLegendaryIds : i # current /\ i # swap => new[i] = s.idx[i]
  <2>1. IndexOf(s.idx, swap) \in NonLegendaryIds /\ IndexOf(s.idx, current) \in NonLegendaryIds
    BY <1>6 DEF Permuted
  <2>2. swap = current => IndexOf(s.idx, swap) = IndexOf(s.idx, current)
    OBVIOUS
  <2>3. s.idx \in [Ids -> {0} \cup NonLegendaryIds]
    BY <1>1 DEF IdxType
  <2>4. DOMAIN new = Ids /\ DOMAIN s.idx = Ids
    BY <2>3
  <2>5. new[current] = IndexOf(s.idx, swap)
    BY <1>6, <2>2, <2>4
  <2>6. new[swap] = IndexOf(s.idx, current)
    BY <1>6, <2>2, <2>4
  <2>7. \A i \in Ids : i # current /\ i # swap => new[i] = s.idx[i]
    BY <2>4
  <2>8. \A i \in Ids : new[i] \in {0} \cup NonLegendaryIds
    BY <2>1, <2>3, <2>5, <2>6, <2>7
  <2>9. new = [i \in Ids |-> new[i]]
    BY <2>3
  <2> HIDE DEF new
  <2>10. new \in IdxType
    BY <2>8, <2>9 DEF IdxType
  <2> QED
    BY <1>0, <2>5, <2>6, <2>7, <2>10
<1>8. 0 \notin NonLegendaryIds
  BY <1>0
<1>9. /\ IndexOf(new, current) = IndexOf(s.idx, swap)
      /\ IndexOf(new, swap) = IndexOf(s.idx, current)
      /\ \A i \in NonLegendaryIds : i # current /\ i # swap => IndexOf(new, i) = IndexOf(s.idx, i)
  <2>1. IndexOf(s.idx, swap) # 0 /\ IndexOf(s.idx, current) # 0
    BY <1>6, <1>8 DEF Permuted
  <2> QED
    BY <1>7, <2>1 DEF IndexOf
<1>10. Permuted(new)
  <2> HIDE DEF new
  <2> SUFFICES ASSUME NEW i \in NonLegendaryIds, NEW j \in NonLegendaryIds
               PROVE  /\ IndexOf(new, i) \in NonLegendaryIds
                      /\ IndexOf(new, i) = IndexOf(new, j) => i = j
    BY DEF Permuted
  <2>1. \A a, b \in NonLegendaryIds : /\ IndexOf(s.idx, a) \in NonLegendaryIds
                                      /\ IndexOf(s.idx, a) = IndexOf(s.idx, b) => a = b
    BY DEF Permuted
  <2> DEFINE F(a) == IndexOf(s.idx, a)
             G(a) == IndexOf(new, a)
  <2>2. /\ G(current) = F(swap) /\ G(swap) = F(current)
        /\ \A a \in NonLegendaryIds : a # current /\ a # swap => G(a) = F(a)
    BY <1>9
  <2>3. \A a, b \in NonLegendaryIds : F(a) \in NonLegendaryIds /\ (F(a) = F(b) => a = b)
    BY <2>1
  <2> HIDE DEF F, G
  <2>4. G(i) \in NonLegendaryIds /\ (G(i) = G(j) => i = j)
    BY <1>6, <2>2, <2>3
  <2> QED
    BY <2>4 DEF G
<1>11. \A id \in 1..s.last : new[id] = s.idx[id]
  BY <1>0, <1>1, <1>4, <1>7 DEF current
<1>12. new[current] # 0
  BY <1>6, <1>7, <1>8 DEF Permuted
<1>13. NextSeed(s.seed) \in Seeds
  BY SeedAssumption DEF State
<1>14. current \in 0..(FIRST_LEGENDARY_APE_ID - 1)
  BY <1>0, <1>4 DEF L
<1> QED
  BY <1>14, <1>5, <1>7, <1>10, <1>11, <1>12, <1>13 DEF State, current

-------------------------------------------------------------------------------
\* f lists the states of n draws from s.
RunOf(s, n, f) == f = [i \in 0..n |-> IF i = 0 THEN s ELSE Draw(f[i - 1])]

\* The loop has such a list for every number of draws, and Draws ends it.
LEMMA RunExists ==
  ASSUME NEW s, NEW n \in Nat
  PROVE  \E f : RunOf(s, n, f)
<1> DEFINE N == {k \in Nat : \E f : RunOf(s, k, f)}
<1>1. 0 \in N
  <2> DEFINE f == [i \in 0..0 |-> s]
  <2>1. RunOf(s, 0, f)
    BY DEF RunOf
  <2> QED
    BY <2>1
<1>2. ASSUME NEW k \in N PROVE k + 1 \in N
  <2>1. PICK f : RunOf(s, k, f)
    OBVIOUS
  <2> DEFINE g == [i \in 0..(k + 1) |-> IF i = k + 1 THEN Draw(f[k]) ELSE f[i]]
             D(x) == Draw(x)
  <2>2. \A i \in 0..k : f[i] = IF i = 0 THEN s ELSE D(f[i - 1])
    BY <2>1 DEF RunOf
  <2>3. g[k + 1] = D(f[k])
    OBVIOUS
  <2> HIDE DEF D
  <2>4. ASSUME NEW i \in 0..(k + 1) PROVE g[i] = IF i = 0 THEN s ELSE D(g[i - 1])
    <3>1. CASE i = k + 1
      <4>1. g[i - 1] = f[k] /\ i # 0
        BY <3>1
      <4> QED
        BY <3>1, <4>1, <2>3
    <3>2. CASE i # k + 1
      <4>1. i \in 0..k /\ g[i] = f[i]
        BY <3>2
      <4>2. i # 0 => g[i - 1] = f[i - 1]
        BY <3>2
      <4> QED
        BY <4>1, <4>2, <2>2
    <3> QED
      BY <3>1, <3>2
  <2>5. RunOf(s, k + 1, g)
    BY <2>4 DEF RunOf, D
  <2> QED
    BY <2>5
<1>3. N = Nat
  BY <1>1, <1>2, NatSetInduction
<1> QED
  BY <1>3

LEMMA DrawsRun ==
  ASSUME NEW s, NEW n \in Nat
  PROVE  \E f : RunOf(s, n, f) /\ Draws(s, n) = f[n]
<1> DEFINE run == CHOOSE f : f = [i \in 0..n |-> IF i = 0 THEN s ELSE Draw(f[i - 1])]
<1>1. RunOf(s, n, run)
  BY RunExists DEF RunOf
<1>2. Draws(s, n) = run[n]
  BY DEF Draws
<1> QED
  BY <1>1, <1>2

LEMMA DrawsOfNone ==
  ASSUME NEW s
  PROVE  Draws(s, 0) = s
<1>1. PICK f : RunOf(s, 0, f) /\ Draws(s, 0) = f[0]
  BY DrawsRun
<1> QED
  BY <1>1 DEF RunOf

(***************************************************************************)
(* A batch of any number of draws, from any state of the shuffle that has  *)
(* that many ids left: the indices stay a permutation, the ids revealed    *)
(* before keep theirs, and every id of the batch gets one.                 *)
(***************************************************************************)
THEOREM DrawsPermute ==
  ASSUME NEW s \in State, NEW n \in Nat, Permuted(s.idx),
         s.last + n <= FIRST_LEGENDARY_APE_ID - 1
  PROVE  /\ Draws(s, n) \in State
         /\ Draws(s, n).last = s.last + n
         /\ Permuted(Draws(s, n).idx)
         /\ \A id \in 1..s.last : Draws(s, n).idx[id] = s.idx[id]
         /\ \A id \in (s.last + 1)..(s.last + n) : Draws(s, n).idx[id] # 0
<1>1. PICK f : RunOf(s, n, f) /\ Draws(s, n) = f[n]
  BY DrawsRun
<1> DEFINE Good(k) == /\ f[k] \in State
                      /\ f[k].last = s.last + k
                      /\ Permuted(f[k].idx)
                      /\ \A id \in 1..s.last : f[k].idx[id] = s.idx[id]
                      /\ \A id \in (s.last + 1)..(s.last + k) : f[k].idx[id] # 0
           N == {k \in Nat : k <= n => Good(k)}
<1>2. s.last \in Nat /\ FIRST_LEGENDARY_APE_ID \in Nat
  BY FirstLegendaryNat DEF State
<1>3. 0 \in N
  <2>1. f[0] = s
    BY <1>1 DEF RunOf
  <2> QED
    BY <1>2, <2>1
<1>4. ASSUME NEW k \in N PROVE k + 1 \in N
  <2> SUFFICES ASSUME k + 1 <= n PROVE Good(k + 1)
    OBVIOUS
  <2>1. Good(k)
    OBVIOUS
  <2>2. f[k + 1] = Draw(f[k])
    BY <1>1 DEF RunOf
  <2>3. f[k].last < FIRST_LEGENDARY_APE_ID - 1
    BY <1>2, <2>1
  <2>4. /\ Draw(f[k]) \in State
        /\ Draw(f[k]).last = f[k].last + 1
        /\ Permuted(Draw(f[k]).idx)
        /\ \A id \in 1..f[k].last : Draw(f[k]).idx[id] = f[k].idx[id]
        /\ Draw(f[k]).idx[f[k].last + 1] # 0
    BY <2>1, <2>3, DrawPermutes
  <2>5. \A id \in 1..(s.last + k) : f[k + 1].idx[id] = f[k].idx[id]
    BY <2>1, <2>2, <2>4
  <2>6. f[k + 1].idx[s.last + k + 1] # 0
    BY <1>2, <2>1, <2>2, <2>4
  <2>7. \A id \in 1..s.last : f[k + 1].idx[id] = s.idx[id]
    BY <1>2, <2>1, <2>5
  <2>8. ASSUME NEW id \in (s.last + 1)..(s.last + (k + 1)) PROVE f[k + 1].idx[id] # 0
    <3>1. CASE id = s.last + k + 1
      BY <2>6, <3>1
    <3>2. CASE id # s.last + k + 1
      <4>1. id \in 1..(s.last + k) /\ id \in (s.last + 1)..(s.last + k)
        BY <1>2, <3>2
      <4> QED
        BY <4>1, <2>1, <2>5
    <3> QED
      BY <3>1, <3>2
  <2>9. f[k + 1].last = s.last + (k + 1)
    BY <1>2, <2>1, <2>2, <2>4
  <2> QED
    BY <2>2, <2>4, <2>7, <2>8, <2>9
<1>5. N = Nat
  BY <1>3, <1>4, NatSetInduction
<1>6. Good(n)
  BY <1>5
<1> QED
  BY <1>1, <1>6

-------------------------------------------------------------------------------
(* The supply and the rounds *)

LEMMA SupplyNumbers ==
  /\ GeneralSupply \in Nat /\ RESERVED_SUPPLY \in Nat
  /\ MAX_MINTABLE \in Nat /\ LEGENDARY_AUCTION_INTERVAL \in Nat \ {0}
  /\ GeneralSupply = MAX_MINTABLE + RESERVED_SUPPLY
  /\ FIRST_LEGENDARY_APE_ID = MINTLIST_SUPPLY + MAX_MINTABLE + RESERVED_SUPPLY + 1
  /\ MINTLIST_SUPPLY \in Nat /\ LEGENDARY_SUPPLY \in Nat
  /\ MAX_SUPPLY = FIRST_LEGENDARY_APE_ID + LEGENDARY_SUPPLY - 1
<1>1. GeneralSupply \in Nat /\ ReserveDivisor \in Nat \ {0}
  BY SupplyAssumption DEF GeneralSupply
<1>2. RESERVED_SUPPLY \in Nat
  BY <1>1, DivNat DEF RESERVED_SUPPLY
<1>3. RESERVED_SUPPLY <= GeneralSupply
  <2>1. RESERVED_SUPPLY * ReserveDivisor <= GeneralSupply
    BY <1>1, <1>2, DivBound DEF RESERVED_SUPPLY
  <2>2. RESERVED_SUPPLY * 1 <= RESERVED_SUPPLY * ReserveDivisor
    <3>1. 1 * RESERVED_SUPPLY <= ReserveDivisor * RESERVED_SUPPLY
      BY <1>1, <1>2, ProductMonotone
    <3> QED
      BY <3>1, <1>1, <1>2
  <2> QED
    BY <1>1, <1>2, <2>1, <2>2
<1>4. MAX_MINTABLE \in Nat
  BY <1>1, <1>2, <1>3 DEF MAX_MINTABLE
<1>5. LEGENDARY_AUCTION_INTERVAL \in Nat \ {0}
  <2>1. LEGENDARY_SUPPLY + 1 \in Nat \ {0}
    BY SupplyAssumption
  <2>2. LEGENDARY_AUCTION_INTERVAL \in Nat
    BY <1>4, <2>1, DivNat DEF LEGENDARY_AUCTION_INTERVAL
  <2> QED
    BY <2>2, SupplyAssumption
<1> QED
  BY <1>1, <1>2, <1>4, <1>5, SupplyAssumption
  DEF GeneralSupply, MAX_MINTABLE, FIRST_LEGENDARY_APE_ID

MintInv ==
  /\ hasClaimed \subseteq MintList
  /\ numMintedFromZero \in 0..MAX_MINTABLE
  /\ numMintedForReserves \in Nat
  /\ numMintedForReserves * ReserveDivisor <= numMintedFromZero + numMintedForReserves
  /\ currentNonLegendaryId = Cardinality(hasClaimed) + numMintedFromZero + numMintedForReserves

LEMMA ClaimsCounted ==
  ASSUME NEW S \in SUBSET MintList
  PROVE  IsFiniteSet(S) /\ Cardinality(S) \in 0..MINTLIST_SUPPLY
<1>1. IsFiniteSet(S) /\ Cardinality(S) <= Cardinality(MintList)
  BY ZeroWarriorAssumption, FS_Subset
<1>2. Cardinality(S) \in Nat /\ Cardinality(MintList) \in Nat
  BY <1>1, ZeroWarriorAssumption, FS_CardinalityType
<1> QED
  BY <1>1, <1>2, ZeroWarriorAssumption, SupplyNumbers

LEMMA MintInit == Init => MintInv
<1> SUFFICES ASSUME Init PROVE MintInv
  OBVIOUS
<1>1. Cardinality({}) = 0
  BY FS_EmptySet
<1>2. 0 * ReserveDivisor = 0
  BY SupplyAssumption
<1> QED
  BY <1>1, <1>2, SupplyNumbers DEF Init, MintInv

LEMMA MintStep == MintInv /\ [Next]_vars => MintInv'
<1> SUFFICES ASSUME MintInv, [Next]_vars PROVE MintInv'
  OBVIOUS
<1> USE DEF MintInv
<1>0. /\ IsFiniteSet(hasClaimed) /\ Cardinality(hasClaimed) \in Nat
      /\ ReserveDivisor \in Nat \ {0} /\ MAX_MINTABLE \in Nat
  BY ClaimsCounted, SupplyAssumption, SupplyNumbers
<1>1. ASSUME NEW user \in Users, claimWarrior(user) PROVE MintInv'
  <2>1. Cardinality(hasClaimed \cup {user}) = Cardinality(hasClaimed) + 1
    BY <1>0, <1>1, FS_AddElement DEF claimWarrior
  <2> QED
    BY <1>0, <1>1, <2>1 DEF claimWarrior
<1>2. ASSUME NEW user \in Users, NEW maxPrice \in MaxPrices, NEW useVirtualBalance \in BOOLEAN,
             mintFromZero(user, maxPrice, useVirtualBalance)
      PROVE  MintInv'
  BY <1>0, <1>2 DEF mintFromZero
<1>3. ASSUME NEW numWarriorEach \in BatchSizes, mintReservedWarrior(numWarriorEach)
      PROVE  MintInv'
  <2>1. numWarriorEach \in Nat
    BY ZeroWarriorAssumption
  <2> DEFINE minted == numMintedForReserves + 2 * numWarriorEach
  <2>2. minted \in Nat /\ numMintedFromZero + minted \in Nat
    BY <2>1
  <2>3. minted <= (numMintedFromZero + minted) \div ReserveDivisor
    BY <1>3 DEF mintReservedWarrior
  <2>4. minted * ReserveDivisor <= numMintedFromZero + minted
    <3> HIDE DEF minted
    <3> QED
      BY <1>0, <2>2, <2>3, DivBound
  <2>5. /\ numMintedForReserves' = minted
        /\ currentNonLegendaryId' = currentNonLegendaryId + 2 * numWarriorEach
        /\ UNCHANGED <<hasClaimed, numMintedFromZero>>
    BY <1>3 DEF mintReservedWarrior
  <2> QED
    BY <1>0, <2>1, <2>4, <2>5
<1>4. ASSUME UNCHANGED supplyVars PROVE MintInv'
  BY <1>4 DEF supplyVars
<1>5. CASE UNCHANGED vars
  BY <1>4, <1>5 DEF vars
<1>6. CASE Next
  BY <1>1, <1>2, <1>3, <1>4, <1>6
  DEF Next, WarriorNext, Tick, mintLegendaryWarrior, requestRandomSeed, fulfillRandomness, upgradeRandProvider,
      revealWarrior, transferFrom, withdraw, moveAll, approveWarrior, setWarriorApprovalForAll,
      addZero, removeZero, burnZeroForZeroName, payForZeroName, transferZero
<1> QED
  BY <1>5, <1>6

(***************************************************************************)
(* SupplyWithinShares: no mix of claims, sales and reserve mints passes    *)
(* the share of any of them or reaches the ids kept for legendaries.       *)
(***************************************************************************)
LEMMA MintInvWithinShares == MintInv => SupplyWithinShares
<1> SUFFICES ASSUME MintInv PROVE SupplyWithinShares
  OBVIOUS
<1> DEFINE q == RESERVED_SUPPLY
           d == ReserveDivisor
           res == numMintedForReserves
<1>1. /\ q \in Nat /\ d \in Nat /\ d >= 2 /\ res \in Nat /\ numMintedFromZero \in Nat
      /\ numMintedFromZero <= MAX_MINTABLE /\ MAX_MINTABLE \in Nat
      /\ res * d <= numMintedFromZero + res
  BY SupplyNumbers, SupplyAssumption DEF MintInv
<1>2. GeneralSupply < q * d + d - 1 /\ GeneralSupply = MAX_MINTABLE + q
  <2>1. GeneralSupply = q * d + (GeneralSupply % d)
    BY <1>1, SupplyNumbers DEF RESERVED_SUPPLY
  <2> QED
    BY <2>1, <1>1, SupplyNumbers, SupplyAssumption
<1>3. res <= q
  <2> SUFFICES ASSUME q + 1 <= res PROVE FALSE
    BY <1>1
  <2> HIDE DEF q, d, res
  <2>1. (q + 1) * (d - 1) <= res * (d - 1)
    BY <1>1, ProductMonotone
  <2>2. res * (d - 1) = res * d - res /\ (q + 1) * (d - 1) = q * d - q + d - 1
    BY <1>1
  <2>3. res * d \in Nat /\ q * d \in Nat
    BY <1>1, ProductNat
  <2> QED
    BY <1>1, <1>2, <2>1, <2>2, <2>3
<1>4. Cardinality(hasClaimed) \in 0..MINTLIST_SUPPLY
  BY ClaimsCounted DEF MintInv
<1> QED
  BY <1>1, <1>3, <1>4, SupplyNumbers DEF MintInv, SupplyWithinShares

THEOREM SupplySafe == Spec => []SupplyWithinShares
<1>1. Spec => []MintInv
  BY MintInit, MintStep, PTL DEF Spec
<1> QED
  BY <1>1, MintInvWithinShares, PTL
-------------------------------------------------------------------------------
(* Rounds of reveals and the oracle *)

RoundInv ==
  /\ now \in Nat
  /\ lastRevealedId \in Nat /\ toBeRevealed \in Nat /\ waitingForSeed \in BOOLEAN
  /\ RoundCommitted
  /\ nextRevealTimestamp \in Nat
  /\ waitingForSeed => nextRevealTimestamp >= Day /\ nextRevealTimestamp - Day <= now

OracleInv ==
  /\ RequestsTypeOK /\ randProvider \in Providers
  /\ \A r \in requests : r.provider = randProvider => waitingForSeed /\ r.nonce = numRequests

LEMMA RoundInit == Init => RoundInv /\ OracleInv
<1> SUFFICES ASSUME Init PROVE RoundInv /\ OracleInv
  OBVIOUS
<1>1. waitingForSeed \in BOOLEAN /\ ~waitingForSeed
  BY DEF Init
<1>2. /\ now = 0 /\ currentNonLegendaryId = 0 /\ lastRevealedId = 0 /\ toBeRevealed = 0
      /\ nextRevealTimestamp = mintStart + Day
  BY DEF Init
<1>3. requests = {} /\ numRequests = 0
  BY DEF Init, RequestsInit
<1>4. mintStart \in Nat /\ Day \in Nat /\ MaxRequests \in Nat
  BY ZeroWarriorAssumption, LibZEROAssumption, ProvidersAssumption
<1>5. randProvider \in Providers
  BY DEF Init
<1> QED
  BY <1>1, <1>2, <1>3, <1>4, <1>5 DEF RoundInv, RoundCommitted, OracleInv, RequestsTypeOK

\* The id counter only grows.
LEMMA IdsGrow ==
  MintInv /\ [Next]_vars =>
    /\ currentNonLegendaryId \in Nat /\ currentNonLegendaryId' \in Nat
    /\ currentNonLegendaryId <= currentNonLegendaryId'
<1> SUFFICES ASSUME MintInv, [Next]_vars
             PROVE  /\ currentNonLegendaryId \in Nat /\ currentNonLegendaryId' \in Nat
                    /\ currentNonLegendaryId <= currentNonLegendaryId'
  OBVIOUS
<1>1. currentNonLegendaryId \in Nat
  BY ClaimsCounted, SupplyNumbers DEF MintInv
<1>2. \/ currentNonLegendaryId' = currentNonLegendaryId
      \/ currentNonLegendaryId' = currentNonLegendaryId + 1
      \/ \E n \in BatchSizes : currentNonLegendaryId' = currentNonLegendaryId + 2 * n
  BY DEF Next, WarriorNext, vars, supplyVars, claimWarrior, mintFromZero, mintReservedWarrior, Tick,
         mintLegendaryWarrior, requestRandomSeed, fulfillRandomness, upgradeRandProvider,
         revealWarrior, transferFrom, withdraw, moveAll, approveWarrior, setWarriorApprovalForAll,
         addZero, removeZero, burnZeroForZeroName, payForZeroName, transferZero
<1>3. BatchSizes \subseteq Nat
  BY ZeroWarriorAssumption
<1> QED
  BY <1>1, <1>2, <1>3

LEMMA RoundStep == MintInv /\ RoundInv /\ [Next]_vars => RoundInv'
<1> SUFFICES ASSUME MintInv, RoundInv, [Next]_vars PROVE RoundInv'
  OBVIOUS
<1> USE DEF RoundInv, RoundCommitted
<1>0. /\ currentNonLegendaryId \in Nat /\ currentNonLegendaryId' \in Nat
      /\ currentNonLegendaryId <= currentNonLegendaryId'
      /\ Day \in Nat \ {0}
  BY IdsGrow, LibZEROAssumption
<1>1. CASE Tick
  BY <1>0, <1>1 DEF Tick, revealVars, supplyVars
<1>2. CASE requestRandomSeed
  BY <1>0, <1>2 DEF requestRandomSeed, supplyVars
<1>3. ASSUME NEW r \in requests, NEW s \in Seeds, fulfillRandomness(r, s) PROVE RoundInv'
  <2>1. waitingForSeed' \in BOOLEAN /\ (waitingForSeed' => waitingForSeed)
    <3>1. CASE r.provider = randProvider
      <4>1. waitingForSeed' = FALSE
        BY <1>3, <3>1 DEF fulfillRandomness, acceptRandomSeed
      <4> QED
        BY <4>1
    <3>2. CASE r.provider # randProvider
      <4>1. waitingForSeed' = waitingForSeed
        BY <1>3, <3>2 DEF fulfillRandomness, acceptRandomSeed
      <4> QED
        BY <4>1
    <3> QED
      BY <3>1, <3>2
  <2>2. /\ UNCHANGED <<now, lastRevealedId, toBeRevealed, nextRevealTimestamp>>
        /\ UNCHANGED currentNonLegendaryId
    BY <1>3 DEF fulfillRandomness, supplyVars
  <2> QED
    BY <1>0, <2>1, <2>2
<1>4. ASSUME NEW p \in Providers, upgradeRandProvider(p) PROVE RoundInv'
  <2>1. UNCHANGED <<now, lastRevealedId>> /\ UNCHANGED currentNonLegendaryId
    BY <1>4 DEF upgradeRandProvider, supplyVars
  <2>2. CASE waitingForSeed
    <3>1. ~waitingForSeed' /\ waitingForSeed' \in BOOLEAN
      BY <1>4, <2>2 DEF upgradeRandProvider
    <3>2. toBeRevealed' = 0 /\ nextRevealTimestamp' = nextRevealTimestamp - Day
      BY <1>4, <2>2 DEF upgradeRandProvider
    <3> QED
      BY <1>0, <2>1, <2>2, <3>1, <3>2
  <2>3. CASE ~waitingForSeed
    <3>1. ~waitingForSeed' /\ waitingForSeed' \in BOOLEAN
      BY <1>4, <2>3 DEF upgradeRandProvider
    <3>2. UNCHANGED <<toBeRevealed, nextRevealTimestamp>>
      BY <1>4, <2>3 DEF upgradeRandProvider
    <3> QED
      BY <1>0, <2>1, <3>1, <3>2
  <2> QED
    BY <2>2, <2>3
<1>5. ASSUME NEW n \in BatchSizes, revealWarrior(n) PROVE RoundInv'
  <2>1. n \in Nat
    BY ZeroWarriorAssumption
  <2> QED
    BY <1>0, <1>5, <2>1 DEF revealWarrior, supplyVars
<1>6. ASSUME UNCHANGED <<now, revealVars>> PROVE RoundInv'
  BY <1>0, <1>6 DEF revealVars
<1>7. CASE UNCHANGED vars
  BY <1>6, <1>7 DEF vars
<1>8. CASE Next
  BY <1>1, <1>2, <1>3, <1>4, <1>5, <1>6, <1>8
  DEF Next, WarriorNext, claimWarrior, mintFromZero, mintReservedWarrior, mintLegendaryWarrior, transferFrom,
      withdraw, moveAll, approveWarrior, setWarriorApprovalForAll, addZero, removeZero,
      burnZeroForZeroName, payForZeroName, transferZero
<1> QED
  BY <1>7, <1>8

LEMMA RoundsInvariant == Spec => [](MintInv /\ RoundInv)
<1>1. Init => MintInv /\ RoundInv
  BY MintInit, RoundInit
<1>2. MintInv /\ RoundInv /\ [Next]_vars => (MintInv /\ RoundInv)'
  BY MintStep, RoundStep
<1> QED
  BY <1>1, <1>2, PTL DEF Spec

(***************************************************************************)
(* RoundCommitted: what a round reveals is minted before its seed exists.  *)
(***************************************************************************)
THEOREM RoundsCommitted == Spec => []RoundCommitted
<1>1. RoundInv => RoundCommitted
  BY DEF RoundInv
<1> QED
  BY <1>1, RoundsInvariant, PTL

(***************************************************************************)
(* RoundNeverGrows: an open round is extended by no mint and no request.   *)
(***************************************************************************)
THEOREM RoundsNeverGrow == Spec => RoundNeverGrows
<1> DEFINE A == toBeRevealed # 0 /\ toBeRevealed' # 0
                  => lastRevealedId' + toBeRevealed' = lastRevealedId + toBeRevealed
<1>1. ASSUME MintInv, RoundInv, [Next]_vars PROVE [A]_vars
  <2>1. ASSUME NEW n \in BatchSizes, revealWarrior(n) PROVE A
    <3>1. n \in Nat
      BY ZeroWarriorAssumption
    <3> QED
      BY <1>1, <2>1, <3>1 DEF revealWarrior, RoundInv
  <2>2. ASSUME NEW p \in Providers, upgradeRandProvider(p) PROVE A
    BY <2>2 DEF upgradeRandProvider
  <2>3. ASSUME NEW r \in requests, NEW s \in Seeds, fulfillRandomness(r, s) PROVE A
    BY <2>3 DEF fulfillRandomness
  <2>4. CASE requestRandomSeed
    BY <2>4 DEF requestRandomSeed
  <2>5. ASSUME UNCHANGED revealVars PROVE A
    BY <2>5 DEF revealVars
  <2>6. CASE Next
    BY <2>1, <2>2, <2>3, <2>4, <2>5, <2>6
    DEF Next, WarriorNext, Tick, claimWarrior, mintFromZero, mintReservedWarrior, mintLegendaryWarrior,
        transferFrom, withdraw, moveAll, approveWarrior, setWarriorApprovalForAll, addZero,
        removeZero, burnZeroForZeroName, payForZeroName, transferZero
  <2> QED
    BY <1>1, <2>6
<1> QED
  BY <1>1, RoundsInvariant, PTL DEF Spec, RoundNeverGrows
(***************************************************************************)
(* UpgradeReopensRound: whenever a provider that has not answered is       *)
(* replaced, the request can be made again at once.                        *)
(***************************************************************************)
THEOREM UpgradesReopenRounds == Spec => UpgradeReopensRound
<1> DEFINE A == waitingForSeed /\ randProvider' # randProvider
                  => /\ now >= nextRevealTimestamp' /\ toBeRevealed' = 0 /\ ~waitingForSeed'
                     /\ currentNonLegendaryId > lastRevealedId'
<1>1. ASSUME MintInv, RoundInv, [Next]_vars PROVE [A]_vars
  <2>1. ASSUME NEW p \in Providers, upgradeRandProvider(p), waitingForSeed
        PROVE  /\ now >= nextRevealTimestamp' /\ toBeRevealed' = 0 /\ ~waitingForSeed'
               /\ currentNonLegendaryId > lastRevealedId'
    <3>1. /\ waitingForSeed' = FALSE /\ toBeRevealed' = 0 /\ lastRevealedId' = lastRevealedId
          /\ nextRevealTimestamp' = nextRevealTimestamp - Day
      BY <2>1 DEF upgradeRandProvider
    <3>2. currentNonLegendaryId \in Nat
      BY <1>1, IdsGrow
    <3> QED
      BY <1>1, <2>1, <3>1, <3>2, LibZEROAssumption DEF RoundInv, RoundCommitted
  <2>2. ASSUME UNCHANGED randProvider PROVE A
    BY <2>2
  <2>3. CASE Next
    <3>1. ASSUME NEW p \in Providers, upgradeRandProvider(p) PROVE A
      BY <2>1, <3>1
    <3> HIDE DEF A
    <3> QED
      BY <2>2, <2>3, <3>1
      DEF Next, WarriorNext, oracleVars, Tick, claimWarrior, mintFromZero, mintReservedWarrior,
          mintLegendaryWarrior, requestRandomSeed, fulfillRandomness, revealWarrior, transferFrom,
          withdraw, moveAll, approveWarrior, setWarriorApprovalForAll, addZero, removeZero,
          burnZeroForZeroName, payForZeroName, transferZero
  <2> QED
    BY <1>1, <2>3
<1> QED
  BY <1>1, RoundsInvariant, PTL DEF Spec, UpgradeReopensRound

(***************************************************************************)
(* AnswerIsForThisRound: when the owner waits for the answers a provider   *)
(* owes before it installs it, an accepted seed answers the last request,  *)
(* whatever was asked of other providers and however late they answer.     *)
(***************************************************************************)
LEMMA OracleStep ==
  OwnerWaitsForAnswers /\ RoundInv /\ OracleInv /\ [Next]_vars => OracleInv'
<1> SUFFICES ASSUME OwnerWaitsForAnswers, RoundInv, OracleInv, [Next]_vars PROVE OracleInv'
  OBVIOUS
<1>0. /\ numRequests \in 0..MaxRequests /\ MaxRequests \in Nat
      /\ requests \subseteq [provider : Providers, nonce : 1..numRequests]
      /\ randProvider \in Providers
      /\ \A r \in requests : r.provider = randProvider => waitingForSeed /\ r.nonce = numRequests
  BY ProvidersAssumption DEF OracleInv, RequestsTypeOK
<1>1. CASE requestRandomSeed
  <2>1. toBeRevealed = 0 /\ waitingForSeed' = TRUE /\ randProvider' = randProvider
    BY <1>1 DEF requestRandomSeed
  <2>2. ~waitingForSeed
    BY <2>1 DEF RoundInv, RoundCommitted
  <2>3. /\ numRequests < MaxRequests /\ numRequests' = numRequests + 1
        /\ requests' = requests \cup {[provider |-> randProvider, nonce |-> numRequests + 1]}
    BY <1>1 DEF requestRandomSeed, requestRandomBytes
  <2>4. \A r \in requests : r.provider # randProvider
    BY <1>0, <2>2
  <2>5. numRequests' \in 0..MaxRequests
        /\ requests' \subseteq [provider : Providers, nonce : 1..numRequests']
    BY <1>0, <2>3
  <2> QED
    BY <1>0, <2>1, <2>3, <2>4, <2>5 DEF OracleInv, RequestsTypeOK
<1>2. ASSUME NEW r \in requests, NEW s \in Seeds, fulfillRandomness(r, s) PROVE OracleInv'
  <2>1. requests' = requests \ {r} /\ numRequests' = numRequests /\ randProvider' = randProvider
    BY <1>2 DEF fulfillRandomness, answer
  <2>2. CASE r.provider = randProvider
    <3>1. ASSUME NEW q \in requests, q.provider = randProvider PROVE q = r
      \* both have the number of the last request
      <4>1. q.nonce = numRequests /\ r.nonce = numRequests
        BY <1>0, <2>2, <3>1
      <4>2. /\ q = [provider |-> q.provider, nonce |-> q.nonce]
            /\ r = [provider |-> r.provider, nonce |-> r.nonce]
        BY <1>0
      <4> QED
        BY <2>2, <3>1, <4>1, <4>2
    <3> QED
      BY <1>0, <2>1, <3>1 DEF OracleInv, RequestsTypeOK
  <2>3. CASE r.provider # randProvider
    <3>1. waitingForSeed' = waitingForSeed
      BY <1>2, <2>3 DEF fulfillRandomness, acceptRandomSeed
    <3> QED
      BY <1>0, <2>1, <3>1 DEF OracleInv, RequestsTypeOK
  <2> QED
    BY <2>2, <2>3
<1>3. ASSUME NEW p \in Providers, upgradeRandProvider(p) PROVE OracleInv'
  <2>1. {r \in requests : r.provider = p} = {}
    BY <1>3 DEF upgradeRandProvider, Outstanding
  <2>2. randProvider' = p /\ requests' = requests /\ numRequests' = numRequests
    BY <1>3 DEF upgradeRandProvider, requestVars
  <2> QED
    BY <1>0, <2>1, <2>2 DEF OracleInv, RequestsTypeOK
<1>4. ASSUME UNCHANGED <<oracleVars, waitingForSeed>> PROVE OracleInv'
  BY <1>0, <1>4 DEF oracleVars, requestVars, OracleInv, RequestsTypeOK
<1>5. CASE UNCHANGED vars
  BY <1>4, <1>5 DEF vars, revealVars
<1>6. CASE Next
  <2> USE DEF revealVars
  <2> QED
    BY <1>1, <1>2, <1>3, <1>4, <1>6
    DEF Next, WarriorNext, Tick, claimWarrior, mintFromZero, mintReservedWarrior, mintLegendaryWarrior,
        revealWarrior, transferFrom, withdraw, moveAll, approveWarrior, setWarriorApprovalForAll,
        addZero, removeZero, burnZeroForZeroName, payForZeroName, transferZero
<1> QED
  BY <1>5, <1>6

THEOREM AnswersAreForThisRound == OwnerWaitsForAnswers => (Spec => AnswerIsForThisRound)
<1> DEFINE A == \A r \in requests \ requests' :
                  r.provider = randProvider => waitingForSeed /\ r.nonce = numRequests
<1> SUFFICES ASSUME OwnerWaitsForAnswers PROVE Spec => AnswerIsForThisRound
  OBVIOUS
<1>1. Init => MintInv /\ RoundInv /\ OracleInv
  BY MintInit, RoundInit
<1>2. MintInv /\ RoundInv /\ OracleInv /\ [Next]_vars => (MintInv /\ RoundInv /\ OracleInv)'
  BY MintStep, RoundStep, OracleStep
<1>3. OracleInv => A
  BY DEF OracleInv
<1> QED
  BY <1>1, <1>2, <1>3, PTL DEF Spec, AnswerIsForThisRound

(***************************************************************************)
(* SeedFixedOnceAccepted: under the same condition no late answer replaces *)
(* the seed of a round that has one.                                       *)
(***************************************************************************)
THEOREM SeedsFixedOnceAccepted == OwnerWaitsForAnswers => (Spec => SeedFixedOnceAccepted)
<1> DEFINE A == randomSeed' # randomSeed => waitingForSeed \/ lastRevealedId' > lastRevealedId
<1> SUFFICES ASSUME OwnerWaitsForAnswers PROVE Spec => SeedFixedOnceAccepted
  OBVIOUS
<1>1. Init => MintInv /\ RoundInv /\ OracleInv
  BY MintInit, RoundInit
<1>2. MintInv /\ RoundInv /\ OracleInv /\ [Next]_vars => (MintInv /\ RoundInv /\ OracleInv)'
  BY MintStep, RoundStep, OracleStep
<1>3. ASSUME RoundInv, OracleInv, [Next]_vars PROVE [A]_vars
  <2>1. ASSUME NEW r \in requests, NEW s \in Seeds, fulfillRandomness(r, s) PROVE A
    BY <1>3, <2>1 DEF fulfillRandomness, acceptRandomSeed, OracleInv
  <2>2. ASSUME NEW n \in BatchSizes, revealWarrior(n) PROVE A
    \* a reveal of no warrior draws nothing
    <3>1. n \in Nat /\ lastRevealedId \in Nat /\ lastRevealedId' = lastRevealedId + n
      BY <1>3, <2>2, ZeroWarriorAssumption DEF revealWarrior, RoundInv
    <3>2. CASE n = 0
      <4> DEFINE s0 == [idx |-> idx, seed |-> randomSeed, last |-> lastRevealedId]
      <4>1. Draws(s0, 0) = s0
        BY DrawsOfNone
      <4>2. randomSeed' = Draws(s0, n).seed
        BY <2>2 DEF revealWarrior
      <4> QED
        BY <3>2, <4>1, <4>2
    <3> QED
      BY <3>1, <3>2
  <2>3. ASSUME UNCHANGED randomSeed PROVE A
    BY <2>3
  <2>4. CASE Next
    <3> HIDE DEF A
    <3> USE DEF revealVars
    <3> QED
      BY <2>1, <2>2, <2>3, <2>4
      DEF Next, WarriorNext, Tick, claimWarrior, mintFromZero, mintReservedWarrior, mintLegendaryWarrior,
          requestRandomSeed, upgradeRandProvider, transferFrom, withdraw, moveAll, approveWarrior,
          setWarriorApprovalForAll, addZero, removeZero, burnZeroForZeroName, payForZeroName,
          transferZero
  <2> QED
    BY <1>3, <2>4
<1> QED
  BY <1>1, <1>2, <1>3, PTL DEF Spec, SeedFixedOnceAccepted

-------------------------------------------------------------------------------
(* The legendary auction *)

AuctionInv ==
  /\ numSold \in 0..LEGENDARY_SUPPLY
  /\ numSold * LEGENDARY_AUCTION_INTERVAL <= numMintedFromZero
  /\ startPrice \in Nat /\ startPrice >= LEGENDARY_APE_INITIAL_START_PRICE

LEMMA AuctionNumbers ==
  ASSUME MintInv, AuctionInv
  PROVE  /\ numMintedFromZero \in Nat /\ numMintedAtStart \in Nat
         /\ LEGENDARY_AUCTION_INTERVAL \in Nat \ {0} /\ startPrice \in Nat
         /\ LEGENDARY_APE_INITIAL_START_PRICE \in Nat
<1>1. numSold + 1 \in Nat /\ LEGENDARY_AUCTION_INTERVAL \in Nat \ {0} /\ startPrice \in Nat
  BY SupplyNumbers DEF AuctionInv
<1>2. (numSold + 1) * LEGENDARY_AUCTION_INTERVAL \in Nat
  BY <1>1, ProductNat
<1>3. numMintedFromZero \in Nat
  BY SupplyNumbers DEF MintInv
<1> QED
  BY <1>1, <1>2, <1>3, ZeroWarriorAssumption DEF numMintedAtStart

\* The price divided up: exact to the next integer, and monotone.
LEMMA DivUpMonotone ==
  ASSUME NEW x \in Nat, NEW y \in Nat, NEW d \in Nat \ {0}, x <= y
  PROVE  unsafeDivUp(x, d) \in Nat /\ unsafeDivUp(x, d) <= unsafeDivUp(y, d)
<1>1. x + d - 1 \in Nat /\ y + d - 1 \in Nat
  OBVIOUS
<1> DEFINE q == (x + d - 1) \div d
<1>2. q \in Nat /\ (y + d - 1) \div d \in Nat
  BY <1>1, DivNat
<1>3. q * d <= x + d - 1
  <2> HIDE DEF q
  <2>1. q <= (x + d - 1) \div d
    BY <1>2 DEF q
  <2> QED
    BY <1>1, <1>2, <2>1, DivBound
<1>4. q * d \in Nat
  BY <1>2, ProductNat
<1>5. q * d <= y + d - 1
  <2> HIDE DEF q
  <2> QED
    BY <1>3, <1>4
<1>6. q <= (y + d - 1) \div d
  <2> HIDE DEF q
  <2> QED
    BY <1>1, <1>2, <1>5, DivBound
<1> QED
  BY <1>2, <1>6 DEF unsafeDivUp

LEMMA DivUpProduct ==
  ASSUME NEW p \in Nat, NEW d \in Nat \ {0}
  PROVE  unsafeDivUp(p * d, d) <= p
<1> DEFINE q == (p * d + d - 1) \div d
<1>1. p * d \in Nat /\ p * d + d - 1 \in Nat
  <2>1. p * d \in Nat
    BY ProductNat
  <2> QED
    BY <2>1
<1>2. q \in Nat
  BY <1>1, DivNat
<1>3. ~ (p + 1 <= q)
  <2>1. (p + 1) * d = p * d + d
    BY <1>1
  <2>2. ~ ((p + 1) * d <= p * d + d - 1)
    BY <1>1, <2>1
  <2>3. (p + 1 <= (p * d + d - 1) \div d) <=> ((p + 1) * d <= p * d + d - 1)
    <3> DEFINE n == p * d + d - 1
    <3>1. n \in Nat
      BY <1>1
    <3> HIDE DEF n
    <3>2. (p + 1 <= n \div d) <=> ((p + 1) * d <= n)
      BY <3>1, DivBound
    <3> QED
      BY <3>2 DEF n
  <2> QED
    BY <2>2, <2>3
<1>4. q <= p
  <2> HIDE DEF q
  <2> QED
    BY <1>2, <1>3
<1> QED
  BY <1>4 DEF unsafeDivUp

LEMMA PriceInRange ==
  ASSUME MintInv, AuctionInv, LegendaryAuctionOpen
  PROVE  legendaryWarriorPrice \in 0..startPrice
<1> DEFINE m == numMintedFromZero - numMintedAtStart
           i == LEGENDARY_AUCTION_INTERVAL
<1>1. m \in Nat /\ i \in Nat \ {0} /\ startPrice \in Nat
  BY AuctionNumbers DEF LegendaryAuctionOpen
<1> HIDE DEF m, i
<1>2. CASE m >= i
  BY <1>1, <1>2 DEF legendaryWarriorPrice, m, i
<1>3. CASE ~ (m >= i)
  <2>1. i - m \in Nat /\ i - m <= i
    BY <1>1, <1>3
  <2>2. (i - m) * startPrice <= i * startPrice /\ (i - m) * startPrice \in Nat
        /\ i * startPrice \in Nat
    BY <1>1, <2>1, ProductMonotone
  <2>3. startPrice * (i - m) = (i - m) * startPrice /\ startPrice * i = i * startPrice
    BY <1>1, <2>1
  <2>4. /\ unsafeDivUp(startPrice * (i - m), i) \in Nat
        /\ unsafeDivUp(startPrice * (i - m), i) <= unsafeDivUp(startPrice * i, i)
    BY <1>1, <2>2, <2>3, DivUpMonotone
  <2>5. unsafeDivUp(startPrice * i, i) <= startPrice
    BY <1>1, DivUpProduct
  <2>6. unsafeDivUp(startPrice * i, i) \in Nat
    BY <1>1, <2>2, <2>3, DivUpMonotone
  <2>7. legendaryWarriorPrice = unsafeDivUp(startPrice * (i - m), i)
    BY <1>3 DEF legendaryWarriorPrice, m, i
  <2> QED
    BY <1>1, <2>4, <2>5, <2>6, <2>7
<1> QED
  BY <1>2, <1>3

LEMMA AuctionInit == Init => AuctionInv
<1> SUFFICES ASSUME Init PROVE AuctionInv
  OBVIOUS
<1>1. 0 * LEGENDARY_AUCTION_INTERVAL = 0
  BY SupplyNumbers
<1> QED
  BY <1>1, SupplyNumbers, ZeroWarriorAssumption DEF Init, AuctionInv

\* The sales that open auctions are never undone.
LEMMA SalesGrow ==
  MintInv /\ [Next]_vars =>
    numMintedFromZero \in Nat /\ numMintedFromZero' \in Nat /\ numMintedFromZero <= numMintedFromZero'
<1> SUFFICES ASSUME MintInv, [Next]_vars
             PROVE  numMintedFromZero \in Nat /\ numMintedFromZero' \in Nat
                    /\ numMintedFromZero <= numMintedFromZero'
  OBVIOUS
<1>1. numMintedFromZero \in Nat
  BY SupplyNumbers DEF MintInv
<1>2. numMintedFromZero' = numMintedFromZero \/ numMintedFromZero' = numMintedFromZero + 1
  BY DEF Next, WarriorNext, vars, supplyVars, claimWarrior, mintFromZero, mintReservedWarrior, Tick,
         mintLegendaryWarrior, requestRandomSeed, fulfillRandomness, upgradeRandProvider,
         revealWarrior, transferFrom, withdraw, moveAll, approveWarrior, setWarriorApprovalForAll,
         addZero, removeZero, burnZeroForZeroName, payForZeroName, transferZero
<1> QED
  BY <1>1, <1>2

LEMMA AuctionChanges ==
  [Next]_vars => \/ UNCHANGED auctionVars
                 \/ \E user \in Users : \E burned \in SUBSET (OwnedBy(user) \cap NonLegendaryIds) :
                      mintLegendaryWarrior(user, burned)
BY DEF Next, WarriorNext, vars, auctionVars, claimWarrior, mintFromZero, mintReservedWarrior, Tick,
       requestRandomSeed, fulfillRandomness, upgradeRandProvider, revealWarrior, transferFrom,
       withdraw, moveAll, approveWarrior, setWarriorApprovalForAll, addZero, removeZero,
       burnZeroForZeroName, payForZeroName, transferZero

LEMMA AuctionStep == MintInv /\ AuctionInv /\ [Next]_vars => AuctionInv'
<1> SUFFICES ASSUME MintInv, AuctionInv, [Next]_vars PROVE AuctionInv'
  OBVIOUS
<1>1. /\ numMintedFromZero \in Nat /\ numMintedFromZero' \in Nat
      /\ numMintedFromZero <= numMintedFromZero'
      /\ LEGENDARY_AUCTION_INTERVAL \in Nat \ {0} /\ LEGENDARY_SUPPLY \in Nat
  BY SalesGrow, SupplyNumbers
<1>2. CASE UNCHANGED auctionVars
  <2>1. numSold * LEGENDARY_AUCTION_INTERVAL \in Nat
    BY <1>1, ProductNat DEF AuctionInv
  <2> QED
    BY <1>1, <1>2, <2>1 DEF AuctionInv, auctionVars
<1>3. ASSUME NEW user \in Users, NEW burned \in SUBSET (OwnedBy(user) \cap NonLegendaryIds),
             mintLegendaryWarrior(user, burned)
      PROVE  AuctionInv'
  <2> DEFINE c == legendaryWarriorPrice
             s == LEGENDARY_APE_INITIAL_START_PRICE
  <2>1. /\ numSold # LEGENDARY_SUPPLY /\ numMintedAtStart <= numMintedFromZero
        /\ numSold' = numSold + 1 /\ numMintedFromZero' = numMintedFromZero
        /\ startPrice' = IF c <= s \div 2 THEN s ELSE 2 * c
    BY <1>3 DEF mintLegendaryWarrior, LegendaryAuctionOpen, supplyVars
  <2>2. c \in Nat /\ s \in Nat
    <3>1. c \in 0..startPrice
      BY <1>3, PriceInRange DEF mintLegendaryWarrior
    <3> QED
      BY <3>1, AuctionNumbers
  <2> HIDE DEF c, s
  <2>3. startPrice' \in Nat /\ startPrice' >= s
    BY <2>1, <2>2
  <2>4. numSold' \in 0..LEGENDARY_SUPPLY
    BY <1>1, <2>1 DEF AuctionInv
  <2>5. numSold' * LEGENDARY_AUCTION_INTERVAL <= numMintedFromZero'
    BY <2>1 DEF numMintedAtStart
  <2> QED
    BY <2>3, <2>4, <2>5 DEF AuctionInv, s
<1> QED
  BY <1>2, <1>3, AuctionChanges

LEMMA AuctionInvariant == Spec => [](MintInv /\ AuctionInv)
<1>1. Init => MintInv /\ AuctionInv
  BY MintInit, AuctionInit
<1>2. MintInv /\ AuctionInv /\ [Next]_vars => (MintInv /\ AuctionInv)'
  BY MintStep, AuctionStep
<1> QED
  BY <1>1, <1>2, PTL DEF Spec

(***************************************************************************)
(* LegendaryAuctionSound: every legendary sold waited for its interval of  *)
(* sales, and an open auction asks a price between 0 and its start price.  *)
(***************************************************************************)
THEOREM LegendaryAuctionsSound == Spec => []LegendaryAuctionSound
<1>1. MintInv /\ AuctionInv => LegendaryAuctionSound
  BY PriceInRange, SupplyNumbers DEF AuctionInv, LegendaryAuctionSound
<1> QED
  BY <1>1, AuctionInvariant, PTL

(***************************************************************************)
(* LegendaryPriceFalls: the price of an open auction falls with the sales. *)
(***************************************************************************)
THEOREM LegendaryPricesFall == Spec => LegendaryPriceFalls
<1> DEFINE A == LegendaryAuctionOpen /\ numSold' = numSold
                  => legendaryWarriorPrice' <= legendaryWarriorPrice
<1>1. ASSUME MintInv, AuctionInv, [Next]_vars, LegendaryAuctionOpen, numSold' = numSold
      PROVE  legendaryWarriorPrice' <= legendaryWarriorPrice
  <2> DEFINE i == LEGENDARY_AUCTION_INTERVAL
             m == numMintedFromZero - numMintedAtStart
             n == numMintedFromZero' - numMintedAtStart
             p == startPrice
  <2>1. UNCHANGED auctionVars
    <3>1. ASSUME NEW user \in Users, NEW burned \in SUBSET (OwnedBy(user) \cap NonLegendaryIds),
                 mintLegendaryWarrior(user, burned)
          PROVE  FALSE
      BY <1>1, <3>1 DEF mintLegendaryWarrior, AuctionInv
    <3> QED
      BY <1>1, <3>1, AuctionChanges
  <2>2. /\ m \in Nat /\ n \in Nat /\ m <= n /\ i \in Nat \ {0} /\ p \in Nat
        /\ numMintedAtStart' = numMintedAtStart
    <3>1. numMintedAtStart' = numMintedAtStart
      BY <2>1 DEF numMintedAtStart, auctionVars
    <3> QED
      BY <1>1, <3>1, AuctionNumbers, SalesGrow DEF LegendaryAuctionOpen
  <2>3. /\ legendaryWarriorPrice = IF m >= i THEN 0 ELSE unsafeDivUp(p * (i - m), i)
        /\ legendaryWarriorPrice' = IF n >= i THEN 0 ELSE unsafeDivUp(p * (i - n), i)
    BY <2>1, <2>2 DEF legendaryWarriorPrice, auctionVars, unsafeDivUp
  <2> HIDE DEF i, m, n, p
  <2>4. CASE n >= i
    <3>1. legendaryWarriorPrice \in 0..startPrice
      BY <1>1, PriceInRange
    <3> QED
      BY <2>2, <2>3, <2>4, <3>1 DEF p
  <2>5. CASE ~ (n >= i)
    <3>1. i - n \in Nat /\ i - m \in Nat /\ i - n <= i - m /\ ~ (m >= i)
      BY <2>2, <2>5
    <3>2. (i - n) * p <= (i - m) * p /\ (i - n) * p \in Nat /\ (i - m) * p \in Nat
      BY <2>2, <3>1, ProductMonotone
    <3>3. p * (i - n) = (i - n) * p /\ p * (i - m) = (i - m) * p
      BY <2>2, <3>1
    <3>4. unsafeDivUp(p * (i - n), i) <= unsafeDivUp(p * (i - m), i)
      BY <2>2, <3>2, <3>3, DivUpMonotone
    <3> QED
      BY <2>3, <2>5, <3>1, <3>4
  <2> QED
    BY <2>4, <2>5
<1>2. ASSUME MintInv, AuctionInv, [Next]_vars PROVE [A]_vars
  BY <1>1, <1>2
<1> QED
  BY <1>2, AuctionInvariant, PTL DEF Spec, LegendaryPriceFalls-------------------------------------------------------------------------------
(* Owners and approvals *)

OwnerInv ==
  /\ owner \in [Ids -> Holders]
  /\ getApproved \in [Ids -> Holders]
  /\ isApprovedForAll \subseteq Users \X Users
  /\ NoOwnerNoApproval

\* What a step does to owners: the two action properties and the invariant.
OwnersKept ==
  /\ OwnerInv'
  /\ \A id \in Ids : Minted(id) /\ owner[id] = NoOne => owner'[id] = NoOne
  /\ \A id \in Ids : owner'[id] # owner[id] => getApproved'[id] = NoOne

LEMMA Parties ==
  /\ Users \subseteq Accounts /\ Team \in Accounts /\ Community \in Accounts
  /\ Accounts \subseteq Holders /\ NoOne \in Holders /\ NoOne \notin Accounts
  /\ Team \notin Users /\ Community \notin Users /\ Recipients \subseteq Accounts
BY AddressesAssumption, ZeroWarriorAssumption DEF Accounts, Holders, Reserves

LEMMA WithinSharesNext == MintInv' => SupplyWithinShares'
BY MintInvWithinShares, PTL

\* Ordinary and legendary ids never meet, and what is minted stays minted.
LEMMA MintedIds ==
  ASSUME MintInv, AuctionInv, [Next]_vars
  PROVE  /\ currentNonLegendaryId \in Nat /\ currentNonLegendaryId' \in Nat
         /\ currentNonLegendaryId <= currentNonLegendaryId'
         /\ currentNonLegendaryId' < FIRST_LEGENDARY_APE_ID
         /\ FIRST_LEGENDARY_APE_ID \in Nat /\ numSold \in Nat /\ numSold' \in Nat
         /\ \A id \in Ids : Minted(id) => Minted(id)'
<1>1. /\ currentNonLegendaryId \in Nat /\ currentNonLegendaryId' \in Nat
      /\ currentNonLegendaryId <= currentNonLegendaryId'
  BY IdsGrow
<1>2. currentNonLegendaryId' < FIRST_LEGENDARY_APE_ID
  <2>1. SupplyWithinShares'
    BY MintStep, WithinSharesNext
  <2> QED
    BY <2>1 DEF SupplyWithinShares
<1>3. FIRST_LEGENDARY_APE_ID \in Nat /\ numSold \in Nat
  BY SupplyNumbers DEF AuctionInv
<1>4. numSold' \in Nat /\ numSold <= numSold'
  <2>1. ASSUME NEW user \in Users, NEW burned \in SUBSET (OwnedBy(user) \cap NonLegendaryIds),
               mintLegendaryWarrior(user, burned)
        PROVE  numSold' = numSold + 1
    BY <2>1 DEF mintLegendaryWarrior
  <2>2. numSold' = numSold \/ numSold' = numSold + 1
    BY <2>1, AuctionChanges DEF auctionVars
  <2> QED
    BY <1>3, <2>2
<1>5. ASSUME NEW id \in Ids, Minted(id) PROVE Minted(id)'
  BY <1>1, <1>3, <1>4, <1>5 DEF Minted
<1> QED
  BY <1>1, <1>2, <1>3, <1>4, <1>5

LEMMA OwnersUnmoved ==
  ASSUME MintInv, AuctionInv, OwnerInv, [Next]_vars, UNCHANGED erc721Vars
  PROVE  OwnersKept
<1>1. UNCHANGED <<owner, getApproved, isApprovedForAll>>
  BY DEF erc721Vars
<1>2. OwnerInv'
  BY <1>1, MintedIds DEF OwnerInv, NoOwnerNoApproval
<1> QED
  BY <1>1, <1>2 DEF OwnersKept

\* Mints give the next free ids to accounts.
LEMMA OwnersMinted ==
  ASSUME MintInv, AuctionInv, OwnerInv, [Next]_vars, UNCHANGED approvalVars, UNCHANGED auctionVars,
         owner' \in [Ids -> Holders],
         \A id \in Ids : \/ owner'[id] = owner[id]
                         \/ /\ id \in (currentNonLegendaryId + 1)..currentNonLegendaryId'
                            /\ owner'[id] # NoOne
  PROVE  OwnersKept
<1>0. UNCHANGED <<getApproved, isApprovedForAll>>
  BY DEF approvalVars
<1>1. ASSUME NEW id \in Ids, owner'[id] # owner[id]
      PROVE  /\ ~Minted(id) /\ Minted(id)' /\ owner[id] = NoOne /\ owner'[id] # NoOne
             /\ getApproved[id] = NoOne
  <2>1. id \in (currentNonLegendaryId + 1)..currentNonLegendaryId' /\ owner'[id] # NoOne
    BY <1>1
  <2>2. ~Minted(id) /\ Minted(id)'
    BY <2>1, MintedIds DEF Minted
  <2> QED
    BY <2>1, <2>2 DEF OwnerInv, NoOwnerNoApproval
<1>2. OwnerInv'
  <2>1. ASSUME NEW id \in Ids
        PROVE  /\ owner'[id] # NoOne => Minted(id)'
               /\ owner'[id] = NoOne => getApproved'[id] = NoOne
    BY <1>0, <1>1, MintedIds DEF OwnerInv, NoOwnerNoApproval
  <2> QED
    BY <1>0, <2>1 DEF OwnerInv, NoOwnerNoApproval
<1> QED
  BY <1>0, <1>1, <1>2 DEF OwnersKept

LEMMA OneMinted ==
  ASSUME MintInv, AuctionInv, OwnerInv, [Next]_vars, UNCHANGED approvalVars, UNCHANGED auctionVars,
         NEW user \in Users, owner' = [owner EXCEPT ![currentNonLegendaryId + 1] = user],
         currentNonLegendaryId' = currentNonLegendaryId + 1
  PROVE  OwnersKept
<1>1. user \in Holders /\ user # NoOne
  BY Parties
<1>2. owner \in [Ids -> Holders]
  BY DEF OwnerInv
<1>3. owner' \in [Ids -> Holders]
  BY <1>1, <1>2
<1>4. currentNonLegendaryId \in Nat
  BY MintedIds
<1>5. ASSUME NEW id \in Ids
      PROVE  \/ owner'[id] = owner[id]
             \/ /\ id \in (currentNonLegendaryId + 1)..currentNonLegendaryId'
                /\ owner'[id] # NoOne
  BY <1>1, <1>2, <1>4
<1> QED
  BY <1>3, <1>5, OwnersMinted

\* Ids that change hands between accounts lose their approval.
LEMMA OwnersMoved ==
  ASSUME MintInv, AuctionInv, OwnerInv, [Next]_vars,
         NEW from \in Holders, NEW to \in Recipients, NEW ids \in SUBSET Ids, moveAll(from, to, ids),
         \A id \in ids : owner[id] # NoOne
  PROVE  OwnersKept
<1>1. /\ owner' = [id \in Ids |-> IF id \in ids THEN to ELSE owner[id]]
      /\ getApproved' = [id \in Ids |-> IF id \in ids THEN NoOne ELSE getApproved[id]]
      /\ UNCHANGED isApprovedForAll
  BY DEF moveAll
<1>2. to \in Holders /\ to # NoOne
  BY Parties
<1>3. OwnerInv'
  <2>1. ASSUME NEW id \in Ids
        PROVE  /\ owner'[id] # NoOne => Minted(id)'
               /\ owner'[id] = NoOne => getApproved'[id] = NoOne
    <3>1. owner[id] # NoOne => Minted(id)'
      BY MintedIds DEF OwnerInv, NoOwnerNoApproval
    <3>2. owner[id] = NoOne => getApproved[id] = NoOne
      BY DEF OwnerInv, NoOwnerNoApproval
    <3> QED
      BY <1>1, <1>2, <3>1, <3>2
  <2>2. owner' \in [Ids -> Holders] /\ getApproved' \in [Ids -> Holders]
    BY <1>1, <1>2, Parties DEF OwnerInv
  <2> QED
    BY <1>1, <2>1, <2>2 DEF OwnerInv, NoOwnerNoApproval
<1>4. ASSUME NEW id \in Ids
      PROVE  /\ Minted(id) /\ owner[id] = NoOne => owner'[id] = NoOne
             /\ owner'[id] # owner[id] => getApproved'[id] = NoOne
  BY <1>1
<1> QED
  BY <1>3, <1>4 DEF OwnersKept

LEMMA OwnersBurned ==
  ASSUME MintInv, AuctionInv, OwnerInv, [Next]_vars,
         NEW user \in Users, NEW burned \in SUBSET (OwnedBy(user) \cap NonLegendaryIds),
         mintLegendaryWarrior(user, burned)
  PROVE  OwnersKept
<1>0. PICK warriorId \in Nat : warriorId = FIRST_LEGENDARY_APE_ID + numSold
  <2>1. FIRST_LEGENDARY_APE_ID + numSold \in Nat
    BY MintedIds
  <2> QED
    BY <2>1
<1>1. /\ owner' = [id \in Ids |-> IF id \in burned THEN NoOne
                                  ELSE IF id = warriorId THEN user ELSE owner[id]]
      /\ getApproved' = [id \in Ids |-> IF id \in burned THEN NoOne ELSE getApproved[id]]
      /\ UNCHANGED isApprovedForAll /\ numSold' = numSold + 1
  BY <1>0 DEF mintLegendaryWarrior
<1>2. user \in Holders /\ user # NoOne /\ NoOne \in Holders
  BY Parties
<1>3. warriorId \notin burned /\ ~Minted(warriorId) /\ Minted(warriorId)'
  <2>1. numSold \in Nat /\ FIRST_LEGENDARY_APE_ID \in Nat
        /\ currentNonLegendaryId \in Nat /\ currentNonLegendaryId < FIRST_LEGENDARY_APE_ID
    BY MintedIds
  <2> QED
    BY <1>0, <1>1, <2>1 DEF Minted, NonLegendaryIds
<1>4. ASSUME NEW id \in Ids
      PROVE  /\ owner'[id] # NoOne => Minted(id)'
             /\ owner'[id] = NoOne => getApproved'[id] = NoOne
             /\ Minted(id) /\ owner[id] = NoOne => owner'[id] = NoOne
             /\ owner'[id] # owner[id] => getApproved'[id] = NoOne
  <2>1. /\ owner[id] # NoOne => Minted(id) /\ Minted(id)'
        /\ owner[id] = NoOne => getApproved[id] = NoOne
    BY MintedIds DEF OwnerInv, NoOwnerNoApproval
  <2>2. CASE id \in burned
    BY <1>1, <2>2
  <2>3. CASE id = warriorId
    BY <1>1, <1>2, <1>3, <2>1, <2>3
  <2>4. CASE id \notin burned /\ id # warriorId
    BY <1>1, <2>1, <2>4
  <2> QED
    BY <2>2, <2>3, <2>4
<1>5. owner' \in [Ids -> Holders] /\ getApproved' \in [Ids -> Holders]
  BY <1>1, <1>2 DEF OwnerInv
<1>6. OwnerInv'
  BY <1>1, <1>4, <1>5 DEF OwnerInv, NoOwnerNoApproval
<1> QED
  BY <1>4, <1>6 DEF OwnersKept

LEMMA OwnersStep ==
  ASSUME MintInv, AuctionInv, OwnerInv, [Next]_vars
  PROVE  OwnersKept
<1>1. ASSUME NEW user \in Users, claimWarrior(user) PROVE OwnersKept
  <2>1. /\ owner' = [owner EXCEPT ![currentNonLegendaryId + 1] = user]
        /\ currentNonLegendaryId' = currentNonLegendaryId + 1
        /\ UNCHANGED <<approvalVars, auctionVars>>
    BY <1>1 DEF claimWarrior, mint
  <2> QED
    BY <2>1, OneMinted
<1>2. ASSUME NEW user \in Users, NEW maxPrice \in MaxPrices, NEW useVirtualBalance \in BOOLEAN,
             mintFromZero(user, maxPrice, useVirtualBalance)
      PROVE  OwnersKept
  <2>1. /\ owner' = [owner EXCEPT ![currentNonLegendaryId + 1] = user]
        /\ currentNonLegendaryId' = currentNonLegendaryId + 1
        /\ UNCHANGED <<approvalVars, auctionVars>>
    BY <1>2 DEF mintFromZero, mint
  <2> QED
    BY <2>1, OneMinted
<1>3. ASSUME NEW n \in BatchSizes, mintReservedWarrior(n) PROVE OwnersKept
  <2> DEFINE c == currentNonLegendaryId
  <2>1. /\ owner' = [id \in Ids |-> IF id \in (c + 1)..(c + n) THEN Team
                                    ELSE IF id \in (c + n + 1)..(c + 2 * n) THEN Community
                                    ELSE owner[id]]
        /\ c' = c + 2 * n
        /\ UNCHANGED <<approvalVars, auctionVars>>
    BY <1>3 DEF mintReservedWarrior, batchMintEach
  <2>2. n \in Nat /\ c \in Nat
    BY ZeroWarriorAssumption, MintedIds
  <2>3. owner' \in [Ids -> Holders]
    BY <2>1, Parties DEF OwnerInv
  <2>4. ASSUME NEW id \in Ids
        PROVE  \/ owner'[id] = owner[id]
               \/ id \in (c + 1)..c' /\ owner'[id] # NoOne
    BY <2>1, <2>2, Parties
  <2> QED
    BY <2>1, <2>3, <2>4, OwnersMinted
<1>4. ASSUME NEW user \in Users, NEW burned \in SUBSET (OwnedBy(user) \cap NonLegendaryIds),
             mintLegendaryWarrior(user, burned)
      PROVE  OwnersKept
  BY <1>4, OwnersBurned
<1>5. ASSUME NEW caller \in Users, NEW to \in Recipients, NEW id \in Ids, transferFrom(caller, to, id)
      PROVE  OwnersKept
  <2>1. owner[id] # NoOne
    BY <1>5, Parties DEF transferFrom, MayMove, OwnerInv, NoOwnerNoApproval
  <2>2. moveAll(owner[id], to, {id}) /\ owner[id] \in Holders
    BY <1>5 DEF transferFrom, OwnerInv
  <2> QED
    BY <2>1, <2>2, OwnersMoved
<1>6. ASSUME NEW reserve \in Reserves, NEW to \in Recipients, NEW ids \in SUBSET OwnedBy(reserve),
             withdraw(reserve, to, ids)
      PROVE  OwnersKept
  <2>1. reserve \in Holders /\ reserve # NoOne
    BY AddressesAssumption DEF Accounts, Holders
  <2>2. ids \in SUBSET Ids /\ \A id \in ids : owner[id] # NoOne
    BY <2>1 DEF OwnedBy
  <2>3. moveAll(reserve, to, ids)
    BY <1>6 DEF withdraw
  <2> QED
    BY <2>1, <2>2, <2>3, OwnersMoved
<1>7. ASSUME NEW caller \in Users, NEW spender \in Spenders, NEW id \in Ids,
             approveWarrior(caller, spender, id)
      PROVE  OwnersKept
  <2>1. /\ getApproved' = [getApproved EXCEPT ![id] = spender]
        /\ UNCHANGED <<owner, isApprovedForAll>>
        /\ caller = owner[id] \/ <<owner[id], caller>> \in isApprovedForAll
    BY <1>7 DEF approveWarrior, approve
  <2>2. owner[id] # NoOne
    BY <2>1, Parties DEF OwnerInv
  <2>3. spender \in Holders
    BY ZeroWarriorAssumption, Parties
  <2>4. OwnerInv'
    BY <2>1, <2>2, <2>3, MintedIds DEF OwnerInv, NoOwnerNoApproval
  <2> QED
    BY <2>1, <2>4 DEF OwnersKept
<1>8. ASSUME NEW caller \in Users, NEW operator \in Spenders \cap Users, NEW approved \in BOOLEAN,
             setWarriorApprovalForAll(caller, operator, approved)
      PROVE  OwnersKept
  <2>1. /\ isApprovedForAll' \subseteq Users \X Users
        /\ UNCHANGED <<owner, getApproved>>
    BY <1>8 DEF setWarriorApprovalForAll, setApprovalForAll, OwnerInv
  <2>2. OwnerInv'
    BY <2>1, MintedIds DEF OwnerInv, NoOwnerNoApproval
  <2> QED
    BY <2>1, <2>2 DEF OwnersKept
<1>9. ASSUME UNCHANGED erc721Vars PROVE OwnersKept
  BY <1>9, OwnersUnmoved
<1>10. CASE UNCHANGED vars
  BY <1>9, <1>10 DEF vars
<1>11. CASE Next
  <2> HIDE DEF OwnersKept
  <2> QED
    BY <1>1, <1>2, <1>3, <1>4, <1>5, <1>6, <1>7, <1>8, <1>9, <1>11
    DEF Next, WarriorNext, Tick, requestRandomSeed, fulfillRandomness, upgradeRandProvider, revealWarrior,
        addZero, removeZero, burnZeroForZeroName, payForZeroName, transferZero
<1> QED
  BY <1>10, <1>11

LEMMA OwnersInit == Init => OwnerInv
BY Parties DEF Init, ERC721Init, OwnerInv, NoOwnerNoApproval

LEMMA OwnersInvariant == Spec => [](MintInv /\ AuctionInv /\ OwnerInv)
<1>1. Init => OwnerInv
  BY OwnersInit
<1>2. Init => MintInv /\ AuctionInv /\ OwnerInv
  BY <1>1, MintInit, AuctionInit
<1>3. MintInv /\ AuctionInv /\ OwnerInv /\ [Next]_vars => (MintInv /\ AuctionInv /\ OwnerInv)'
  BY MintStep, AuctionStep, OwnersStep DEF OwnersKept
<1> QED
  BY <1>2, <1>3, PTL DEF Spec

(***************************************************************************)
(* NoOwnerNoApproval: an id without owner has no approval, so an approval  *)
(* given before an id was burned is of no use after.                       *)
(***************************************************************************)
THEOREM NoApprovalsWithoutOwner == Spec => []NoOwnerNoApproval
<1>1. OwnerInv => NoOwnerNoApproval
  BY DEF OwnerInv
<1> QED
  BY <1>1, OwnersInvariant, PTL

(***************************************************************************)
(* BurnedForever: no mint, transfer or withdrawal gives a burned id an     *)
(* owner.                                                                  *)
(***************************************************************************)
THEOREM BurnsLast == Spec => BurnedForever
<1> DEFINE A == \A id \in Ids : Minted(id) /\ owner[id] = NoOne => owner'[id] = NoOne
<1>1. MintInv /\ AuctionInv /\ OwnerInv /\ [Next]_vars => [A]_vars
  BY OwnersStep DEF OwnersKept
<1> QED
  BY <1>1, OwnersInvariant, PTL DEF Spec, BurnedForever

(***************************************************************************)
(* ApprovalEndsWithOwnership: whoever loses an id takes its approval along.*)
(***************************************************************************)
THEOREM ApprovalsEndWithOwnership == Spec => ApprovalEndsWithOwnership
<1> DEFINE A == \A id \in Ids : owner'[id] # owner[id] => getApproved'[id] = NoOne
<1>1. MintInv /\ AuctionInv /\ OwnerInv /\ [Next]_vars => [A]_vars
  BY OwnersStep DEF OwnersKept
<1> QED
  BY <1>1, OwnersInvariant, PTL DEF Spec, ApprovalEndsWithOwnership
===============================================================================
