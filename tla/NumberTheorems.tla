---------------------------- MODULE NumberTheorems ----------------------------
(***************************************************************************)
(* Facts about numbers, finite sets and sums that the proofs of this project*)
(* share: induction over the naturals for a set in place of a predicate,   *)
(* products and quotients, the cardinality of what changes, and what       *)
(* SumFunctionOnSet of the community modules computes over a finite set.  With*)
(* them an emission multiple can be shown to be a sum over the warriors an *)
(* account owns.                                                           *)
(***************************************************************************)
EXTENDS Integers, Functions, FiniteSets, FiniteSetTheorems, WellFoundedInduction, TLAPS

(***************************************************************************)
(* A set of naturals that has 0 and the successor of each of its members   *)
(* is Nat: a set without them would have a least missing number.           *)
(***************************************************************************)
LEMMA NatSetInduction ==
  ASSUME NEW S \in SUBSET Nat, 0 \in S, \A n \in S : n + 1 \in S
  PROVE  S = Nat
<1>1. SUFFICES ASSUME Nat \ S # {} PROVE FALSE
  OBVIOUS
<1>2. IsWellFoundedOn(OpToRel(<, Nat), Nat)
  BY NatLessThanWellFounded
<1>3. PICK m \in Nat \ S : \A y \in Nat \ S : ~ (<<y, m>> \in OpToRel(<, Nat))
  BY <1>1, <1>2, WFMin
<1>4. \A y \in Nat \ S : ~ (y < m)
  BY <1>3 DEF OpToRel
<1>5. m - 1 \in Nat /\ m - 1 < m /\ (m - 1) + 1 = m
  OBVIOUS
<1>6. m - 1 \in S
  BY <1>4, <1>5
<1>7. QED
  BY <1>5, <1>6

-------------------------------------------------------------------------------
(* Products, quotients and cardinalities *)

LEMMA DivNat ==
  ASSUME NEW a \in Nat, NEW d \in Nat \ {0}
  PROVE  a \div d \in Nat /\ 0 \div d = 0
OBVIOUS

LEMMA ProductNat ==
  ASSUME NEW a \in Nat, NEW b \in Nat
  PROVE  a * b \in Nat /\ 0 * b = 0 /\ a * 0 = 0
OBVIOUS

LEMMA ProductMonotone ==
  ASSUME NEW a \in Nat, NEW b \in Nat, NEW d \in Nat, a <= b
  PROVE  a * d <= b * d /\ a * d \in Nat /\ b * d \in Nat
<1>1. PICK k \in Nat : b = a + k
  <2>1. b - a \in Nat /\ b = a + (b - a)
    OBVIOUS
  <2> QED
    BY <2>1
<1>2. b * d = a * d + k * d
  BY <1>1
<1>3. k * d \in Nat /\ a * d \in Nat /\ b * d \in Nat
  BY ProductNat
<1> QED
  BY <1>2, <1>3

\* Rounding down: a quotient is reached when the product is.
LEMMA DivBound ==
  ASSUME NEW q \in Nat, NEW x \in Nat, NEW d \in Nat \ {0}
  PROVE  (q <= x \div d) <=> (q * d <= x)
<1> DEFINE m == x \div d
<1>1. m \in Nat /\ x = m * d + (x % d) /\ x % d \in 0..(d - 1)
  BY DivNat
<1> HIDE DEF m
<1>2. CASE q <= m
  <2>1. q * d <= m * d /\ q * d \in Nat /\ m * d \in Nat
    BY <1>1, <1>2, ProductMonotone
  <2> QED
    BY <1>1, <1>2, <2>1 DEF m
<1>3. CASE ~ (q <= m)
  <2>1. (m + 1) * d <= q * d /\ (m + 1) * d \in Nat /\ q * d \in Nat
    BY <1>1, <1>3, ProductMonotone
  <2>2. (m + 1) * d = m * d + d /\ m * d \in Nat
    BY <1>1, ProductNat
  <2> QED
    BY <1>1, <1>3, <2>1, <2>2 DEF m
<1> QED
  BY <1>2, <1>3

\* A quotient rounded down is less than one short.
LEMMA Rounded ==
  ASSUME NEW x \in Nat, NEW d \in Nat \ {0}
  PROVE  x \div d \in Nat /\ (x \div d) * d <= x /\ x < (x \div d) * d + d
<1>1. x \div d \in Nat /\ x = (x \div d) * d + (x % d) /\ x % d \in 0..(d - 1)
  BY DivNat
<1> QED
  BY <1>1

\* What a finite set loses and gains shows in its cardinality.
LEMMA BoundedHasMax ==
  ASSUME NEW n \in Nat, NEW T \in SUBSET (0..n), T # {}
  PROVE  \E m \in T : \A t \in T : t <= m
<1> DEFINE N == {k \in Nat : \A s \in SUBSET (0..k) : s # {} => \E m \in s : \A t \in s : t <= m}
<1>1. 0 \in N
  <2>1. 0..0 = {0}
    OBVIOUS
  <2>2. \A s \in SUBSET {0} : s # {} => s = {0}
    OBVIOUS
  <2> QED
    BY <2>1, <2>2
<1>2. ASSUME NEW k \in N PROVE k + 1 \in N
  <2> SUFFICES ASSUME NEW s \in SUBSET (0..k + 1), s # {}
               PROVE  \E m \in s : \A t \in s : t <= m
    OBVIOUS
  <2>1. CASE k + 1 \in s
    BY <2>1
  <2>2. CASE k + 1 \notin s
    <3>1. s \in SUBSET (0..k)
      BY <2>2
    <3> QED
      BY <3>1
  <2> QED
    BY <2>1, <2>2
<1>3. N = Nat
  BY <1>1, <1>2, NatSetInduction
<1> QED
  BY <1>3

LEMMA FiniteGain ==
  ASSUME NEW S, IsFiniteSet(S), NEW gained, IsFiniteSet(gained), S \cap gained = {}
  PROVE  Cardinality(S \cup gained) = Cardinality(S) + Cardinality(gained)
<1>1. /\ Cardinality(S \cup gained)
           = Cardinality(S) + Cardinality(gained) - Cardinality(S \cap gained)
      /\ Cardinality(S) \in Nat /\ Cardinality(gained) \in Nat
  BY FS_Union, FS_CardinalityType
<1>2. Cardinality(S \cap gained) = 0
  BY FS_EmptySet
<1> QED
  BY <1>1, <1>2

-------------------------------------------------------------------------------
First(s) == CHOOSE x \in s : TRUE

\* g is what SumFunctionOnSet iterates for f, on the subsets in D.
SumsOn(f, D, g) ==
  g = [s \in D |-> IF s = {} THEN 0 ELSE f[First(s)] + g[s \ {First(s)}]]

UpTo(S, n) == {s \in SUBSET S : Cardinality(s) <= n}

\* The iteration is defined on every subset of a finite set.
LEMMA SumsExist ==
  ASSUME NEW f, NEW S, IsFiniteSet(S)
  PROVE  \E g : SumsOn(f, SUBSET S, g)
<1> DEFINE N == {n \in Nat : \E g : SumsOn(f, UpTo(S, n), g)}
<1>fin. \A s \in SUBSET S : IsFiniteSet(s) /\ Cardinality(s) \in Nat
  BY FS_Subset, FS_CardinalityType
<1>rem. \A s \in SUBSET S : s # {} => /\ s \ {First(s)} \in SUBSET S
                                      /\ Cardinality(s \ {First(s)}) = Cardinality(s) - 1
  <2> SUFFICES ASSUME NEW s \in SUBSET S, s # {}
               PROVE  /\ s \ {First(s)} \in SUBSET S
                      /\ Cardinality(s \ {First(s)}) = Cardinality(s) - 1
    OBVIOUS
  <2>1. First(s) \in s
    BY DEF First
  <2> QED
    BY <2>1, <1>fin, FS_RemoveElement
<1>1. 0 \in N
  <2> DEFINE g == [s \in UpTo(S, 0) |-> 0]
  <2>1. \A s \in UpTo(S, 0) : s = {}
    BY <1>fin, FS_EmptySet DEF UpTo
  <2>2. SumsOn(f, UpTo(S, 0), g)
    BY <2>1 DEF SumsOn
  <2> QED
    BY <2>2
<1>2. ASSUME NEW n \in N PROVE n + 1 \in N
  <2>1. PICK g : SumsOn(f, UpTo(S, n), g)
    OBVIOUS
  <2> DEFINE h == [s \in UpTo(S, n + 1) |->
                    IF s = {} THEN 0 ELSE f[First(s)] + g[s \ {First(s)}]]
  <2>2. \A s \in UpTo(S, n) : h[s] = g[s]
    <3>1. UpTo(S, n) \subseteq UpTo(S, n + 1)
      BY <1>fin DEF UpTo
    <3>2. \A s \in UpTo(S, n) : g[s] = IF s = {} THEN 0 ELSE f[First(s)] + g[s \ {First(s)}]
      BY <2>1 DEF SumsOn
    <3> QED
      BY <3>1, <3>2
  <2>3. \A s \in UpTo(S, n + 1) : s # {} => s \ {First(s)} \in UpTo(S, n)
    BY <1>fin, <1>rem DEF UpTo
  <2>4. SumsOn(f, UpTo(S, n + 1), h)
    <3>1. \A s \in UpTo(S, n + 1) :
            h[s] = IF s = {} THEN 0 ELSE f[First(s)] + h[s \ {First(s)}]
      BY <2>2, <2>3
    <3> QED
      BY <3>1 DEF SumsOn
  <2> QED
    BY <2>4
<1>3. N = Nat
  BY <1>1, <1>2, NatSetInduction
<1>4. UpTo(S, Cardinality(S)) = SUBSET S
  <2>1. \A s \in SUBSET S : Cardinality(s) <= Cardinality(S)
    BY FS_Subset
  <2> QED
    BY <2>1 DEF UpTo
<1>5. Cardinality(S) \in N
  BY <1>3, <1>fin
<1> QED
  BY <1>4, <1>5

\* The iteration of a subset is the one of the whole set, restricted.
LEMMA SumsAgree ==
  ASSUME NEW f, NEW S, IsFiniteSet(S), NEW T \in SUBSET S,
         NEW g, SumsOn(f, SUBSET S, g), NEW h, SumsOn(f, SUBSET T, h)
  PROVE  h[T] = g[T]
<1> DEFINE N == {n \in Nat : \A s \in SUBSET T : Cardinality(s) = n => h[s] = g[s]}
<1>fin. \A s \in SUBSET T : IsFiniteSet(s) /\ Cardinality(s) \in Nat
  BY FS_Subset, FS_CardinalityType
<1>def. \A s \in SUBSET T :
          /\ g[s] = IF s = {} THEN 0 ELSE f[First(s)] + g[s \ {First(s)}]
          /\ h[s] = IF s = {} THEN 0 ELSE f[First(s)] + h[s \ {First(s)}]
  BY DEF SumsOn
<1>1. 0 \in N
  <2>1. \A s \in SUBSET T : Cardinality(s) = 0 => s = {}
    BY <1>fin, FS_EmptySet
  <2> QED
    BY <2>1, <1>def
<1>2. ASSUME NEW n \in N PROVE n + 1 \in N
  <2> SUFFICES ASSUME NEW s \in SUBSET T, Cardinality(s) = n + 1
               PROVE  h[s] = g[s]
    OBVIOUS
  <2>1. s # {}
    BY <1>fin, FS_EmptySet
  <2>2. First(s) \in s
    BY <2>1 DEF First
  <2>3. s \ {First(s)} \in SUBSET T /\ Cardinality(s \ {First(s)}) = n
    <3>1. Cardinality(s \ {First(s)}) = Cardinality(s) - 1
      BY <2>2, <1>fin, FS_RemoveElement
    <3> QED
      BY <3>1
  <2>4. h[s \ {First(s)}] = g[s \ {First(s)}]
    BY <2>3
  <2> QED
    BY <2>1, <2>4, <1>def
<1>3. N = Nat
  BY <1>1, <1>2, NatSetInduction
<1> QED
  BY <1>3, <1>fin

(***************************************************************************)
(* What SumFunctionOnSet does: nothing for the empty set, and otherwise it *)
(* adds one element to the sum of the others.                              *)
(***************************************************************************)
LEMMA SumDef ==
  ASSUME NEW f, NEW S, IsFiniteSet(S)
  PROVE  \E g : SumsOn(f, SUBSET S, g) /\ SumFunctionOnSet(f, S) = g[S]
<1> DEFINE iter == CHOOSE g : g = [s \in SUBSET S |->
                     IF s = {} THEN 0 ELSE f[First(s)] + g[s \ {First(s)}]]
<1>1. SumsOn(f, SUBSET S, iter)
  <2>1. \E g : SumsOn(f, SUBSET S, g)
    BY SumsExist
  <2> QED
    BY <2>1 DEF SumsOn
<1>2. SumFunctionOnSet(f, S) = iter[S]
  BY DEF SumFunctionOnSet, FoldFunctionOnSet, MapThenFoldSet, First
<1> QED
  BY <1>1, <1>2

LEMMA SumEmpty ==
  ASSUME NEW f
  PROVE  SumFunctionOnSet(f, {}) = 0
<1>1. PICK g : SumsOn(f, SUBSET {}, g) /\ SumFunctionOnSet(f, {}) = g[{}]
  BY SumDef, FS_EmptySet
<1>2. g[{}] = 0
  BY <1>1 DEF SumsOn
<1> QED
  BY <1>1, <1>2

LEMMA SumStep ==
  ASSUME NEW f, NEW S, IsFiniteSet(S), S # {}
  PROVE  SumFunctionOnSet(f, S) = f[First(S)] + SumFunctionOnSet(f, S \ {First(S)})
<1>1. PICK g : SumsOn(f, SUBSET S, g) /\ SumFunctionOnSet(f, S) = g[S]
  BY SumDef
<1> DEFINE T == S \ {First(S)}
<1>2. IsFiniteSet(T) /\ T \in SUBSET S
  BY FS_Subset
<1> HIDE DEF T
<1>3. PICK h : SumsOn(f, SUBSET T, h) /\ SumFunctionOnSet(f, T) = h[T]
  BY <1>2, SumDef
<1>4. h[T] = g[T]
  <2>1. T \in SUBSET S
    BY <1>2
  <2>2. SumsOn(f, SUBSET S, g)
    BY <1>1
  <2>3. SumsOn(f, SUBSET T, h)
    BY <1>3
  <2> QED
    BY <2>1, <2>2, <2>3, SumsAgree, Zenon
<1>5. g[S] = f[First(S)] + g[T]
  BY <1>1 DEF SumsOn, T
<1> QED
  BY <1>1, <1>3, <1>4, <1>5 DEF T

(***************************************************************************)
(* A sum of naturals is a natural.                                         *)
(***************************************************************************)
LEMMA SumNat ==
  ASSUME NEW f, NEW S, IsFiniteSet(S), \A x \in S : f[x] \in Nat
  PROVE  SumFunctionOnSet(f, S) \in Nat
<1> DEFINE N == {n \in Nat : \A s \in SUBSET S :
                    Cardinality(s) = n => SumFunctionOnSet(f, s) \in Nat}
<1>fin. \A s \in SUBSET S : IsFiniteSet(s) /\ Cardinality(s) \in Nat
  BY FS_Subset, FS_CardinalityType
<1>1. 0 \in N
  <2>1. \A s \in SUBSET S : Cardinality(s) = 0 => s = {}
    BY <1>fin, FS_EmptySet
  <2> QED
    BY <2>1, SumEmpty
<1>2. ASSUME NEW n \in N PROVE n + 1 \in N
  <2> SUFFICES ASSUME NEW s \in SUBSET S, Cardinality(s) = n + 1
               PROVE  SumFunctionOnSet(f, s) \in Nat
    OBVIOUS
  <2>1. s # {}
    BY <1>fin, FS_EmptySet
  <2>2. First(s) \in s
    BY <2>1 DEF First
  <2>3. s \ {First(s)} \in SUBSET S /\ Cardinality(s \ {First(s)}) = n
    <3>1. Cardinality(s \ {First(s)}) = Cardinality(s) - 1
      BY <2>2, <1>fin, FS_RemoveElement
    <3> QED
      BY <3>1
  <2>4. SumFunctionOnSet(f, s \ {First(s)}) \in Nat
    BY <2>3
  <2>5. f[First(s)] \in Nat
    BY <2>2
  <2> QED
    BY <2>1, <2>4, <2>5, <1>fin, SumStep
<1>3. N = Nat
  BY <1>1, <1>2, NatSetInduction
<1> QED
  BY <1>3, <1>fin

(***************************************************************************)
(* The order of the additions does not matter: any element can be the one  *)
(* taken out.                                                              *)
(***************************************************************************)
LEMMA SumRemove ==
  ASSUME NEW f, NEW S, IsFiniteSet(S), \A x \in S : f[x] \in Nat, NEW x \in S
  PROVE  SumFunctionOnSet(f, S) = f[x] + SumFunctionOnSet(f, S \ {x})
<1> DEFINE Sum(s) == SumFunctionOnSet(f, s)
           N == {n \in Nat : \A s \in SUBSET S : Cardinality(s) = n =>
                    \A y \in s : Sum(s) = f[y] + Sum(s \ {y})}
<1>fin. \A s \in SUBSET S : IsFiniteSet(s) /\ Cardinality(s) \in Nat
  BY FS_Subset, FS_CardinalityType
<1>nat. \A s \in SUBSET S : Sum(s) \in Nat
  BY <1>fin, SumNat
<1>step. \A s \in SUBSET S : s # {} => /\ First(s) \in s
                                      /\ Sum(s) = f[First(s)] + Sum(s \ {First(s)})
  BY <1>fin, SumStep DEF First
<1>rem. \A s \in SUBSET S : \A y \in s : Cardinality(s \ {y}) = Cardinality(s) - 1
  BY <1>fin, FS_RemoveElement
<1> HIDE DEF Sum
<1>1. 0 \in N
  <2>1. \A s \in SUBSET S : Cardinality(s) = 0 => s = {}
    BY <1>fin, FS_EmptySet
  <2> QED
    BY <2>1
<1>2. ASSUME NEW n \in N PROVE n + 1 \in N
  <2> SUFFICES ASSUME NEW s \in SUBSET S, Cardinality(s) = n + 1, NEW y \in s
               PROVE  Sum(s) = f[y] + Sum(s \ {y})
    OBVIOUS
  <2> DEFINE c == First(s)
  <2>1. c \in s /\ Sum(s) = f[c] + Sum(s \ {c})
    BY <1>step
  <2> HIDE DEF c
  <2>2. CASE y = c
    BY <2>1, <2>2
  <2>3. CASE y # c
    <3>1. /\ s \ {c} \in SUBSET S /\ y \in s \ {c} /\ Cardinality(s \ {c}) = n
          /\ s \ {y} \in SUBSET S /\ c \in s \ {y} /\ Cardinality(s \ {y}) = n
      BY <2>1, <2>3, <1>rem
    <3>2. Sum(s \ {c}) = f[y] + Sum((s \ {c}) \ {y})
      BY <3>1
    <3>3. Sum(s \ {y}) = f[c] + Sum((s \ {y}) \ {c})
      BY <3>1
    <3>4. (s \ {c}) \ {y} = (s \ {y}) \ {c}
      OBVIOUS
    <3>5. f[c] \in Nat /\ f[y] \in Nat /\ Sum((s \ {y}) \ {c}) \in Nat
      BY <2>1, <1>nat
    <3>6. Sum(s \ {c}) = f[y] + Sum((s \ {y}) \ {c})
      BY <3>2, <3>4
    <3> QED
      BY <2>1, <3>3, <3>5, <3>6
  <2> QED
    BY <2>2, <2>3
<1>3. N = Nat
  BY <1>1, <1>2, NatSetInduction
<1> QED
  BY <1>3, <1>fin DEF Sum

(***************************************************************************)
(* Functions that agree on a set have the same sum over it.                *)
(***************************************************************************)
LEMMA SumCongruent ==
  ASSUME NEW f, NEW g, NEW S, IsFiniteSet(S), \A x \in S : f[x] = g[x]
  PROVE  SumFunctionOnSet(f, S) = SumFunctionOnSet(g, S)
<1> DEFINE N == {n \in Nat : \A s \in SUBSET S : Cardinality(s) = n =>
                    SumFunctionOnSet(f, s) = SumFunctionOnSet(g, s)}
<1>fin. \A s \in SUBSET S : IsFiniteSet(s) /\ Cardinality(s) \in Nat
  BY FS_Subset, FS_CardinalityType
<1>1. 0 \in N
  <2>1. \A s \in SUBSET S : Cardinality(s) = 0 => s = {}
    BY <1>fin, FS_EmptySet
  <2> QED
    BY <2>1, SumEmpty
<1>2. ASSUME NEW n \in N PROVE n + 1 \in N
  <2> SUFFICES ASSUME NEW s \in SUBSET S, Cardinality(s) = n + 1
               PROVE  SumFunctionOnSet(f, s) = SumFunctionOnSet(g, s)
    OBVIOUS
  <2>1. s # {}
    BY <1>fin, FS_EmptySet
  <2>2. First(s) \in s
    BY <2>1 DEF First
  <2>3. s \ {First(s)} \in SUBSET S /\ Cardinality(s \ {First(s)}) = n
    <3>1. Cardinality(s \ {First(s)}) = Cardinality(s) - 1
      BY <2>2, <1>fin, FS_RemoveElement
    <3> QED
      BY <3>1
  <2>4. SumFunctionOnSet(f, s \ {First(s)}) = SumFunctionOnSet(g, s \ {First(s)})
    BY <2>3
  <2>5. /\ SumFunctionOnSet(f, s) = f[First(s)] + SumFunctionOnSet(f, s \ {First(s)})
        /\ SumFunctionOnSet(g, s) = g[First(s)] + SumFunctionOnSet(g, s \ {First(s)})
    BY <2>1, <1>fin, SumStep
  <2>6. f[First(s)] = g[First(s)]
    BY <2>2
  <2> QED
    BY <2>4, <2>5, <2>6
<1>3. N = Nat
  BY <1>1, <1>2, NatSetInduction
<1> QED
  BY <1>3, <1>fin

(***************************************************************************)
(* The sum over two disjoint sets is the sum of their sums.                *)
(***************************************************************************)
LEMMA SumUnion ==
  ASSUME NEW f, NEW S, NEW T, IsFiniteSet(S), IsFiniteSet(T), S \cap T = {},
         \A x \in S \cup T : f[x] \in Nat
  PROVE  SumFunctionOnSet(f, S \cup T) = SumFunctionOnSet(f, S) + SumFunctionOnSet(f, T)
<1> DEFINE Sum(s) == SumFunctionOnSet(f, s)
           N == {n \in Nat : \A s \in SUBSET S : Cardinality(s) = n =>
                    Sum(s \cup T) = Sum(s) + Sum(T)}
<1>fin. \A s \in SUBSET S : /\ IsFiniteSet(s) /\ Cardinality(s) \in Nat
                            /\ IsFiniteSet(s \cup T)
  BY FS_Subset, FS_CardinalityType, FS_Union
<1>nat. Sum(T) \in Nat /\ \A s \in SUBSET S : Sum(s) \in Nat /\ Sum(s \cup T) \in Nat
  <2>1. \A s \in SUBSET S : Sum(s) \in Nat
    BY <1>fin, SumNat
  <2>2. \A s \in SUBSET S : Sum(s \cup T) \in Nat
    BY <1>fin, SumNat
  <2> QED
    BY <2>1, <2>2, SumNat
<1>take. \A s \in SUBSET S : \A x \in s : /\ Sum(s) = f[x] + Sum(s \ {x})
                                       /\ Sum(s \cup T) = f[x] + Sum((s \cup T) \ {x})
  <2> SUFFICES ASSUME NEW s \in SUBSET S, NEW x \in s
               PROVE  /\ Sum(s) = f[x] + Sum(s \ {x})
                      /\ Sum(s \cup T) = f[x] + Sum((s \cup T) \ {x})
    OBVIOUS
  <2>1. IsFiniteSet(s) /\ \A z \in s : f[z] \in Nat
    BY <1>fin
  <2>2. IsFiniteSet(s \cup T) /\ x \in s \cup T /\ \A z \in s \cup T : f[z] \in Nat
    BY <1>fin
  <2>3. Sum(s) = f[x] + Sum(s \ {x})
    BY <2>1, SumRemove
  <2>4. Sum(s \cup T) = f[x] + Sum((s \cup T) \ {x})
    BY <2>2, SumRemove
  <2> QED
    BY <2>3, <2>4
<1>empty. Sum({}) = 0
  BY SumEmpty
<1> HIDE DEF Sum
<1>1. 0 \in N
  <2>1. \A s \in SUBSET S : Cardinality(s) = 0 => s = {}
    BY <1>fin, FS_EmptySet
  <2>2. Sum({} \cup T) = Sum({}) + Sum(T)
    <3>1. {} \cup T = T
      OBVIOUS
    <3> QED
      BY <3>1, <1>empty, <1>nat
  <2> QED
    BY <2>1, <2>2
<1>2. ASSUME NEW n \in N PROVE n + 1 \in N
  <2> SUFFICES ASSUME NEW s \in SUBSET S, Cardinality(s) = n + 1
               PROVE  Sum(s \cup T) = Sum(s) + Sum(T)
    OBVIOUS
  <2>1. PICK x : x \in s
    BY <1>fin, FS_EmptySet
  <2>2. s \ {x} \in SUBSET S /\ Cardinality(s \ {x}) = n
    <3>1. Cardinality(s \ {x}) = Cardinality(s) - 1
      BY <2>1, <1>fin, FS_RemoveElement
    <3> QED
      BY <3>1
  <2>3. (s \cup T) \ {x} = (s \ {x}) \cup T
    BY <2>1
  <2>4. Sum((s \ {x}) \cup T) = Sum(s \ {x}) + Sum(T)
    BY <2>2
  <2>5. Sum(s \cup T) = f[x] + (Sum(s \ {x}) + Sum(T))
    <3>1. Sum(s \cup T) = f[x] + Sum((s \cup T) \ {x})
      BY <2>1, <1>take
    <3> QED
      BY <3>1, <2>3, <2>4
  <2>6. Sum(s) = f[x] + Sum(s \ {x})
    BY <2>1, <1>take
  <2>7. f[x] \in Nat /\ Sum(s \ {x}) \in Nat /\ Sum(T) \in Nat
    BY <2>1, <2>2, <1>nat
  <2> QED
    BY <2>5, <2>6, <2>7
<1>3. N = Nat
  BY <1>1, <1>2, NatSetInduction
<1>4. Sum(S \cup T) = Sum(S) + Sum(T)
  BY <1>3, <1>fin
<1> QED
  BY <1>4 DEF Sum
(***************************************************************************)
(* What is worth 0 does not count: two sets that differ only in such       *)
(* elements have the same sum.                                             *)
(***************************************************************************)
LEMMA SumZero ==
  ASSUME NEW f, NEW S, IsFiniteSet(S), \A x \in S : f[x] = 0
  PROVE  SumFunctionOnSet(f, S) = 0
<1> DEFINE N == {n \in Nat : \A s \in SUBSET S :
                    Cardinality(s) = n => SumFunctionOnSet(f, s) = 0}
<1>fin. \A s \in SUBSET S : IsFiniteSet(s) /\ Cardinality(s) \in Nat
  BY FS_Subset, FS_CardinalityType
<1>1. 0 \in N
  <2>1. \A s \in SUBSET S : Cardinality(s) = 0 => s = {}
    BY <1>fin, FS_EmptySet
  <2> QED
    BY <2>1, SumEmpty
<1>2. ASSUME NEW n \in N PROVE n + 1 \in N
  <2> SUFFICES ASSUME NEW s \in SUBSET S, Cardinality(s) = n + 1
               PROVE  SumFunctionOnSet(f, s) = 0
    OBVIOUS
  <2>1. s # {}
    BY <1>fin, FS_EmptySet
  <2>2. First(s) \in s
    BY <2>1 DEF First
  <2>3. s \ {First(s)} \in SUBSET S /\ Cardinality(s \ {First(s)}) = n
    <3>1. Cardinality(s \ {First(s)}) = Cardinality(s) - 1
      BY <2>2, <1>fin, FS_RemoveElement
    <3> QED
      BY <3>1
  <2>4. SumFunctionOnSet(f, s \ {First(s)}) = 0
    BY <2>3
  <2>5. f[First(s)] = 0
    BY <2>2
  <2> QED
    BY <2>1, <2>4, <2>5, <1>fin, SumStep
<1>3. N = Nat
  BY <1>1, <1>2, NatSetInduction
<1> QED
  BY <1>3, <1>fin

LEMMA SumSame ==
  ASSUME NEW f, NEW S, NEW T, IsFiniteSet(S), IsFiniteSet(T), \A x \in S \cup T : f[x] \in Nat,
         \A x \in S \cup T : x \notin S \cap T => f[x] = 0
  PROVE  SumFunctionOnSet(f, S) = SumFunctionOnSet(f, T)
<1> DEFINE C == S \cap T
<1>1. IsFiniteSet(C) /\ IsFiniteSet(S \ C) /\ IsFiniteSet(T \ C)
  BY FS_Subset
<1>2. SumFunctionOnSet(f, S \ C) = 0 /\ SumFunctionOnSet(f, T \ C) = 0
  <2>1. \A x \in S \ C : f[x] = 0
    OBVIOUS
  <2>2. \A x \in T \ C : f[x] = 0
    OBVIOUS
  <2> QED
    BY <1>1, <2>1, <2>2, SumZero
<1>3. SumFunctionOnSet(f, C) \in Nat
  BY <1>1, SumNat
<1>4. SumFunctionOnSet(f, C \cup (S \ C)) = SumFunctionOnSet(f, C) + SumFunctionOnSet(f, S \ C)
  <2>1. C \cap (S \ C) = {} /\ \A x \in C \cup (S \ C) : f[x] \in Nat
    OBVIOUS
  <2> HIDE DEF C
  <2> QED
    BY <1>1, <2>1, SumUnion
<1>5. SumFunctionOnSet(f, C \cup (T \ C)) = SumFunctionOnSet(f, C) + SumFunctionOnSet(f, T \ C)
  <2>1. C \cap (T \ C) = {} /\ \A x \in C \cup (T \ C) : f[x] \in Nat
    OBVIOUS
  <2> HIDE DEF C
  <2> QED
    BY <1>1, <2>1, SumUnion
<1>6. C \cup (S \ C) = S /\ C \cup (T \ C) = T
  OBVIOUS
<1> HIDE DEF C
<1> QED
  BY <1>2, <1>3, <1>4, <1>5, <1>6
(***************************************************************************)
(* Two functions that differ at one point differ by it in their sums.      *)
(***************************************************************************)
LEMMA SumUpdate ==
  ASSUME NEW S, IsFiniteSet(S), NEW f \in [S -> Nat], NEW g \in [S -> Nat], NEW x \in S,
         \A y \in S : y # x => g[y] = f[y]
  PROVE  /\ SumFunctionOnSet(f, S) \in Nat /\ SumFunctionOnSet(g, S) \in Nat
         /\ SumFunctionOnSet(g, S) - g[x] = SumFunctionOnSet(f, S) - f[x]
<1>1. SumFunctionOnSet(f, S) \in Nat /\ SumFunctionOnSet(g, S) \in Nat
  BY SumNat
<1>2. SumFunctionOnSet(f, S) = f[x] + SumFunctionOnSet(f, S \ {x})
  BY SumRemove
<1>3. SumFunctionOnSet(g, S) = g[x] + SumFunctionOnSet(g, S \ {x})
  BY SumRemove
<1>4. IsFiniteSet(S \ {x}) /\ \A y \in S \ {x} : f[y] = g[y] /\ f[y] \in Nat
  BY FS_RemoveElement
<1>5. SumFunctionOnSet(f, S \ {x}) = SumFunctionOnSet(g, S \ {x})
  BY <1>4, SumCongruent
<1>6. SumFunctionOnSet(f, S \ {x}) \in Nat
  BY <1>4, SumNat
<1>7. f[x] \in Nat /\ g[x] \in Nat
  OBVIOUS
<1> QED
  BY <1>1, <1>2, <1>3, <1>5, <1>6, <1>7
(***************************************************************************)
(* What one point gives another stays in the sum.                          *)
(***************************************************************************)
LEMMA SumTrade ==
  ASSUME NEW S, IsFiniteSet(S), NEW f \in [S -> Nat], NEW g \in [S -> Nat],
         NEW x \in S, NEW y \in S, x # y, NEW n \in Nat,
         g[x] = f[x] - n, g[y] = f[y] + n,
         \A z \in S : z # x /\ z # y => g[z] = f[z]
  PROVE  SumFunctionOnSet(g, S) = SumFunctionOnSet(f, S)
<1>1. PICK h : h = [f EXCEPT ![x] = f[x] - n]
  OBVIOUS
<1>2. f[x] \in Nat /\ g[x] \in Nat /\ f[y] \in Nat /\ h[x] = f[x] - n /\ h[x] = g[x]
  BY <1>1
<1>3. h \in [S -> Nat] /\ \A z \in S : z # x => h[z] = f[z]
  BY <1>1, <1>2
<1>4. \A z \in S : z # y => g[z] = h[z]
  BY <1>2, <1>3
<1>5. /\ SumFunctionOnSet(f, S) \in Nat /\ SumFunctionOnSet(h, S) \in Nat
      /\ SumFunctionOnSet(h, S) - h[x] = SumFunctionOnSet(f, S) - f[x]
  BY <1>3, SumUpdate
<1>6. /\ SumFunctionOnSet(g, S) \in Nat
      /\ SumFunctionOnSet(g, S) - g[y] = SumFunctionOnSet(h, S) - h[y]
  BY <1>3, <1>4, SumUpdate
<1>7. SumFunctionOnSet(h, S) = SumFunctionOnSet(f, S) - n
  BY <1>2, <1>5
<1>8. h[y] = f[y] /\ g[y] = f[y] + n
  BY <1>3
<1>9. SumFunctionOnSet(g, S) = SumFunctionOnSet(h, S) + n
  BY <1>2, <1>5, <1>6, <1>8
<1> QED
  BY <1>5, <1>7, <1>9
===============================================================================
