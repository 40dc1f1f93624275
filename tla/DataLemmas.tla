------------------------------ MODULE DataLemmas -----------------------------
(***************************************************************************)
(* Lemmas about data that the proofs of several modules share: quotients,  *)
(* sums over finite sets as the community modules define them, and the     *)
(* members of a finite set taken in an order; and about the bets that      *)
(* arbkit-match aligns and pairs.                                          *)
(***************************************************************************)
EXTENDS Integers, FiniteSets, Functions, FiniteSetsExt, FiniteSetTheorems,
        FunctionTheorems, SequenceTheorems, NaturalsInduction, WellFoundedInduction, TLAPS

(***************************************************************************)
(* Numbers                                                                 *)
(***************************************************************************)

\* A product of natural numbers is one.
LEMMA ProductNat == ASSUME NEW a \in Nat, NEW b \in Nat PROVE a * b \in Nat
OBVIOUS

\* A product grows with its factor.
LEMMA Monotone ==
    ASSUME NEW a \in Int, NEW b \in Int, a <= b, NEW k \in Nat
    PROVE  a * k \in Int /\ b * k \in Int /\ a * k <= b * k
<1>1. a * k \in Int /\ b * k \in Int
  OBVIOUS
<1>2. (b - a) \in Nat
  OBVIOUS
<1>3. (b - a) * k >= 0
  BY <1>2, ProductNat
<1> QED BY <1>1, <1>3, Z3

\* What a quotient leaves of its numerator is less than the divisor.
LEMMA Quotient ==
    ASSUME NEW n \in Int, NEW d \in Nat \ {0}
    PROVE  /\ n \div d \in Int
           /\ (n \div d) * d \in Int
           /\ (n \div d) * d <= n /\ n < (n \div d) * d + d
<1> DEFINE q == n \div d
           r == n % d
<1>1. q \in Int /\ r \in Int /\ 0 <= r /\ r < d
  BY SMT
<1>2. n = d * q + r
  BY SMT
<1>3. q * d \in Int /\ q * d = d * q
  BY <1>1, SMT
<1> HIDE DEF q, r
<1>4. q * d <= n /\ n < q * d + d
  BY <1>1, <1>2, <1>3, SMT
<1> QED BY <1>1, <1>3, <1>4 DEF q

\* A quotient is at least what fits its numerator whole.
LEMMA QuotientAtLeast ==
    ASSUME NEW n \in Int, NEW d \in Nat \ {0}, NEW k \in Int, k * d <= n
    PROVE  n \div d \in Int /\ k <= n \div d
<1> DEFINE q == n \div d
<1>1. q \in Int /\ q * d \in Int /\ q * d <= n /\ n < q * d + d
  BY Quotient
<1>2. k * d \in Int
  OBVIOUS
<1> HIDE DEF q
<1>3. ASSUME q + 1 <= k PROVE FALSE
  <2>1. (q + 1) * d <= k * d /\ (q + 1) * d \in Int
    BY <1>1, <1>3, Monotone
  <2>2. (q + 1) * d = q * d + d
    BY <1>1, SMT
  <2> QED BY <1>1, <1>2, <2>1, <2>2
<1> QED BY <1>1, <1>3 DEF q

\* A quotient of natural numbers is one.
LEMMA QuotientNat ==
    ASSUME NEW n \in Nat, NEW d \in Nat \ {0}
    PROVE  n \div d \in Nat
BY QuotientAtLeast, 0 * d = 0

\* A positive product with a natural number has a positive factor.
LEMMA Positive ==
    ASSUME NEW a \in Int, NEW k \in Nat, a * k > 0
    PROVE  a > 0
<1>1. CASE a <= 0
  <2>1. a * k <= 0 * k /\ 0 * k = 0 /\ a * k \in Int
    BY <1>1, Monotone
  <2> DEFINE x == a * k
  <2> HIDE DEF x
  <2>2. x <= 0 /\ x > 0 /\ x \in Int
    BY <2>1 DEF x
  <2> QED BY <2>2
<1> QED BY <1>1

\* A quotient grows with its numerator.
LEMMA QuotientMonotone ==
    ASSUME NEW a \in Int, NEW b \in Int, a <= b, NEW d \in Nat \ {0}
    PROVE  a \div d \in Int /\ b \div d \in Int /\ a \div d <= b \div d
<1>1. a \div d \in Int /\ (a \div d) * d <= a /\ (a \div d) * d \in Int
  BY Quotient
<1>2. (a \div d) * d <= b
  BY <1>1
<1>3. b \div d \in Int /\ a \div d <= b \div d
  <2> DEFINE q == a \div d
  <2>1. q \in Int /\ q * d <= b
    BY <1>1, <1>2
  <2> HIDE DEF q
  <2>2. b \div d \in Int /\ q <= b \div d
    BY <2>1, QuotientAtLeast
  <2> QED BY <2>2 DEF q
<1> QED BY <1>1, <1>3

\* A larger divisor gives no larger quotient.
LEMMA QuotientAntitone ==
    ASSUME NEW n \in Nat, NEW d \in Nat \ {0}, NEW e \in Nat \ {0}, d <= e
    PROVE  n \div d \in Nat /\ n \div e \in Nat /\ n \div e <= n \div d
<1> DEFINE q == n \div e
<1>1. q \in Nat /\ q * e <= n /\ q * e \in Int
  BY Quotient, QuotientNat
<1> HIDE DEF q
<1>2. d * q <= e * q /\ d * q \in Int /\ e * q \in Int
  BY <1>1, Monotone
<1>3. q * d <= n
  BY <1>1, <1>2
<1>4. n \div d \in Int /\ q <= n \div d
  BY <1>1, <1>3, QuotientAtLeast
<1> QED BY <1>1, <1>4, QuotientNat DEF q

\* What a quotient exceeds, its numerator covers in whole steps.
LEMMA QuotientAbove ==
    ASSUME NEW n \in Nat, NEW d \in Nat \ {0}, NEW t \in Int, n \div d > t
    PROVE  n >= d * (t + 1)
<1> DEFINE q == n \div d
           r == n % d
<1>1. q \in Int /\ r \in Int /\ 0 <= r
  BY SMT
<1>2. n = d * q + r
  BY SMT
<1>3. q >= t + 1
  BY <1>1
<1> HIDE DEF q, r
<1>4. d * q >= d * (t + 1)
  BY <1>1, <1>3, SMT
<1>5. d * (t + 1) \in Int /\ d * q \in Int
  BY <1>1
<1> QED
  BY <1>1, <1>2, <1>4, <1>5, SMT

(***************************************************************************)
(* Sums                                                                    *)
(***************************************************************************)

\* A set of natural numbers that is not empty has a least member.
LEMMA LeastNumber ==
    ASSUME NEW T, T \subseteq Nat, T # {}
    PROVE  \E m \in T : \A k \in T : m <= k
<1> DEFINE R == OpToRel(<, Nat)
<1>1. IsWellFoundedOn(R, Nat)
  BY NatLessThanWellFounded
<1>2. \A x, y \in Nat : x < y => <<x, y>> \in R
  BY DEF OpToRel
<1> HIDE DEF R
<1>3. PICK m \in T : \A k \in T : <<k, m>> \notin R
  BY <1>1, WFMin
<1>4. \A k \in T : ~(k < m)
  BY <1>2, <1>3
<1>5. \A k \in T : m <= k
  <2>1. TAKE k \in T
  <2>2. k \in Nat /\ m \in Nat /\ ~(k < m)
    BY <1>4
  <2> QED BY ONLY <2>2
<1> QED BY <1>5

\* The recursion.

Pick(s) == CHOOSE x \in s : TRUE

\* What g says of s, given what it says of the smaller sets.
Unfold(f, g, s) == IF s = {} THEN 0 ELSE f[Pick(s)] + g[s \ {Pick(s)}]

Sums(f, S, g) == g = [s \in SUBSET S |-> Unfold(f, g, s)]

\* The sum is the value of a function that obeys the unfolding.
LEMMA SumIsRecursive ==
    ASSUME NEW f, NEW S
    PROVE  SumFunctionOnSet(f, S) = (CHOOSE g : Sums(f, S, g))[S]
BY DEF SumFunctionOnSet, FoldFunctionOnSet, MapThenFoldSet, Sums, Unfold, Pick

\* A picked member is a member, and the rest is smaller by one.
LEMMA Picked ==
    ASSUME NEW s, s # {}, IsFiniteSet(s)
    PROVE  /\ Pick(s) \in s /\ IsFiniteSet(s \ {Pick(s)})
           /\ Cardinality(s) \in Nat \ {0} /\ Cardinality(s \ {Pick(s)}) = Cardinality(s) - 1
<1>1. Pick(s) \in s
  BY DEF Pick
<1>2. Cardinality(s) \in Nat /\ Cardinality(s) # 0
  BY FS_CardinalityType, FS_EmptySet
<1> QED BY <1>1, <1>2, FS_RemoveElement

\* Some function obeys the unfolding.
LEMMA SumsExist ==
    ASSUME NEW f, NEW S, IsFiniteSet(S)
    PROVE  \E g : Sums(f, S, g)
<1> DEFINE Small(n) == {s \in SUBSET S : Cardinality(s) <= n}
           On(n, g) == g = [s \in Small(n) |-> Unfold(f, g, s)]
           Bad == {n \in Nat : ~ \E g : On(n, g)}
<1>0. \A s \in SUBSET S : IsFiniteSet(s) /\ Cardinality(s) \in Nat /\ Cardinality(s) <= Cardinality(S)
  BY FS_Subset, FS_CardinalityType
<1>1. Bad = {}
  <2> SUFFICES ASSUME Bad # {} PROVE FALSE
    OBVIOUS
  <2>1. PICK m \in Bad : \A k \in Bad : m <= k
    <3>1. Bad \subseteq Nat
      OBVIOUS
    <3> HIDE DEF Bad
    <3> QED BY <3>1, LeastNumber
  <2>2. CASE m = 0
    <3> DEFINE g == [s \in Small(0) |-> 0]
    <3>1. \A s \in Small(0) : s = {}
      BY <1>0, FS_EmptySet
    <3>2. \A s \in Small(0) : Unfold(f, g, s) = 0
      BY <3>1 DEF Unfold
    <3>3. On(0, g)
      BY <3>2
    <3> QED BY <2>1, <2>2, <3>3
  <2>3. CASE m # 0
    <3>1. m - 1 \in Nat /\ m - 1 \notin Bad /\ m \in Nat
      <4>1. m \in Nat /\ m - 1 \in Nat
        BY <2>3
      <4>2. ~(m <= m - 1)
        BY <4>1
      <4> QED BY <2>1, <4>1, <4>2
    <3>2. PICK g : On(m - 1, g)
      BY <3>1
    <3> DEFINE h == [s \in Small(m) |-> Unfold(f, g, s)]
    <3>3. \A s \in Small(m - 1) : s \in Small(m) /\ g[s] = h[s]
      <4>1. \A s \in Small(m - 1) : s \in Small(m)
        BY <1>0, <3>1
      <4>2. \A s \in Small(m - 1) : g[s] = Unfold(f, g, s)
        <5> HIDE DEF Small
        <5> QED BY <3>2
      <4> QED BY <4>1, <4>2
    <3>4. \A s \in Small(m) : Unfold(f, g, s) = Unfold(f, h, s)
      <4>1. TAKE s \in Small(m)
      <4>2. CASE s = {}
        BY <4>2 DEF Unfold
      <4>3. CASE s # {}
        <5>1. s \ {Pick(s)} \in Small(m - 1)
          BY <1>0, <3>1, <4>3, Picked
        <5>2. g[s \ {Pick(s)}] = h[s \ {Pick(s)}]
          <6> HIDE DEF Small, h
          <6> QED BY <3>3, <5>1
        <5> HIDE DEF h
        <5> QED BY <5>2 DEF Unfold
      <4> QED BY <4>2, <4>3
    <3>5. On(m, h)
      <4> HIDE DEF Small
      <4> QED BY <3>4
    <3> QED BY <2>1, <3>5
  <2> QED BY <2>2, <2>3
<1>2. Cardinality(S) \in Nat /\ Small(Cardinality(S)) = SUBSET S
  BY <1>0, FS_CardinalityType
<1>3. PICK g : On(Cardinality(S), g)
  BY <1>1, <1>2
<1> HIDE DEF Small
<1> QED BY <1>2, <1>3 DEF Sums

\* The chosen function obeys the recursion.
LEMMA SumUnfolds ==
    ASSUME NEW f, NEW S, IsFiniteSet(S)
    PROVE  \E g : Sums(f, S, g) /\ SumFunctionOnSet(f, S) = g[S]
BY SumsExist, SumIsRecursive

\* Two functions that obey it for sums of equal values agree.
LEMMA SumsAgree ==
    ASSUME NEW f, NEW e, NEW S, NEW T, NEW g, NEW h, Sums(f, S, g), Sums(e, T, h),
           NEW s, s \subseteq S, s \subseteq T, IsFiniteSet(s), \A x \in s : f[x] = e[x]
    PROVE  g[s] = h[s]
<1> DEFINE Differs(u) == u \subseteq s /\ g[u] # h[u]
           Sizes == {n \in Nat : \E u \in SUBSET s : Differs(u) /\ Cardinality(u) = n}
<1>0. \A u \in SUBSET s : IsFiniteSet(u) /\ Cardinality(u) \in Nat
  BY FS_Subset, FS_CardinalityType
<1>1. \A u \in SUBSET s : g[u] = Unfold(f, g, u) /\ h[u] = Unfold(e, h, u)
  BY DEF Sums
<1>2. Sizes = {}
  <2> SUFFICES ASSUME Sizes # {} PROVE FALSE
    OBVIOUS
  <2>1. PICK m \in Sizes : \A k \in Sizes : m <= k
    <3>1. Sizes \subseteq Nat
      OBVIOUS
    <3> HIDE DEF Sizes
    <3> QED BY <3>1, LeastNumber
  <2>2. PICK u \in SUBSET s : g[u] # h[u] /\ Cardinality(u) = m
    OBVIOUS
  <2>3. u # {}
    BY <1>1, <2>2 DEF Unfold
  <2> DEFINE v == u \ {Pick(u)}
  <2>4. Pick(u) \in u /\ v \in SUBSET s /\ m \in Nat /\ Cardinality(v) = m - 1 /\ m - 1 \in Nat
    BY <1>0, <2>2, <2>3, Picked
  <2>5. m - 1 \notin Sizes
    <3>1. ~(m <= m - 1)
      BY <2>4
    <3> HIDE DEF Sizes
    <3> QED BY <2>1, <3>1
  <2>6. g[v] = h[v]
    BY <2>4, <2>5
  <2> HIDE DEF v
  <2>7. Unfold(f, g, u) = Unfold(e, h, u)
    BY <2>3, <2>4, <2>6 DEF Unfold, v
  <2> QED BY <1>1, <2>2, <2>7
<1>3. Cardinality(s) \in Nat /\ s \in SUBSET s
  BY <1>0
<1> QED BY <1>2, <1>3

\* The sum of nothing is zero.
LEMMA SumOfNone ==
    ASSUME NEW f
    PROVE  SumFunctionOnSet(f, {}) = 0
<1>1. PICK g : Sums(f, {}, g) /\ SumFunctionOnSet(f, {}) = g[{}]
  BY SumUnfolds, FS_EmptySet
<1> QED BY <1>1 DEF Sums, Unfold

\* Equal terms have equal sums.
LEMMA SumOfEqual ==
    ASSUME NEW f, NEW e, NEW S, IsFiniteSet(S), \A x \in S : f[x] = e[x]
    PROVE  SumFunctionOnSet(f, S) = SumFunctionOnSet(e, S)
<1>1. PICK g : Sums(f, S, g) /\ SumFunctionOnSet(f, S) = g[S]
  BY SumUnfolds
<1>2. PICK h : Sums(e, S, h) /\ SumFunctionOnSet(e, S) = h[S]
  BY SumUnfolds
<1> QED BY <1>1, <1>2, SumsAgree

\* A sum is its picked term and the sum of the rest.
LEMMA SumOfPicked ==
    ASSUME NEW f, NEW S, IsFiniteSet(S), S # {}
    PROVE  SumFunctionOnSet(f, S) = f[Pick(S)] + SumFunctionOnSet(f, S \ {Pick(S)})
<1> DEFINE T == S \ {Pick(S)}
<1>1. Pick(S) \in S /\ IsFiniteSet(T) /\ T \subseteq S
  BY Picked
<1>2. PICK g : Sums(f, S, g) /\ SumFunctionOnSet(f, S) = g[S]
  BY SumUnfolds
<1>3. PICK h : Sums(f, T, h) /\ SumFunctionOnSet(f, T) = h[T]
  BY <1>1, SumUnfolds
<1> HIDE DEF T
<1>4. g[T] = h[T]
  BY <1>1, <1>2, <1>3, SumsAgree
<1>5. g[S] = f[Pick(S)] + g[T]
  BY <1>2 DEF Sums, Unfold, T
<1> QED BY <1>2, <1>3, <1>4, <1>5 DEF T

\* Sums of integers are integers, and any element can be taken out first.
LEMMA SumSplits ==
    ASSUME NEW f, NEW S, IsFiniteSet(S), \A x \in S : f[x] \in Int
    PROVE  /\ SumFunctionOnSet(f, S) \in Int
           /\ \A x \in S : SumFunctionOnSet(f, S) = f[x] + SumFunctionOnSet(f, S \ {x})
<1> DEFINE Sum(s) == SumFunctionOnSet(f, s)
           Good(s) == Sum(s) \in Int /\ \A x \in s : Sum(s) = f[x] + Sum(s \ {x})
           Sizes == {n \in Nat : \E s \in SUBSET S : ~Good(s) /\ Cardinality(s) = n}
<1>0. \A s \in SUBSET S : IsFiniteSet(s) /\ Cardinality(s) \in Nat
  BY FS_Subset, FS_CardinalityType
<1>1. Sizes = {}
  <2> SUFFICES ASSUME Sizes # {} PROVE FALSE
    OBVIOUS
  <2>1. PICK m \in Sizes : \A k \in Sizes : m <= k
    <3>1. Sizes \subseteq Nat
      OBVIOUS
    <3> HIDE DEF Sizes
    <3> QED BY <3>1, LeastNumber
  <2>2. PICK s \in SUBSET S : ~Good(s) /\ Cardinality(s) = m
    OBVIOUS
  <2>3. s # {}
    <3>1. Sum({}) = 0
      BY SumOfNone
    <3>2. Good({})
      <4> HIDE DEF Sum
      <4> QED BY <3>1
    <3> HIDE DEF Good
    <3> QED BY <2>2, <3>2
  <2> DEFINE p == Pick(s)
  <2>4. m \in Nat /\ m - 1 \in Nat /\ p \in s /\ p \in S
    BY <1>0, <2>2, <2>3, Picked
  <2>5. \A x \in s : s \ {x} \in SUBSET S /\ IsFiniteSet(s \ {x}) /\ Cardinality(s \ {x}) = m - 1
    BY <1>0, <2>2, FS_RemoveElement
  <2>6. m - 1 \notin Sizes
    <3>1. ~(m <= m - 1)
      BY <2>4
    <3> HIDE DEF Sizes
    <3> QED BY <2>1, <3>1
  <2>7. \A x \in s : Good(s \ {x})
    <3> HIDE DEF Good
    <3> QED BY <2>4, <2>5, <2>6
  <2>8. Sum(s) = f[p] + Sum(s \ {p})
    BY <1>0, <2>3, SumOfPicked
  <2> HIDE DEF p, Sum
  <2>9. Sum(s) \in Int
    <3>1. f[p] \in Int /\ Sum(s \ {p}) \in Int
      BY <2>4, <2>7
    <3> QED BY <2>8, <3>1
  <2>10. \A x \in s : Sum(s) = f[x] + Sum(s \ {x})
    <3>1. TAKE x \in s
    <3>2. CASE x = p
      BY <2>8, <3>2
    <3>3. CASE x # p
      <4> DEFINE t == (s \ {p}) \ {x}
      <4>1. t = (s \ {x}) \ {p} /\ x \in s \ {p} /\ p \in s \ {x}
        BY <2>4, <3>3
      <4>2. Sum(s \ {p}) = f[x] + Sum(t) /\ Sum(s \ {x}) = f[p] + Sum(t)
        BY <2>4, <2>7, <4>1
      <4>3. t \in SUBSET S /\ Cardinality(t) + 1 = m - 1 /\ Cardinality(t) \in Nat
        <5>1. t \in SUBSET S /\ Cardinality(t) \in Nat
          BY <1>0
        <5>2. Cardinality((s \ {x}) \ {p}) = Cardinality(s \ {x}) - 1
          BY <2>5, <4>1, FS_RemoveElement
        <5>3. Cardinality(t) = (m - 1) - 1
          BY <2>5, <4>1, <5>2
        <5> HIDE DEF t
        <5> QED BY <2>4, <5>1, <5>3
      <4>4. Sum(t) \in Int
        <5>1. Cardinality(t) \notin Sizes
          <6>1. ~(m <= Cardinality(t))
            BY <2>4, <4>3
          <6> HIDE DEF Sizes, t
          <6> QED BY <2>1, <6>1
        <5> HIDE DEF t
        <5> QED BY <4>3, <5>1
      <4>5. f[x] \in Int /\ f[p] \in Int
        BY <2>4
      <4> HIDE DEF t
      <4> QED BY <2>8, <4>2, <4>4, <4>5
    <3> QED BY <3>2, <3>3
  <2> QED BY <2>2, <2>9, <2>10
<1>2. Good(S)
  <2>1. Cardinality(S) \in Nat /\ S \in SUBSET S
    BY <1>0
  <2> HIDE DEF Good
  <2> QED BY <1>1, <2>1
<1> QED BY <1>2

\* A sum of integers is an integer.
LEMMA SumType ==
    ASSUME NEW f, NEW S, IsFiniteSet(S), \A x \in S : f[x] \in Int
    PROVE  SumFunctionOnSet(f, S) \in Int
BY SumSplits

\* A sum is any one of its terms and the sum of the rest.
LEMMA SumWithout ==
    ASSUME NEW f, NEW S, IsFiniteSet(S), \A x \in S : f[x] \in Int, NEW x \in S
    PROVE  SumFunctionOnSet(f, S) = f[x] + SumFunctionOnSet(f, S \ {x})
BY SumSplits

\* Changing one term changes the sum by as much.
LEMMA SumOfChanged ==
    ASSUME NEW f, NEW e, NEW S, IsFiniteSet(S), NEW x \in S,
           \A y \in S : f[y] \in Int /\ e[y] \in Int, \A y \in S \ {x} : f[y] = e[y]
    PROVE  SumFunctionOnSet(e, S) = SumFunctionOnSet(f, S) + e[x] - f[x]
<1>1. /\ SumFunctionOnSet(f, S) = f[x] + SumFunctionOnSet(f, S \ {x})
      /\ SumFunctionOnSet(e, S) = e[x] + SumFunctionOnSet(e, S \ {x})
  BY SumWithout
<1>2. IsFiniteSet(S \ {x})
  BY FS_RemoveElement
<1>3. SumFunctionOnSet(f, S \ {x}) = SumFunctionOnSet(e, S \ {x})
  BY <1>2, SumOfEqual
<1>4. SumFunctionOnSet(f, S \ {x}) \in Int
  BY <1>2, SumType
<1>5. f[x] \in Int /\ e[x] \in Int
  OBVIOUS
<1> HIDE DEF SumFunctionOnSet
<1> QED BY <1>1, <1>3, <1>4, <1>5

\* A further term adds itself.
LEMMA SumWith ==
    ASSUME NEW f, NEW S, IsFiniteSet(S), NEW x, x \notin S, \A y \in S \cup {x} : f[y] \in Int
    PROVE  SumFunctionOnSet(f, S \cup {x}) = SumFunctionOnSet(f, S) + f[x]
<1>1. IsFiniteSet(S \cup {x}) /\ (S \cup {x}) \ {x} = S
  BY FS_AddElement
<1>2. SumFunctionOnSet(f, S \cup {x}) = f[x] + SumFunctionOnSet(f, S)
  BY <1>1, SumWithout
<1>3. SumFunctionOnSet(f, S) \in Int /\ f[x] \in Int
  BY SumType
<1> QED BY <1>2, <1>3

\* A sum of zeros is zero.
LEMMA SumOfZeros ==
    ASSUME NEW f, NEW S, IsFiniteSet(S), \A x \in S : f[x] = 0
    PROVE  SumFunctionOnSet(f, S) = 0
<1> DEFINE Sizes == {n \in Nat : \E s \in SUBSET S : SumFunctionOnSet(f, s) # 0 /\ Cardinality(s) = n}
<1>0. \A s \in SUBSET S : IsFiniteSet(s) /\ Cardinality(s) \in Nat
  BY FS_Subset, FS_CardinalityType
<1>1. Sizes = {}
  <2> SUFFICES ASSUME Sizes # {} PROVE FALSE
    OBVIOUS
  <2>1. PICK m \in Sizes : \A k \in Sizes : m <= k
    <3>1. Sizes \subseteq Nat
      OBVIOUS
    <3> HIDE DEF Sizes
    <3> QED BY <3>1, LeastNumber
  <2>2. PICK s \in SUBSET S : SumFunctionOnSet(f, s) # 0 /\ Cardinality(s) = m
    OBVIOUS
  <2>3. s # {}
    BY <2>2, SumOfNone
  <2> DEFINE p == Pick(s)
             t == s \ {p}
  <2>4. p \in s /\ t \in SUBSET S /\ m \in Nat /\ Cardinality(t) = m - 1 /\ m - 1 \in Nat
    BY <1>0, <2>2, <2>3, Picked
  <2>5. m - 1 \notin Sizes
    <3>1. ~(m <= m - 1)
      BY <2>4
    <3> HIDE DEF Sizes
    <3> QED BY <2>1, <3>1
  <2>6. SumFunctionOnSet(f, t) = 0
    BY <2>4, <2>5
  <2>7. SumFunctionOnSet(f, s) = f[p] + SumFunctionOnSet(f, t)
    BY <1>0, <2>3, SumOfPicked
  <2> QED BY <2>2, <2>4, <2>6, <2>7
<1>2. Cardinality(S) \in Nat /\ S \in SUBSET S
  BY <1>0
<1> QED BY <1>1, <1>2

\* The sum of one term is that term.
LEMMA SumOfOne ==
    ASSUME NEW f, NEW x, f[x] \in Int
    PROVE  SumFunctionOnSet(f, {x}) = f[x]
<1>1. SumFunctionOnSet(f, {} \cup {x}) = SumFunctionOnSet(f, {}) + f[x]
  BY FS_EmptySet, SumWith
<1>2. {} \cup {x} = {x}
  OBVIOUS
<1> QED BY <1>1, <1>2, SumOfNone

(***************************************************************************)
(* Sets, orders and sums over them                                         *)
(***************************************************************************)

\* Induction over the subsets of a finite set, with a set of sets for the
\* property.
LEMMA SubsetInduction ==
    ASSUME NEW S, IsFiniteSet(S), NEW P, {} \in P,
           \A T \in P : \A x \in S \ T : T \subseteq S => T \cup {x} \in P
    PROVE  S \in P
<1> DEFINE Sizes == {n \in Nat : \E s \in SUBSET S : s \notin P /\ Cardinality(s) = n}
<1>0. \A s \in SUBSET S : IsFiniteSet(s) /\ Cardinality(s) \in Nat
  BY FS_Subset, FS_CardinalityType
<1>1. Sizes = {}
  <2> SUFFICES ASSUME Sizes # {} PROVE FALSE
    OBVIOUS
  <2>1. PICK m \in Sizes : \A k \in Sizes : m <= k
    <3>1. Sizes \subseteq Nat
      OBVIOUS
    <3> HIDE DEF Sizes
    <3> QED BY <3>1, LeastNumber
  <2>2. PICK s \in SUBSET S : s \notin P /\ Cardinality(s) = m
    OBVIOUS
  <2>3. s # {}
    BY <2>2
  <2> DEFINE p == Pick(s)
             t == s \ {p}
  <2>4. p \in s /\ t \in SUBSET S /\ m \in Nat /\ Cardinality(t) = m - 1 /\ m - 1 \in Nat
    BY <1>0, <2>2, <2>3, Picked
  <2>5. m - 1 \notin Sizes
    <3>1. ~(m <= m - 1)
      BY <2>4
    <3> HIDE DEF Sizes
    <3> QED BY <2>1, <3>1
  <2>6. t \in P
    BY <2>4, <2>5
  <2>7. t \cup {p} = s /\ p \in S \ t
    BY <2>4
  <2> QED BY <2>2, <2>4, <2>6, <2>7
<1>2. Cardinality(S) \in Nat /\ S \in SUBSET S
  BY <1>0
<1> QED BY <1>1, <1>2

\* Induction over an interval from zero, with a set for the property.
LEMMA CountUp ==
    ASSUME NEW m \in Nat, NEW T, 0 \in T, \A i \in 0 .. m - 1 : i \in T => i + 1 \in T
    PROVE  \A i \in 0 .. m : i \in T
<1> DEFINE Out == {i \in 0 .. m : i \notin T}
<1>1. Out = {}
  <2> SUFFICES ASSUME Out # {} PROVE FALSE
    OBVIOUS
  <2>1. PICK k \in Out : \A i \in Out : k <= i
    <3>1. Out \subseteq Nat
      OBVIOUS
    <3> HIDE DEF Out
    <3> QED BY <3>1, LeastNumber
  <2>2. k \in 0 .. m /\ k # 0 /\ k \notin T
    OBVIOUS
  <2>3. k - 1 \in 0 .. m - 1 /\ k - 1 \in 0 .. m /\ (k - 1) + 1 = k /\ ~(k <= k - 1)
    BY <2>2
  <2>4. k - 1 \in T
    BY <2>1, <2>3
  <2> QED BY <2>2, <2>3, <2>4
<1> QED BY <1>1

\* g is what F makes of a, step by step.
Repeats(g, A, a, F, m) ==
    /\ g \in [0 .. m -> A]
    /\ g = [i \in 0 .. m |-> IF i = 0 THEN a ELSE F[g[i - 1]]]

\* A step can be repeated m times within a set.
LEMMA Iterates ==
    ASSUME NEW A, NEW a \in A, NEW F \in [A -> A], NEW m \in Nat
    PROVE  \E g : Repeats(g, A, a, F, m)
<1> DEFINE On(n, g) == /\ g \in [0 .. n -> A]
                       /\ g = [i \in 0 .. n |-> IF i = 0 THEN a ELSE F[g[i - 1]]]
           Good == {n \in 0 .. m : \E g : On(n, g)}
<1>1. 0 \in Good
  <2> DEFINE g == [i \in 0 .. 0 |-> a]
  <2>1. On(0, g)
    OBVIOUS
  <2>2. 0 \in 0 .. m
    OBVIOUS
  <2> HIDE DEF On, g
  <2> QED BY <2>1, <2>2
<1>2. \A n \in 0 .. m - 1 : n \in Good => n + 1 \in Good
  <2> SUFFICES ASSUME NEW n \in 0 .. m - 1, n \in Good PROVE n + 1 \in Good
    OBVIOUS
  <2>1. PICK g : On(n, g)
    OBVIOUS
  <2> DEFINE h == [i \in 0 .. n + 1 |-> IF i = 0 THEN a ELSE F[g[i - 1]]]
  <2>2. \A i \in 0 .. n : i \in 0 .. n + 1 /\ g[i] = h[i]
    BY <2>1
  <2>3. \A i \in 0 .. n + 1 : i # 0 => i - 1 \in 0 .. n /\ g[i - 1] = h[i - 1] /\ g[i - 1] \in A
    <3>1. \A i \in 0 .. n + 1 : i # 0 => i - 1 \in 0 .. n
      OBVIOUS
    <3> HIDE DEF h
    <3> QED BY <2>1, <2>2, <3>1
  <2>4. h = [i \in 0 .. n + 1 |-> IF i = 0 THEN a ELSE F[h[i - 1]]]
    <3>1. \A i \in 0 .. n + 1 : (IF i = 0 THEN a ELSE F[g[i - 1]]) = (IF i = 0 THEN a ELSE F[h[i - 1]])
      <4> HIDE DEF h
      <4> QED BY <2>3
    <3> QED BY <3>1
  <2>5. h \in [0 .. n + 1 -> A]
    BY <2>3
  <2>6. On(n + 1, h)
    <3> HIDE DEF h
    <3> QED BY <2>4, <2>5
  <2>7. n + 1 \in 0 .. m
    OBVIOUS
  <2> HIDE DEF On, h
  <2> QED BY <2>6, <2>7
<1>3. m \in Good
  <2>1. m \in 0 .. m
    OBVIOUS
  <2> HIDE DEF Good
  <2> QED BY <1>1, <1>2, <2>1, CountUp
<1> QED BY <1>3 DEF Repeats

\* The members of a set that an order puts before x.
Preceding(S, R, x) == {y \in S : <<y, x>> \in R}

\* A relation that orders the members of a set one after the other.
StrictOrder(S, R) ==
    /\ \A x \in S : <<x, x>> \notin R
    /\ \A x, y \in S : x # y => <<x, y>> \in R \/ <<y, x>> \in R
    /\ \A x, y, z \in S : <<x, y>> \in R /\ <<y, z>> \in R => <<x, z>> \in R

\* In a strict order on a finite set every place is taken by one member.
LEMMA Places ==
    ASSUME NEW S, IsFiniteSet(S), NEW R, StrictOrder(S, R)
    PROVE  /\ \A n \in 1 .. Cardinality(S) :
                 \E x \in S : Cardinality(Preceding(S, R, x)) = n - 1
           /\ \A x \in S : Cardinality(Preceding(S, R, x)) \in 0 .. Cardinality(S) - 1
           /\ \A x, y \in S :
                 Cardinality(Preceding(S, R, x)) = Cardinality(Preceding(S, R, y)) => x = y
<1> DEFINE P(x) == Preceding(S, R, x)
           k == Cardinality(S)
<1>1. \A T \in SUBSET S : IsFiniteSet(T) /\ Cardinality(T) \in Nat
  BY FS_Subset, FS_CardinalityType
<1>2. \A x \in S : P(x) \in SUBSET S /\ x \notin P(x)
  BY DEF Preceding, StrictOrder
<1>3. \A T \in SUBSET S, U \in SUBSET S :
          T \subseteq U /\ T # U => Cardinality(T) < Cardinality(U)
  <2>1. TAKE T \in SUBSET S, U \in SUBSET S
  <2>2. HAVE T \subseteq U /\ T # U
  <2>3. Cardinality(T) <= Cardinality(U) /\ (Cardinality(U) = Cardinality(T) => U = T)
    BY <1>1, <2>2, FS_Subset
  <2>4. Cardinality(T) \in Nat /\ Cardinality(U) \in Nat
    BY <1>1
  <2> QED BY <2>2, <2>3, <2>4
<1>4. \A x, y \in S : <<x, y>> \in R => Cardinality(P(x)) < Cardinality(P(y))
  <2>1. TAKE x, y \in S
  <2>2. HAVE <<x, y>> \in R
  <2>3. P(x) \subseteq P(y) /\ x \in P(y)
    BY <2>2 DEF Preceding, StrictOrder
  <2> HIDE DEF P
  <2> QED BY <1>2, <1>3, <2>3
<1>5. \A x, y \in S : Cardinality(P(x)) = Cardinality(P(y)) => x = y
  <2>1. TAKE x, y \in S
  <2>2. HAVE Cardinality(P(x)) = Cardinality(P(y))
  <2>3. ~(Cardinality(P(x)) < Cardinality(P(y))) /\ ~(Cardinality(P(y)) < Cardinality(P(x)))
    <3>1. Cardinality(P(x)) \in Nat /\ Cardinality(P(y)) \in Nat
      BY <1>1, <1>2
    <3> HIDE DEF P
    <3> QED BY <2>2, <3>1
  <2> HIDE DEF P
  <2> QED BY <1>4, <2>3 DEF StrictOrder
<1>6. \A x \in S : Cardinality(P(x)) \in 0 .. k - 1
  <2>1. TAKE x \in S
  <2>2. P(x) # S /\ P(x) \subseteq S /\ S \in SUBSET S
    BY <1>2
  <2>3. Cardinality(P(x)) < k /\ Cardinality(P(x)) \in Nat /\ k \in Nat
    <3> HIDE DEF P
    <3> QED BY <1>1, <1>3, <2>2
  <2> HIDE DEF P, k
  <2> QED BY <2>3
<1> DEFINE rank == [x \in S |-> Cardinality(P(x))]
<1>7. rank \in Injection(S, 0 .. k - 1)
  <2>1. rank \in [S -> 0 .. k - 1]
    <3> HIDE DEF P
    <3> QED BY <1>6
  <2>2. \A x, y \in S : rank[x] = rank[y] => x = y
    <3> HIDE DEF P
    <3> QED BY <1>5
  <2> HIDE DEF rank, k
  <2> QED BY <2>1, <2>2, Fun_IsInj
<1>8. k \in Nat /\ IsFiniteSet(0 .. k - 1) /\ Cardinality(0 .. k - 1) = k
  <2>1. k \in Nat
    BY <1>1
  <2>2. 0 \in Int /\ k - 1 \in Int
    BY <2>1
  <2>3. IsFiniteSet(0 .. k - 1) /\ Cardinality(0 .. k - 1) = IF 0 > k - 1 THEN 0 ELSE (k - 1) - 0 + 1
    <3> HIDE DEF k
    <3> QED BY <2>2, FS_Interval
  <2> HIDE DEF k
  <2> QED BY <2>1, <2>3
<1>9. rank \in Surjection(S, 0 .. k - 1)
  <2>1. IsFiniteSet(0 .. k - 1) /\ Cardinality(S) = Cardinality(0 .. k - 1)
    BY <1>8
  <2> HIDE DEF rank
  <2> QED BY <1>7, <2>1, FS_Injection
<1>10. \A n \in 1 .. k : \E x \in S : Cardinality(P(x)) = n - 1
  <2>1. TAKE n \in 1 .. k
  <2>2. n - 1 \in 0 .. k - 1
    BY <1>8
  <2>3. \E x \in S : rank[x] = n - 1
    <3> HIDE DEF rank
    <3> QED BY <1>9, <2>2 DEF Surjection
  <2> HIDE DEF P
  <2> QED BY <2>3
<1> QED BY <1>5, <1>6, <1>10

\* Every place of an ordered finite set is taken.
LEMMA PlaceTaken ==
    ASSUME NEW S, IsFiniteSet(S), NEW R, StrictOrder(S, R), NEW n \in 1 .. Cardinality(S)
    PROVE  \E x \in S : Cardinality(Preceding(S, R, x)) = n - 1
BY Places

\* The least of some numbers.
LEMMA LeastOf ==
    ASSUME NEW S, IsFiniteSet(S), S # {}, S \subseteq Int
    PROVE  Min(S) \in S /\ \A x \in S : Min(S) <= x
<1> DEFINE R == {p \in S \X S : p[1] < p[2]}
<1>1. StrictOrder(S, R)
  BY DEF StrictOrder
<1>2. Cardinality(S) \in Nat /\ Cardinality(S) # 0
  BY FS_CardinalityType, FS_EmptySet
<1>3. \E x \in S : Cardinality(Preceding(S, R, x)) = 0
  <2>1. 1 \in 1 .. Cardinality(S) /\ 1 - 1 = 0
    BY <1>2
  <2> HIDE DEF R
  <2>2. \E x \in S : Cardinality(Preceding(S, R, x)) = 1 - 1
    BY <1>1, <2>1, PlaceTaken
  <2> QED BY <2>1, <2>2
<1>4. PICK x \in S : Cardinality(Preceding(S, R, x)) = 0
  BY <1>3
<1>5. Preceding(S, R, x) = {}
  <2>1. Preceding(S, R, x) \in SUBSET S
    BY DEF Preceding
  <2> QED BY <1>4, <2>1, FS_Subset, FS_EmptySet
<1>6. \A y \in S : x =< y
  <2>1. TAKE y \in S
  <2>2. ~(y < x)
    BY <1>5 DEF Preceding
  <2>3. x \in Int /\ y \in Int
    OBVIOUS
  <2> QED BY <2>2, <2>3
<1> QED BY <1>6 DEF Min

\* More of sums.

\* A sum over two sets that share nothing.
LEMMA SumOfBoth ==
    ASSUME NEW f, NEW S, NEW T, IsFiniteSet(S), IsFiniteSet(T), S \cap T = {},
           \A x \in S \cup T : f[x] \in Int
    PROVE  SumFunctionOnSet(f, S \cup T) = SumFunctionOnSet(f, S) + SumFunctionOnSet(f, T)
<1> DEFINE P == {s \in SUBSET T :
                   SumFunctionOnSet(f, S \cup s) = SumFunctionOnSet(f, S) + SumFunctionOnSet(f, s)}
<1>1. {} \in P
  <2>1. S \cup {} = S /\ SumFunctionOnSet(f, {}) = 0 /\ SumFunctionOnSet(f, S) \in Int
    BY SumOfNone, SumType
  <2> QED BY <2>1
<1>2. \A s \in P : \A x \in T \ s : s \subseteq T => s \cup {x} \in P
  <2>1. TAKE s \in P
  <2>2. TAKE x \in T \ s
  <2>3. HAVE s \subseteq T
  <2>4. IsFiniteSet(s) /\ IsFiniteSet(S \cup s) /\ x \notin S \cup s /\ x \in T
    BY <2>3, FS_Subset, FS_Union
  <2>5. SumFunctionOnSet(f, s \cup {x}) = SumFunctionOnSet(f, s) + f[x]
    <3>1. \A y \in s \cup {x} : f[y] \in Int
      BY <2>3
    <3> QED BY <2>4, <3>1, SumWith
  <2>6. SumFunctionOnSet(f, (S \cup s) \cup {x}) = SumFunctionOnSet(f, S \cup s) + f[x]
    <3>1. \A y \in (S \cup s) \cup {x} : f[y] \in Int
      BY <2>3
    <3> QED BY <2>4, <3>1, SumWith
  <2>7. S \cup (s \cup {x}) = (S \cup s) \cup {x}
    OBVIOUS
  <2>8. SumFunctionOnSet(f, S) \in Int /\ SumFunctionOnSet(f, s) \in Int /\ f[x] \in Int
    <3>1. \A y \in s : f[y] \in Int
      BY <2>3
    <3> QED BY <2>4, <3>1, SumType
  <2>9. SumFunctionOnSet(f, S \cup s) = SumFunctionOnSet(f, S) + SumFunctionOnSet(f, s)
    OBVIOUS
  <2>10. SumFunctionOnSet(f, S \cup (s \cup {x})) = SumFunctionOnSet(f, S) + SumFunctionOnSet(f, s \cup {x})
    <3> DEFINE Sum(U) == SumFunctionOnSet(f, U)
    <3>1. /\ Sum(s \cup {x}) = Sum(s) + f[x]
          /\ Sum(S \cup (s \cup {x})) = Sum(S \cup s) + f[x]
          /\ Sum(S \cup s) = Sum(S) + Sum(s)
          /\ Sum(S) \in Int /\ Sum(s) \in Int /\ f[x] \in Int
      BY <2>5, <2>6, <2>7, <2>8, <2>9
    <3>2. Sum(S \cup (s \cup {x})) = Sum(S) + Sum(s \cup {x})
      <4> HIDE DEF Sum, P
      <4> QED BY ONLY <3>1
    <3> QED BY <3>2
  <2> QED BY <2>3, <2>4, <2>10
<1>3. T \in P
  <2> HIDE DEF P
  <2> QED BY <1>1, <1>2, SubsetInduction
<1> QED BY <1>3

\* Elements that count for nothing can be left out.
LEMMA SumWithoutZeros ==
    ASSUME NEW f, NEW S, IsFiniteSet(S), NEW T, T \subseteq S, \A x \in S : f[x] \in Int,
           \A x \in S \ T : f[x] = 0
    PROVE  SumFunctionOnSet(f, S) = SumFunctionOnSet(f, T)
<1>1. IsFiniteSet(T) /\ IsFiniteSet(S \ T) /\ T \cap (S \ T) = {} /\ T \cup (S \ T) = S
  BY FS_Subset
<1>2. SumFunctionOnSet(f, S) = SumFunctionOnSet(f, T) + SumFunctionOnSet(f, S \ T)
  BY <1>1, SumOfBoth
<1>3. SumFunctionOnSet(f, S \ T) = 0
  BY <1>1, SumOfZeros
<1>4. SumFunctionOnSet(f, T) \in Int
  BY <1>1, SumType
<1> QED BY <1>2, <1>3, <1>4

\* A sum of what is not negative is not negative.
LEMMA SumNotNegative ==
    ASSUME NEW f, NEW S, IsFiniteSet(S), \A x \in S : f[x] \in Nat
    PROVE  SumFunctionOnSet(f, S) \in Nat
<1> DEFINE P == {s \in SUBSET S : SumFunctionOnSet(f, s) \in Nat}
<1>1. {} \in P
  BY SumOfNone
<1>2. \A s \in P : \A x \in S \ s : s \subseteq S => s \cup {x} \in P
  <2>1. TAKE s \in P
  <2>2. TAKE x \in S \ s
  <2>3. HAVE s \subseteq S
  <2>4. IsFiniteSet(s) /\ x \notin s /\ \A y \in s \cup {x} : f[y] \in Int
    BY <2>3, FS_Subset
  <2>5. SumFunctionOnSet(f, s \cup {x}) = SumFunctionOnSet(f, s) + f[x]
    BY <2>4, SumWith
  <2> QED BY <2>3, <2>5
<1>3. S \in P
  <2> HIDE DEF P
  <2> QED BY <1>1, <1>2, SubsetInduction
<1> QED BY <1>3

\* A sum does not depend on how its terms are named.
LEMMA SumRenamed ==
    ASSUME NEW f, NEW h, NEW A, NEW S, IsFiniteSet(A), NEW e \in [A -> S],
           \A x, y \in A : e[x] = e[y] => x = y, \A z \in S : \E x \in A : e[x] = z,
           \A x \in A : h[x] \in Int /\ h[x] = f[e[x]]
    PROVE  SumFunctionOnSet(h, A) = SumFunctionOnSet(f, S)
<1> DEFINE Img(s) == {e[x] : x \in s}
           P == {s \in SUBSET A : /\ IsFiniteSet(Img(s))
                                  /\ SumFunctionOnSet(h, s) = SumFunctionOnSet(f, Img(s))}
<1>1. {} \in P
  <2>1. Img({}) = {}
    OBVIOUS
  <2> QED BY <2>1, SumOfNone, FS_EmptySet
<1>2. \A s \in P : \A x \in A \ s : s \subseteq A => s \cup {x} \in P
  <2>1. TAKE s \in P
  <2>2. TAKE x \in A \ s
  <2>3. HAVE s \subseteq A
  <2>4. /\ IsFiniteSet(s) /\ x \notin s /\ IsFiniteSet(Img(s)) /\ e[x] \notin Img(s)
        /\ Img(s \cup {x}) = Img(s) \cup {e[x]}
    BY <2>3, FS_Subset
  <2>5. \A y \in s \cup {x} : h[y] \in Int
    BY <2>3
  <2>6. \A z \in Img(s) \cup {e[x]} : f[z] \in Int
    BY <2>3
  <2>7. SumFunctionOnSet(h, s \cup {x}) = SumFunctionOnSet(h, s) + h[x]
    BY <2>4, <2>5, SumWith
  <2>8. SumFunctionOnSet(f, Img(s) \cup {e[x]}) = SumFunctionOnSet(f, Img(s)) + f[e[x]]
    <3> HIDE DEF Img
    <3> QED BY <2>4, <2>6, SumWith
  <2>9. SumFunctionOnSet(h, s) = SumFunctionOnSet(f, Img(s)) /\ h[x] = f[e[x]]
    OBVIOUS
  <2>10. IsFiniteSet(Img(s) \cup {e[x]})
    <3> HIDE DEF Img
    <3> QED BY <2>4, FS_AddElement
  <2>11. SumFunctionOnSet(h, s \cup {x}) = SumFunctionOnSet(f, Img(s \cup {x}))
    <3> HIDE DEF Img
    <3> QED BY <2>4, <2>7, <2>8, <2>9
  <2> HIDE DEF Img
  <2> QED BY <2>3, <2>4, <2>10, <2>11
<1>3. A \in P
  <2> HIDE DEF P
  <2> QED BY <1>1, <1>2, SubsetInduction
<1>4. Img(A) = S
  OBVIOUS
<1> QED BY <1>3, <1>4

\* A function on 1 .. n is a sequence of length n.
LEMMA SequenceOf ==
    ASSUME NEW n \in Nat, NEW S, NEW s \in [1 .. n -> S]
    PROVE  s \in Seq(S) /\ Len(s) = n /\ DOMAIN s = 1 .. n
OBVIOUS

\* An ordered finite set that is not empty has a first member.
LEMMA FirstInOrder ==
    ASSUME NEW S, IsFiniteSet(S), S # {}, NEW R, StrictOrder(S, R)
    PROVE  \E x \in S : \A y \in S \ {x} : <<x, y>> \in R
<1>1. Cardinality(S) \in Nat /\ Cardinality(S) # 0
  BY FS_CardinalityType, FS_EmptySet
<1>2. 1 \in 1 .. Cardinality(S) /\ 1 - 1 = 0
  BY <1>1
<1>3. \E x \in S : Cardinality(Preceding(S, R, x)) = 1 - 1
  BY <1>2, PlaceTaken
<1>4. PICK x \in S : Cardinality(Preceding(S, R, x)) = 0
  BY <1>2, <1>3
<1>5. Preceding(S, R, x) = {}
  <2>1. Preceding(S, R, x) \in SUBSET S
    BY DEF Preceding
  <2> QED BY <1>4, <2>1, FS_Subset, FS_EmptySet
<1> QED BY <1>5 DEF Preceding, StrictOrder

\* The values of a function on a set.
Values(f, S) == {f[x] : x \in S}

\* A finite set has finitely many values.
LEMMA ValuesFinite ==
    ASSUME NEW S, IsFiniteSet(S), NEW f
    PROVE  IsFiniteSet(Values(f, S))
<1> DEFINE T == {f[x] : x \in S}
           h == [x \in S |-> f[x]]
<1>1. h \in [S -> T] /\ \A y \in T : \E x \in S : h[x] = y
  OBVIOUS
<1>2. h \in Surjection(S, T)
  <2> HIDE DEF h, T
  <2> QED BY <1>1 DEF Surjection
<1> HIDE DEF h, T
<1> QED BY <1>2, FS_Surjection DEF T, Values

\* Pairs of a member of S and one of its own set.
Fibres(S, D) == UNION {{x} \X D[x] : x \in S}

\* Finitely many finite fibres.
LEMMA FibresFinite ==
    ASSUME NEW S, IsFiniteSet(S), NEW D, \A x \in S : IsFiniteSet(D[x])
    PROVE  IsFiniteSet(Fibres(S, D))
<1> DEFINE row == [x \in S |-> {x} \X D[x]]
<1>1. \A x \in S : IsFiniteSet({x} \X D[x])
  <2>1. TAKE x \in S
  <2>2. IsFiniteSet({x})
    BY FS_Singleton
  <2> QED BY <2>2, FS_Product
<1>2. IsFiniteSet(Values(row, S))
  <2> HIDE DEF row
  <2> QED BY ValuesFinite
<1>3. \A r \in Values(row, S) : IsFiniteSet(r)
  BY <1>1 DEF Values
<1>4. Fibres(S, D) = UNION Values(row, S)
  BY DEF Fibres, Values
<1> HIDE DEF row
<1> QED BY <1>2, <1>3, <1>4, FS_UNION

\* A sum of positive numbers is positive.
LEMMA PositiveSum ==
    ASSUME NEW f, NEW S, IsFiniteSet(S), S # {}, \A x \in S : f[x] \in Nat \ {0}
    PROVE  SumFunctionOnSet(f, S) \in Nat \ {0}
<1>1. PICK x \in S : TRUE
  OBVIOUS
<1> DEFINE T == S \ {x}
<1>2. IsFiniteSet(T) /\ x \notin T /\ T \cup {x} = S /\ \A y \in T : f[y] \in Nat
  BY FS_Subset
<1>3. SumFunctionOnSet(f, T) \in Nat
  BY <1>2, SumNotNegative
<1>4. SumFunctionOnSet(f, T \cup {x}) = SumFunctionOnSet(f, T) + f[x]
  <2>1. \A y \in T \cup {x} : f[y] \in Int
    OBVIOUS
  <2> HIDE DEF T
  <2> QED BY <1>2, <2>1, SumWith
<1> QED BY <1>2, <1>3, <1>4

\* A sum of amounts is at least any one of them.
LEMMA SumAtLeast ==
    ASSUME NEW f, NEW S, IsFiniteSet(S), \A x \in S : f[x] \in Nat, NEW x \in S
    PROVE  f[x] <= SumFunctionOnSet(f, S)
<1>1. IsFiniteSet(S \ {x}) /\ \A y \in S \ {x} : f[y] \in Nat
  BY FS_Subset
<1>2. SumFunctionOnSet(f, S \ {x}) \in Nat
  BY <1>1, SumNotNegative
<1>3. SumFunctionOnSet(f, S) = f[x] + SumFunctionOnSet(f, S \ {x})
  BY SumWithout
<1> QED BY <1>2, <1>3

\* Term by term more, in all more.
LEMMA SumScaled ==
    ASSUME NEW f, NEW g, NEW S, IsFiniteSet(S), NEW a \in Nat, NEW b \in Nat,
           \A x \in S : f[x] \in Int /\ g[x] \in Int /\ g[x] * b <= f[x] * a
    PROVE  SumFunctionOnSet(g, S) * b <= SumFunctionOnSet(f, S) * a
<1> DEFINE P == {s \in SUBSET S : SumFunctionOnSet(g, s) * b <= SumFunctionOnSet(f, s) * a}
<1>1. {} \in P
  <2>1. 0 * a = 0 /\ 0 * b = 0 /\ SumFunctionOnSet(f, {}) = 0 /\ SumFunctionOnSet(g, {}) = 0
    BY SumOfNone
  <2>2. SumFunctionOnSet(g, {}) * b <= SumFunctionOnSet(f, {}) * a
    BY <2>1
  <2> QED BY <2>2
<1>2. \A s \in P : \A x \in S \ s : s \subseteq S => s \cup {x} \in P
  <2>1. TAKE s \in P
  <2>2. TAKE x \in S \ s
  <2>3. HAVE s \subseteq S
  <2>4. IsFiniteSet(s) /\ x \notin s /\ \A y \in s \cup {x} : f[y] \in Int /\ g[y] \in Int
    BY <2>3, FS_Subset
  <2> DEFINE F == SumFunctionOnSet(f, s)
             G == SumFunctionOnSet(g, s)
  <2>5. SumFunctionOnSet(f, s \cup {x}) = F + f[x] /\ SumFunctionOnSet(g, s \cup {x}) = G + g[x]
    BY <2>4, SumWith
  <2>6. F \in Int /\ G \in Int /\ f[x] \in Int /\ g[x] \in Int
    BY <2>4, SumType
  <2>7. G * b <= F * a /\ g[x] * b <= f[x] * a
    OBVIOUS
  <2>8. (G + g[x]) * b <= (F + f[x]) * a
    <3> HIDE DEF F, G, P
    <3>1. /\ (G + g[x]) * b = G * b + g[x] * b /\ (F + f[x]) * a = F * a + f[x] * a
          /\ G * b \in Int /\ g[x] * b \in Int /\ F * a \in Int /\ f[x] * a \in Int
      BY <2>6
    <3> QED BY <2>7, <3>1
  <2>9. SumFunctionOnSet(g, s \cup {x}) * b <= SumFunctionOnSet(f, s \cup {x}) * a
    <3> HIDE DEF F, G, P
    <3> QED BY <2>5, <2>8
  <2> QED BY <2>3, <2>9
<1>3. S \in P
  <2> HIDE DEF P
  <2> QED BY <1>1, <1>2, SubsetInduction
<1> QED BY <1>3

\* The members of S that a function sends to one value.
SentTo(g, S, v) == {x \in S : g[x] = v}

\* What the members sent to each value sum up to.
Shares(f, g, T, V) == [v \in V |-> SumFunctionOnSet(f, SentTo(g, T, v))]

\* The sums of each value's members add up to the sum of all.
LEMMA SumByValue ==
    ASSUME NEW f, NEW g, NEW S, IsFiniteSet(S), NEW V, IsFiniteSet(V),
           \A x \in S : f[x] \in Int /\ g[x] \in V
    PROVE  SumFunctionOnSet(Shares(f, g, S, V), V) = SumFunctionOnSet(f, S)
<1> DEFINE P == {T \in SUBSET S : SumFunctionOnSet(Shares(f, g, T, V), V) = SumFunctionOnSet(f, T)}
<1>0. ASSUME NEW T, T \subseteq S PROVE IsFiniteSet(T)
  BY <1>0, FS_Subset
<1>1. ASSUME NEW T, T \subseteq S, NEW v \in V
      PROVE  /\ SentTo(g, T, v) \subseteq T /\ IsFiniteSet(SentTo(g, T, v))
             /\ Shares(f, g, T, V)[v] = SumFunctionOnSet(f, SentTo(g, T, v))
             /\ Shares(f, g, T, V)[v] \in Int
  <2>1. SentTo(g, T, v) \subseteq T
    BY DEF SentTo
  <2>2. IsFiniteSet(SentTo(g, T, v))
    BY <1>0, <1>1, <2>1, FS_Subset
  <2>3. SumFunctionOnSet(f, SentTo(g, T, v)) \in Int
    BY <1>1, <2>1, <2>2, SumType
  <2>4. Shares(f, g, T, V)[v] = SumFunctionOnSet(f, SentTo(g, T, v))
    BY DEF Shares
  <2> QED BY <2>1, <2>2, <2>3, <2>4
<1>2. {} \in P
  <2>1. SumFunctionOnSet(f, {}) = 0
    BY SumOfNone
  <2>2. \A v \in V : SentTo(g, {}, v) = {}
    BY DEF SentTo
  <2>3. \A v \in V : Shares(f, g, {}, V)[v] = 0
    BY <2>1, <2>2 DEF Shares
  <2>4. SumFunctionOnSet(Shares(f, g, {}, V), V) = 0
    <3> QED BY <2>3, SumOfZeros
  <2> QED BY <2>1, <2>4
<1>3. ASSUME NEW T \in P, NEW x \in S \ T, T \subseteq S PROVE T \cup {x} \in P
  <2> DEFINE U == T \cup {x}
             v == g[x]
  <2>1. U \subseteq S /\ v \in V /\ f[x] \in Int /\ x \notin SentTo(g, T, v)
    BY <1>3 DEF SentTo
  <2>2. SentTo(g, U, v) = SentTo(g, T, v) \cup {x}
    BY DEF SentTo
  <2>3. \A w \in V \ {v} : SentTo(g, U, w) = SentTo(g, T, w)
    BY DEF SentTo
  <2> HIDE DEF U
  <2>4. Shares(f, g, U, V)[v] = Shares(f, g, T, V)[v] + f[x]
    <3>1. \A y \in SentTo(g, T, v) \cup {x} : f[y] \in Int
      BY <1>3, <2>1 DEF SentTo
    <3>2. SumFunctionOnSet(f, SentTo(g, T, v) \cup {x}) = SumFunctionOnSet(f, SentTo(g, T, v)) + f[x]
      <4>1. IsFiniteSet(SentTo(g, T, v))
        <5> HIDE DEF v
        <5> QED BY <1>1, <1>3, <2>1
      <4> QED BY <2>1, <3>1, <4>1, SumWith
    <3>3. /\ Shares(f, g, U, V)[v] = SumFunctionOnSet(f, SentTo(g, U, v))
          /\ Shares(f, g, T, V)[v] = SumFunctionOnSet(f, SentTo(g, T, v))
      <4> HIDE DEF v
      <4> QED BY <1>1, <1>3, <2>1
    <3> QED BY <2>2, <3>2, <3>3
  <2>5. \A w \in V \ {v} : Shares(f, g, T, V)[w] = Shares(f, g, U, V)[w]
    <3> HIDE DEF v
    <3> QED BY <2>3 DEF Shares
  <2>6. \A w \in V : Shares(f, g, T, V)[w] \in Int /\ Shares(f, g, U, V)[w] \in Int
    <3> HIDE DEF v
    <3> QED BY <1>1, <1>3, <2>1
  <2> HIDE DEF v
  <2>7. SumFunctionOnSet(Shares(f, g, U, V), V) = SumFunctionOnSet(Shares(f, g, T, V), V) + Shares(f, g, U, V)[v] - Shares(f, g, T, V)[v]
    BY <2>1, <2>5, <2>6, SumOfChanged
  <2>8. SumFunctionOnSet(f, U) = SumFunctionOnSet(f, T) + f[x]
    <3>1. \A y \in T \cup {x} : f[y] \in Int
      BY <1>3
    <3>2. IsFiniteSet(T)
      BY <1>0, <1>3
    <3> QED BY <1>3, <3>1, <3>2, SumWith DEF U
  <2>9. SumFunctionOnSet(Shares(f, g, T, V), V) = SumFunctionOnSet(f, T)
    BY DEF P
  <2>10. SumFunctionOnSet(f, T) \in Int /\ Shares(f, g, T, V)[v] \in Int
    <3>1. IsFiniteSet(T) /\ \A y \in T : f[y] \in Int
      BY <1>0, <1>3
    <3> QED BY <2>1, <2>6, <3>1, SumType
  <2>11. SumFunctionOnSet(Shares(f, g, U, V), V) = SumFunctionOnSet(f, U)
    BY <2>1, <2>4, <2>7, <2>8, <2>9, <2>10
  <2> QED BY <2>1, <2>11 DEF P, U
<1>4. S \in P
  <2> HIDE DEF P
  <2> QED BY <1>2, <1>3, SubsetInduction
<1> QED BY <1>4

\* Sums of functions on the same set add up term by term.
LEMMA SumOfTerms ==
    ASSUME NEW f, NEW g, NEW h, NEW S, IsFiniteSet(S),
           \A x \in S : f[x] \in Int /\ g[x] \in Int /\ h[x] = f[x] + g[x]
    PROVE  SumFunctionOnSet(h, S) = SumFunctionOnSet(f, S) + SumFunctionOnSet(g, S)
<1> DEFINE P == {T \in SUBSET S : SumFunctionOnSet(h, T) = SumFunctionOnSet(f, T) + SumFunctionOnSet(g, T)}
<1>1. {} \in P
  <2>1. SumFunctionOnSet(f, {}) = 0 /\ SumFunctionOnSet(g, {}) = 0 /\ SumFunctionOnSet(h, {}) = 0
    BY SumOfNone
  <2> QED BY <2>1
<1>2. ASSUME NEW T \in P, NEW x \in S \ T, T \subseteq S PROVE T \cup {x} \in P
  <2>1. IsFiniteSet(T)
    BY <1>2, FS_Subset
  <2>2. \A y \in T \cup {x} : f[y] \in Int /\ g[y] \in Int /\ h[y] \in Int
    BY <1>2
  <2>3. /\ SumFunctionOnSet(f, T \cup {x}) = SumFunctionOnSet(f, T) + f[x]
        /\ SumFunctionOnSet(g, T \cup {x}) = SumFunctionOnSet(g, T) + g[x]
        /\ SumFunctionOnSet(h, T \cup {x}) = SumFunctionOnSet(h, T) + h[x]
    BY <1>2, <2>1, <2>2, SumWith
  <2>4. SumFunctionOnSet(f, T) \in Int /\ SumFunctionOnSet(g, T) \in Int
    BY <2>1, <2>2, SumType
  <2>5. h[x] = f[x] + g[x] /\ f[x] \in Int /\ g[x] \in Int
    BY <1>2
  <2>6. SumFunctionOnSet(h, T) = SumFunctionOnSet(f, T) + SumFunctionOnSet(g, T)
    BY <1>2
  <2>7. SumFunctionOnSet(h, T \cup {x}) = SumFunctionOnSet(f, T \cup {x}) + SumFunctionOnSet(g, T \cup {x})
    BY <2>3, <2>4, <2>5, <2>6
  <2> QED BY <1>2, <2>7
<1>3. S \in P
  <2> HIDE DEF P
  <2> QED BY <1>1, <1>2, SubsetInduction
<1> QED BY <1>3

(***************************************************************************)
(* Bets: a bet keeps its meaning when it is turned to the home club, and   *)
(* the two outcomes of a validated pair never both win nor, off the line,  *)
(* both lose, whatever the line and the result.                            *)
(***************************************************************************)

Aligned == INSTANCE Alignment

\* The sides of the kinds, and their opposites, one by one.
LEMMA SidesOfKinds ==
    ASSUME NEW kind \in Aligned!Kinds, NEW side \in Aligned!SidesOf(kind.type)
    PROVE  \/ kind.type = "moneyline" /\ side = "home" /\ Aligned!Opposite(side) = "away"
           \/ kind.type = "moneyline" /\ side = "away" /\ Aligned!Opposite(side) = "home"
           \/ kind.type = "spread" /\ side = "homeCover" /\ Aligned!Opposite(side) = "awayCover"
           \/ kind.type = "spread" /\ side = "awayCover" /\ Aligned!Opposite(side) = "homeCover"
           \/ kind.type = "total" /\ side = "over" /\ Aligned!Opposite(side) = "under"
           \/ kind.type = "total" /\ side = "under" /\ Aligned!Opposite(side) = "over"
BY DEF Aligned!Kinds, Aligned!SidesOf, Aligned!Opposite

\* Different scores are apart one way or the other.
LEMMA Apart ==
    ASSUME NEW a \in Int, NEW b \in Int, a # b
    PROVE  a < b <=> ~(a > b)
OBVIOUS

\* What each side wins on, and that it either wins or does not.
LEMMA WinsOn ==
    ASSUME NEW kind, NEW home, NEW away
    PROVE  /\ Aligned!Wins(kind, "home", home, away) <=> (home > away)
           /\ Aligned!Wins(kind, "away", home, away) <=> (away > home)
           /\ Aligned!Wins(kind, "homeCover", home, away) <=> (home + kind.line > away)
           /\ Aligned!Wins(kind, "awayCover", home, away) <=> (home + kind.line < away)
           /\ Aligned!Wins(kind, "over", home, away) <=> (home + away > kind.line)
           /\ Aligned!Wins(kind, "under", home, away) <=> (home + away < kind.line)
BY DEF Aligned!Wins

\* The two outcomes of a validated pair hedge each other: off the line exactly
\* one of them wins, whatever the result (validate_binary_pair).
THEOREM ValidatedPairsHedge ==
    ASSUME NEW kindA \in Aligned!Kinds, NEW sideA \in Aligned!SidesOf(kindA.type),
           NEW kindB \in Aligned!Kinds, NEW sideB \in Aligned!SidesOf(kindB.type),
           Aligned!ValidateBinaryPair(kindA, sideA, kindB, sideB),
           NEW home \in Int, NEW away \in Int,
           ~Aligned!Pushes(kindA, home, away)
    PROVE  Aligned!Wins(kindA, sideA, home, away) <=> ~Aligned!Wins(kindB, sideB, home, away)
<1>1. /\ kindA.line \in Int /\ kindB.line \in Int
      /\ kindA.type = kindB.type /\ sideB = Aligned!Opposite(sideA)
      /\ kindA.type \in {"spread", "total"} => kindA.line = kindB.line
  BY DEF Aligned!Kinds, Aligned!ValidateBinaryPair
<1>2. CASE kindA.type = "moneyline"
  <2>1. home # away
    BY <1>2 DEF Aligned!Pushes
  <2>2. \/ sideA = "home" /\ sideB = "away"
        \/ sideA = "away" /\ sideB = "home"
    BY <1>1, <1>2, SidesOfKinds
  <2>3. CASE sideA = "home" /\ sideB = "away"
    <3>1. /\ Aligned!Wins(kindA, "home", home, away) <=> (home > away)
          /\ Aligned!Wins(kindB, "away", home, away) <=> (away > home)
      BY WinsOn
    <3> QED BY <1>1, <2>1, <2>3, <3>1
  <2>4. CASE sideA = "away" /\ sideB = "home"
    <3>1. /\ Aligned!Wins(kindA, "away", home, away) <=> (away > home)
          /\ Aligned!Wins(kindB, "home", home, away) <=> (home > away)
      BY WinsOn
    <3> QED BY <1>1, <2>1, <2>4, <3>1
  <2> QED BY <2>2, <2>3, <2>4
<1>3. CASE kindA.type = "spread"
  <2>1. /\ kindB.line = kindA.line
        /\ home + kindA.line < away <=> ~(home + kindA.line > away)
    <3>1. home + kindA.line # away /\ home + kindA.line \in Int
      BY <1>1, <1>3 DEF Aligned!Pushes
    <3> QED BY <1>1, <1>3, <3>1, Apart
  <2>2. \/ sideA = "homeCover" /\ sideB = "awayCover"
        \/ sideA = "awayCover" /\ sideB = "homeCover"
    BY <1>1, <1>3, SidesOfKinds
  <2>3. CASE sideA = "homeCover" /\ sideB = "awayCover"
    <3>1. /\ Aligned!Wins(kindA, "homeCover", home, away) <=> (home + kindA.line > away)
          /\ Aligned!Wins(kindB, "awayCover", home, away) <=> (home + kindB.line < away)
      BY WinsOn
    <3>2. (home + kindA.line > away) <=> ~(home + kindB.line < away)
      BY <2>1
    <3> QED BY <2>3, <3>1, <3>2
  <2>4. CASE sideA = "awayCover" /\ sideB = "homeCover"
    <3>1. /\ Aligned!Wins(kindA, "awayCover", home, away) <=> (home + kindA.line < away)
          /\ Aligned!Wins(kindB, "homeCover", home, away) <=> (home + kindB.line > away)
      BY WinsOn
    <3>2. (home + kindA.line < away) <=> ~(home + kindB.line > away)
      BY <2>1
    <3> QED BY <2>4, <3>1, <3>2
  <2> QED BY <2>2, <2>3, <2>4
<1>4. CASE kindA.type = "total"
  <2>1. home + away # kindA.line /\ kindB.line = kindA.line
    BY <1>1, <1>4 DEF Aligned!Pushes
  <2>2. \/ sideA = "over" /\ sideB = "under"
        \/ sideA = "under" /\ sideB = "over"
    BY <1>1, <1>4, SidesOfKinds
  <2>3. CASE sideA = "over" /\ sideB = "under"
    <3>1. /\ Aligned!Wins(kindA, "over", home, away) <=> (home + away > kindA.line)
          /\ Aligned!Wins(kindB, "under", home, away) <=> (home + away < kindB.line)
      BY WinsOn
    <3> QED BY <1>1, <2>1, <2>3, <3>1
  <2>4. CASE sideA = "under" /\ sideB = "over"
    <3>1. /\ Aligned!Wins(kindA, "under", home, away) <=> (home + away < kindA.line)
          /\ Aligned!Wins(kindB, "over", home, away) <=> (home + away > kindB.line)
      BY WinsOn
    <3> QED BY <1>1, <2>1, <2>4, <3>1
  <2> QED BY <2>2, <2>3, <2>4
<1> QED BY <1>2, <1>3, <1>4 DEF Aligned!Kinds

\* A bet on a club to cover a line wins when that club's points and the line
\* beat the other club's points, whichever club is home (align_spread).
THEOREM SpreadKeepsTheBet ==
    ASSUME NEW onHome \in BOOLEAN, NEW line \in Int, NEW own \in Int, NEW other \in Int
    PROVE  LET aligned == Aligned!AlignSpread(onHome, line)
               home    == IF onHome THEN own ELSE other
               away    == IF onHome THEN other ELSE own
           IN  Aligned!Wins(aligned.kind, aligned.side, home, away) <=> own + line > other
<1>1. CASE onHome
  BY <1>1 DEF Aligned!AlignSpread, Aligned!Spread, Aligned!Wins
<1>2. CASE ~onHome
  BY <1>2 DEF Aligned!AlignSpread, Aligned!Spread, Aligned!Mirrored, Aligned!Wins
<1> QED BY <1>1, <1>2

\* The moneyline and the total of a club's game keep their bets too
\* (align_moneyline, align_total).
THEOREM OthersKeepTheBet ==
    ASSUME NEW onHome \in BOOLEAN, NEW over \in BOOLEAN,
           NEW line \in Int, NEW home \in Int, NEW away \in Int
    PROVE  /\ Aligned!Wins(Aligned!Moneyline, Aligned!AlignMoneyline(onHome), home, away)
                <=> IF onHome THEN home > away ELSE away > home
           /\ LET aligned == Aligned!AlignTotal(line, over)
              IN  Aligned!Wins(aligned.kind, aligned.side, home, away)
                    <=> IF over THEN home + away > line ELSE home + away < line
BY DEF Aligned!AlignMoneyline, Aligned!AlignTotal, Aligned!Total, Aligned!Wins

\* Bets on the two clubs of a game under one line of the tape's convention: the
\* aligned outcomes are a validated pair exactly when the away club's line is
\* the home club's mirrored (align_spread, validate_binary_pair).
THEOREM MirroredLinesValidate ==
    ASSUME NEW lineHome \in Int, NEW lineAway \in Int
    PROVE  LET a == Aligned!AlignSpread(TRUE, lineHome)
               b == Aligned!AlignSpread(FALSE, lineAway)
           IN  Aligned!ValidateBinaryPair(a.kind, a.side, b.kind, b.side) <=> lineAway = Aligned!Mirrored(lineHome)
BY DEF Aligned!AlignSpread, Aligned!Spread, Aligned!Mirrored, Aligned!ValidateBinaryPair, Aligned!Opposite
=============================================================================
