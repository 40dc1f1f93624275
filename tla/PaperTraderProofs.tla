------------------------- MODULE PaperTraderProofs --------------------------
(***************************************************************************)
(* Proofs about the engine and the paper runner that trades its signals,   *)
(* for every market, fee, book, budget, bankroll, policy and number of     *)
(* signals. The engine's evaluation is followed from the levels of the     *)
(* books to the legs of a plan: what it reports is guaranteed, and it is   *)
(* no less than the single-quote plan earned. On that rests what the       *)
(* runner may say of its executions: a hedge hedges, and a plan that       *)
(* arrives as it was sized keeps its promise. Last come the runner's money *)
(* and its kill switch.                                                    *)
(***************************************************************************)
EXTENDS Aggregator, PaperTrader, DataLemmas

(***************************************************************************)
(* Prices, fees, depth and steps                                           *)
(***************************************************************************)

\* A quotient that is rounded up is positive unless there is nothing to share.
LEMMA Ceiling ==
    ASSUME NEW n \in Nat, NEW d \in Nat \ {0}
    PROVE  CeilDiv(n, d) \in Nat /\ (n > 0 => CeilDiv(n, d) > 0)
<1>1. n + d - 1 \in Nat /\ 1 * d = d
  OBVIOUS
<1>2. (n + d - 1) \div d \in Nat
  BY <1>1, QuotientNat
<1>3. n > 0 => 1 <= (n + d - 1) \div d
  BY <1>1, QuotientAtLeast
<1> QED BY <1>2, <1>3 DEF CeilDiv

\* Decimal odds never pay less than the stake.
LEMMA OddsAboveOne ==
    /\ RECIPROCAL \in Nat /\ RECIPROCAL > 0
    /\ \A p \in Probs : ToOdds(p) \in Nat /\ ODDS_ONE <= ToOdds(p)
<1>1. PPM \in Nat \ {0} /\ ODDS_ONE \in Nat \ {0}
  BY UnitsArePositive
<1>2. RECIPROCAL \in Nat /\ RECIPROCAL > 0
  BY <1>1, SMT DEF RECIPROCAL
<1>3. ASSUME NEW p \in Probs PROVE ToOdds(p) \in Nat /\ ODDS_ONE <= ToOdds(p)
  <2> DEFINE whole == RECIPROCAL + p \div 2
  <2>1. p \in Nat \ {0} /\ p <= PPM /\ p \div 2 \in Nat
    BY <1>1, QuotientNat DEF Probs
  <2>2. p * ODDS_ONE <= PPM * ODDS_ONE /\ ODDS_ONE * p = p * ODDS_ONE /\ p * ODDS_ONE \in Int
    BY <1>1, <2>1, Monotone
  <2>3. ODDS_ONE * p <= whole /\ whole \in Int
    BY <1>2, <2>1, <2>2 DEF RECIPROCAL
  <2>4. ToOdds(p) = whole \div p
    BY DEF ToOdds, DivRound
  <2> HIDE DEF whole
  <2>5. ODDS_ONE <= whole \div p /\ whole \div p \in Int
    BY <1>1, <2>1, <2>3, QuotientAtLeast
  <2> QED BY <1>1, <2>4, <2>5
<1> QED BY <1>2, <1>3

\* What a fee leaves of a price is a price, or a whole number above it.
LEMMA EffectivePrice ==
    ASSUME NEW fee \in FeeTypes, NEW p \in Probs
    PROVE  Effective(fee, p) \in Nat \ {0}
<1>1. /\ PPM \in Nat \ {0} /\ ODDS_ONE \in Nat \ {0} /\ BPS \in Nat \ {0}
      /\ fee.bps \in Nat /\ p \in Nat \ {0} /\ p <= PPM
      /\ fee.kind \in {"none", "commission", "stake", "rebate"}
  BY UnitsArePositive DEF FeeTypes, Probs
<1> DEFINE bps == fee.bps
           cut == BPS - Lesser(bps, BPS)
<1>2. cut \in Nat
  BY <1>1 DEF Lesser
<1>3. CommissionPrice(bps, p) \in Nat \ {0}
  <2> DEFINE profit == ToOdds(p) - ODDS_ONE
             net    == ODDS_ONE + (profit * cut) \div BPS
  <2>1. RECIPROCAL \in Nat /\ RECIPROCAL > 0 /\ profit \in Nat
    <3>1. ToOdds(p) \in Nat /\ ODDS_ONE <= ToOdds(p)
      BY OddsAboveOne
    <3> QED BY <1>1, <3>1, OddsAboveOne
  <2>3. net \in Nat \ {0}
    <3> HIDE DEF profit, cut
    <3>1. profit * cut \in Nat
      BY <1>2, <2>1, ProductNat
    <3>2. (profit * cut) \div BPS \in Nat
      BY <1>1, <3>1, QuotientNat
    <3> QED BY <1>1, <3>2
  <2>4. CommissionPrice(bps, p) = Lesser(CeilDiv(RECIPROCAL, net), PPM)
    BY DEF CommissionPrice
  <2> HIDE DEF net
  <2>5. CeilDiv(RECIPROCAL, net) \in Nat /\ CeilDiv(RECIPROCAL, net) > 0
    BY <2>1, <2>3, Ceiling
  <2> QED BY <1>1, <2>4, <2>5 DEF Lesser
<1>4. StakeFeePrice(bps, p) \in Nat \ {0}
  <2>1. p * BPS <= p * (BPS + bps) /\ p * (BPS + bps) \in Int
    <3>1. BPS * p <= (BPS + bps) * p /\ (BPS + bps) * p \in Int
      BY <1>1, Monotone
    <3> QED BY <1>1, <3>1, SMT
  <2> DEFINE raised == p * (BPS + bps)
  <2>2. p * BPS <= raised /\ raised \in Int
    BY <2>1
  <2>3. p <= raised \div BPS /\ raised \div BPS \in Int
    <3> HIDE DEF raised
    <3> QED BY <1>1, <2>2, QuotientAtLeast
  <2> QED BY <1>1, <2>3 DEF StakeFeePrice, Lesser
<1>5. MakerRebatePrice(bps, p) \in Nat \ {0}
  <2>1. p * cut \in Nat
    <3> HIDE DEF cut
    <3> QED BY <1>1, <1>2, ProductNat
  <2>2. (p * cut) \div BPS \in Nat
    <3> HIDE DEF cut
    <3> QED BY <1>1, <2>1, QuotientNat
  <2> QED BY <2>2 DEF MakerRebatePrice, Greater
<1> HIDE DEF bps
<1> QED BY <1>1, <1>3, <1>4, <1>5 DEF Effective, bps

\* The discounted depth of a level is an amount.
LEMMA DiscountedDepth ==
    ASSUME NEW survival \in Nat, NEW depth \in Int
    PROVE  Discounted(survival, depth) \in Nat
<1>1. BPS \in Nat \ {0}
  BY UnitsArePositive
<1>2. CASE depth <= 0
  BY <1>2 DEF Discounted
<1>3. CASE ~(depth <= 0)
  <2> DEFINE kept == Lesser(survival, BPS)
  <2>1. kept \in Nat /\ depth \in Nat
    BY <1>1, <1>3 DEF Lesser
  <2>2. Discounted(survival, depth) = (depth * kept) \div BPS
    BY <1>3 DEF Discounted
  <2> HIDE DEF kept
  <2>3. depth * kept \in Nat
    BY <2>1, ProductNat
  <2> QED BY <1>1, <2>2, <2>3, QuotientNat
<1> QED BY <1>2, <1>3

\* Rounding down to whole increments adds nothing.
LEMMA WholeSteps ==
    ASSUME NEW value \in Int, NEW step \in Nat \ {0}
    PROVE  /\ RoundDownTo(value, step) \in Int
           /\ value \in Nat => RoundDownTo(value, step) \in Nat
           /\ RoundDownTo(value, step) <= value
<1> DEFINE q == value \div step
<1>1. q \in Int /\ q * step \in Int /\ q * step <= value
  BY Quotient
<1>2. value \in Nat => q \in Nat
  BY QuotientNat
<1> HIDE DEF q
<1>3. q \in Nat => q * step \in Nat
  BY ProductNat
<1> QED BY <1>1, <1>2, <1>3 DEF RoundDownTo, q

\* Rounding up to whole increments gives an amount.
LEMMA StepsUp ==
    ASSUME NEW value \in Nat, NEW step \in Nat \ {0}
    PROVE  RoundUpTo(value, step) \in Nat
BY Ceiling, ProductNat DEF RoundUpTo

\* What is rounded down to something is at least one step.
LEMMA OneStep ==
    ASSUME NEW value \in Int, NEW step \in Nat \ {0}
    PROVE  (RoundDownTo(value, step) > 0 => step <= value) /\ (step <= value => step <= RoundDownTo(value, step))
<1> DEFINE q == value \div step
           whole == q * step
<1>1. q \in Int /\ whole \in Int /\ whole <= value
  BY Quotient
<1>2. RoundDownTo(value, step) = whole
  BY DEF RoundDownTo
<1>3. step <= value => 1 <= q
  <2>1. 1 * step = step
    OBVIOUS
  <2> QED BY <2>1, QuotientAtLeast
<1> HIDE DEF q
<1>4. 1 <= q => step <= whole
  <2>1. 1 <= q => 1 * step <= q * step
    BY <1>1, Monotone
  <2>2. 1 * step = step
    OBVIOUS
  <2> QED BY <2>1, <2>2
<1>5. whole > 0 => 1 <= q
  <2>1. whole > 0 => q > 0
    BY <1>1, Positive
  <2> QED BY <1>1, <2>1
<1> HIDE DEF whole
<1> QED BY <1>1, <1>2, <1>3, <1>4, <1>5

\* A share of what the depth allows does not exceed the depth.
LEMMA ShareFits ==
    ASSUME NEW size \in Nat, NEW sum \in Nat \ {0}, NEW price \in Nat \ {0},
           NEW spend \in Int, spend <= (size * sum) \div price
    PROVE  (spend * price) \div sum \in Int /\ (spend * price) \div sum <= size
<1> DEFINE paid == spend * price
           x == paid \div sum
           most == size * sum
           q == most \div price
<1>1. paid \in Int /\ most \in Int
  OBVIOUS
<1>2. x \in Int /\ x * sum \in Int /\ x * sum <= paid
  <2> HIDE DEF paid
  <2> QED BY <1>1, Quotient
<1>3. q \in Int /\ q * price \in Int /\ q * price <= most
  <2> HIDE DEF most
  <2> QED BY <1>1, Quotient
<1>4. paid <= most
  <2>1. paid <= q * price
    <3>1. spend <= q
      OBVIOUS
    <3> HIDE DEF q
    <3> QED BY <1>3, <3>1, Monotone
  <2> DEFINE y == q * price
  <2> HIDE DEF paid, most, y
  <2>2. paid <= y /\ y <= most /\ y \in Int
    BY <1>3, <2>1 DEF y
  <2> QED BY <1>1, <2>2
<1>5. x <= size
  <2> SUFFICES ASSUME ~(x <= size) PROVE FALSE
    OBVIOUS
  <2>1. (size + 1) * sum <= x * sum
    <3> HIDE DEF x
    <3>1. size + 1 <= x
      BY <1>2
    <3> QED BY <1>2, <3>1, Monotone
  <2>2. (size + 1) * sum = most + sum
    OBVIOUS
  <2> DEFINE y == x * sum
  <2> HIDE DEF y, most, paid
  <2>3. most + sum <= y /\ y <= paid /\ paid <= most /\ y \in Int
    BY <1>2, <1>4, <2>1, <2>2 DEF y
  <2> QED BY <1>1, <2>3
<1> QED BY <1>2, <1>5

\* A single quote that takes a stake holds an increment, and the plan spends.
LEMMA StakeNeedsDepth ==
    ASSUME NEW size \in Nat, NEW sum \in Nat \ {0}, NEW price \in Nat \ {0}, NEW step \in Nat \ {0},
           NEW spend \in Int, spend <= (size * sum) \div price,
           RoundDownTo((spend * price) \div sum, step) > 0
    PROVE  spend > 0 /\ step <= RoundDownTo(size, step)
<1> DEFINE paid == spend * price
           x == paid \div sum
<1>1. paid \in Int
  OBVIOUS
<1>2. x \in Int /\ x * sum \in Int /\ x * sum <= paid
  <2> HIDE DEF paid
  <2> QED BY <1>1, Quotient
<1>5. step <= x
  <2> HIDE DEF x
  <2> QED BY <1>2, OneStep DEF x
<1>6. spend > 0
  <2>1. 1 * sum <= x * sum /\ 1 * sum = sum
    <3> HIDE DEF x
    <3> QED BY <1>2, <1>5, Monotone
  <2>2. paid > 0
    <3> DEFINE y == x * sum
    <3> HIDE DEF paid, y
    <3>1. sum <= y /\ y <= paid /\ y \in Int
      BY <1>2, <2>1 DEF y
    <3> QED BY <1>1, <3>1
  <2> QED BY <2>2, Positive
<1>7. x <= size
  BY ShareFits
<1>8. step <= RoundDownTo(size, step)
  <2>1. step <= size
    <3> HIDE DEF x
    <3> QED BY <1>2, <1>5, <1>7
  <2> QED BY <2>1, OneStep
<1> QED BY <1>6, <1>8

\* At or above parity no pair of stakes on two outcomes pays more than it
\* costs in both (arb.rs:708-709: "at or above parity no plan can profit").
THEOREM NoProfitAtParity ==
    ASSUME NEW c1 \in [price : Probs], NEW c2 \in [price : Probs],
           NEW s1 \in Nat, NEW s2 \in Nat, c1.price + c2.price >= PPM
    PROVE  \/ Payout(c1, s1) <= s1 + s2
           \/ Payout(c2, s2) <= s1 + s2
<1> DEFINE p1 == c1.price
           p2 == c2.price
           t  == s1 + s2
<1>1. /\ p1 \in Nat \ {0} /\ p2 \in Nat \ {0} /\ PPM \in Nat \ {0}
      /\ t \in Nat /\ p1 + p2 >= PPM
  BY UnitsArePositive DEF Probs
<1>2. s1 * PPM \in Nat /\ s2 * PPM \in Nat
  BY <1>1
<1> SUFFICES ASSUME (s1 * PPM) \div p1 > t, (s2 * PPM) \div p2 > t PROVE FALSE
  <2>1. (s1 * PPM) \div p1 \in Int /\ (s2 * PPM) \div p2 \in Int
    BY <1>1, <1>2
  <2> QED BY <2>1, <1>1 DEF Payout
<1> HIDE DEF p1, p2
<1>3. s1 * PPM >= p1 * (t + 1) /\ s2 * PPM >= p2 * (t + 1)
  BY <1>1, <1>2, QuotientAbove
<1>4. t * PPM >= (p1 + p2) * (t + 1)
  BY <1>1, <1>3, Z3
<1>5. (p1 + p2) * (t + 1) >= PPM * (t + 1)
  BY <1>1, Z3
<1> QED
  BY <1>1, <1>4, <1>5, Z3

(***************************************************************************)
(* Orders that the code sorts by                                           *)
(***************************************************************************)

\* s names every member of S once.
Lists(s, S) ==
    /\ s \in [1 .. Cardinality(S) -> S]
    /\ \A m, n \in 1 .. Cardinality(S) : s[m] = s[n] => m = n
    /\ \A x \in S : \E n \in 1 .. Cardinality(S) : s[n] = x

\* A sequence that puts each member of a set at its place lists the set.
LEMMA InPlace ==
    ASSUME NEW S, IsFiniteSet(S), NEW R, StrictOrder(S, R),
           NEW s \in [1 .. Cardinality(S) -> S],
           \A n \in 1 .. Cardinality(S) : Cardinality(Preceding(S, R, s[n])) = n - 1
    PROVE  Lists(s, S)
<1> DEFINE k == Cardinality(S)
<1>1. k \in Nat
  BY FS_CardinalityType
<1>2. \A m, n \in 1 .. k : s[m] = s[n] => m = n
  <2>1. TAKE m, n \in 1 .. k
  <2>2. HAVE s[m] = s[n]
  <2>3. m - 1 = n - 1
    BY <2>2
  <2> QED BY <1>1, <2>3
<1>3. \A x \in S : \E n \in 1 .. k : s[n] = x
  <2>1. TAKE x \in S
  <2> DEFINE n == Cardinality(Preceding(S, R, x)) + 1
  <2>2. Cardinality(Preceding(S, R, x)) \in 0 .. k - 1
    BY Places
  <2>3. n \in 1 .. k /\ n - 1 = Cardinality(Preceding(S, R, x))
    BY <1>1, <2>2
  <2>4. s[n] \in S /\ Cardinality(Preceding(S, R, s[n])) = Cardinality(Preceding(S, R, x))
    <3> HIDE DEF n
    <3> QED BY <2>3
  <2>5. s[n] = x
    <3> HIDE DEF n
    <3> QED BY <2>4, Places
  <2> HIDE DEF n
  <2> QED BY <2>3, <2>5
<1> QED BY <1>2, <1>3 DEF Lists

\* Numbers in ascending order are a listing of their set.
LEMMA Ascending ==
    ASSUME NEW S, IsFiniteSet(S), S \subseteq Int
    PROVE  Lists(Ordered(S, <), S)
<1> DEFINE R == {p \in S \X S : p[1] < p[2]}
           s == Ordered(S, <)
<1>1. StrictOrder(S, R)
  BY DEF StrictOrder
<1>2. \A x \in S : {y \in S : y < x} = Preceding(S, R, x)
  BY DEF Preceding
<1>3. s = [n \in 1 .. Cardinality(S) |-> CHOOSE x \in S : Cardinality({y \in S : y < x}) = n - 1]
  BY DEF Ordered
<1>4. \A n \in 1 .. Cardinality(S) : s[n] \in S /\ Cardinality(Preceding(S, R, s[n])) = n - 1
  <2>1. TAKE n \in 1 .. Cardinality(S)
  <2>2. \E x \in S : Cardinality(Preceding(S, R, x)) = n - 1
    <3> HIDE DEF R
    <3> QED BY <1>1, PlaceTaken
  <2>3. \E x \in S : Cardinality({y \in S : y < x}) = n - 1
    <3> HIDE DEF R
    <3> QED BY <1>2, <2>2
  <2>4. s[n] \in S /\ Cardinality({y \in S : y < s[n]}) = n - 1
    <3> HIDE DEF s
    <3> QED BY <1>3, <2>3
  <2> HIDE DEF s, R
  <2> QED BY <1>2, <2>4
<1>5. s \in [1 .. Cardinality(S) -> S]
  <2> HIDE DEF s
  <2> QED BY <1>3, <1>4
<1> HIDE DEF s, R
<1> QED BY <1>1, <1>4, <1>5, InPlace DEF s

\* So are levels in scan order,
LEMMA InScan ==
    ASSUME NEW S, IsFiniteSet(S), S \subseteq Int \X Int
    PROVE  Lists(Ordered(S, InScanOrder), S)
<1> DEFINE R == {p \in S \X S : InScanOrder(p[1], p[2])}
           s == Ordered(S, InScanOrder)
<1>0. \A x \in S : x[1] \in Int /\ x[2] \in Int /\ x = <<x[1], x[2]>>
  OBVIOUS
<1>1. StrictOrder(S, R)
  BY <1>0 DEF StrictOrder, InScanOrder
<1>2. \A x \in S : {y \in S : InScanOrder(y, x)} = Preceding(S, R, x)
  BY DEF Preceding
<1>3. s = [n \in 1 .. Cardinality(S) |->
             CHOOSE x \in S : Cardinality({y \in S : InScanOrder(y, x)}) = n - 1]
  BY DEF Ordered
<1>4. \A n \in 1 .. Cardinality(S) : s[n] \in S /\ Cardinality(Preceding(S, R, s[n])) = n - 1
  <2>1. TAKE n \in 1 .. Cardinality(S)
  <2>2. \E x \in S : Cardinality(Preceding(S, R, x)) = n - 1
    <3> HIDE DEF R
    <3> QED BY <1>1, PlaceTaken
  <2>3. \E x \in S : Cardinality({y \in S : InScanOrder(y, x)}) = n - 1
    <3> HIDE DEF R
    <3> QED BY <1>2, <2>2
  <2>4. s[n] \in S /\ Cardinality({y \in S : InScanOrder(y, s[n])}) = n - 1
    <3> HIDE DEF s
    <3> QED BY <1>3, <2>3
  <2> HIDE DEF s, R
  <2> QED BY <1>2, <2>4
<1>5. s \in [1 .. Cardinality(S) -> S]
  <2> HIDE DEF s
  <2> QED BY <1>3, <1>4
<1> HIDE DEF s, R
<1> QED BY <1>1, <1>4, <1>5, InPlace DEF s

\* levels in the order of the books,
LEMMA InBookOrder ==
    ASSUME NEW S, IsFiniteSet(S), S \subseteq (Int \X Int) \X Int
    PROVE  Lists(Ordered(S, BookOrder), S)
<1> DEFINE R == {p \in S \X S : BookOrder(p[1], p[2])}
           s == Ordered(S, BookOrder)
<1>0. \A x \in S : /\ x[1] \in Int \X Int /\ x[2] \in Int /\ x = <<x[1], x[2]>>
                   /\ x[1][1] \in Int /\ x[1][2] \in Int /\ x[1] = <<x[1][1], x[1][2]>>
  OBVIOUS
<1>1. StrictOrder(S, R)
  BY <1>0 DEF StrictOrder, BookOrder, InScanOrder
<1>2. \A x \in S : {y \in S : BookOrder(y, x)} = Preceding(S, R, x)
  BY DEF Preceding
<1>3. s = [n \in 1 .. Cardinality(S) |->
             CHOOSE x \in S : Cardinality({y \in S : BookOrder(y, x)}) = n - 1]
  BY DEF Ordered
<1>4. \A n \in 1 .. Cardinality(S) : s[n] \in S /\ Cardinality(Preceding(S, R, s[n])) = n - 1
  <2>1. TAKE n \in 1 .. Cardinality(S)
  <2>2. \E x \in S : Cardinality(Preceding(S, R, x)) = n - 1
    <3> HIDE DEF R
    <3> QED BY <1>1, PlaceTaken
  <2>3. \E x \in S : Cardinality({y \in S : BookOrder(y, x)}) = n - 1
    <3> HIDE DEF R
    <3> QED BY <1>2, <2>2
  <2>4. s[n] \in S /\ Cardinality({y \in S : BookOrder(y, s[n])}) = n - 1
    <3> HIDE DEF s
    <3> QED BY <1>3, <2>3
  <2> HIDE DEF s, R
  <2> QED BY <1>2, <2>4
<1>5. s \in [1 .. Cardinality(S) -> S]
  <2> HIDE DEF s
  <2> QED BY <1>3, <1>4
<1> HIDE DEF s, R
<1> QED BY <1>1, <1>4, <1>5, InPlace DEF s

\* and candidates in order of preference.
LEMMA InPreference ==
    ASSUME NEW cands, NEW S, IsFiniteSet(S), S \subseteq Int,
           \A i \in S : cands[i].eff_ppm \in Int
    PROVE  Lists(BestFirst(cands, S), S)
<1> DEFINE R == {p \in S \X S : Preferred(cands, p[1], p[2])}
           s == BestFirst(cands, S)
<1>1. StrictOrder(S, R)
  BY DEF StrictOrder, Preferred
<1>2. \A x \in S : {y \in S : Preferred(cands, y, x)} = Preceding(S, R, x)
  BY DEF Preceding
<1>3. s = [n \in 1 .. Cardinality(S) |->
             CHOOSE x \in S : Cardinality({y \in S : Preferred(cands, y, x)}) = n - 1]
  BY DEF Ordered, BestFirst
<1>4. \A n \in 1 .. Cardinality(S) : s[n] \in S /\ Cardinality(Preceding(S, R, s[n])) = n - 1
  <2>1. TAKE n \in 1 .. Cardinality(S)
  <2>2. \E x \in S : Cardinality(Preceding(S, R, x)) = n - 1
    <3> HIDE DEF R
    <3> QED BY <1>1, PlaceTaken
  <2>3. \E x \in S : Cardinality({y \in S : Preferred(cands, y, x)}) = n - 1
    <3> HIDE DEF R
    <3> QED BY <1>2, <2>2
  <2>4. s[n] \in S /\ Cardinality({y \in S : Preferred(cands, y, s[n])}) = n - 1
    <3> HIDE DEF s
    <3> QED BY <1>3, <2>3
  <2> HIDE DEF s, R
  <2> QED BY <1>2, <2>4
<1>5. s \in [1 .. Cardinality(S) -> S]
  <2> HIDE DEF s
  <2> QED BY <1>3, <1>4
<1> HIDE DEF s, R
<1> QED BY <1>1, <1>4, <1>5, InPlace DEF s

(***************************************************************************)
(* The chunks of a book                                                    *)
(***************************************************************************)

\* The legs that detect_book is called with.
BookLegs == [outcome : 1 .. OutcomeCount, fee : FeeTypes, increment : Nat \ {0}, levels : Seq(Quotes)]

\* A usable level is a level of a leg, has a price, and takes no more than
\* rests there.
LEMMA UsableLevels ==
    ASSUME NEW legs \in Seq(BookLegs)
    PROVE  /\ IsFiniteSet(Usable(legs)) /\ Usable(legs) \subseteq Int \X Int
           /\ \A il \in Usable(legs) :
                 /\ il[1] \in DOMAIN legs /\ il[2] \in DOMAIN legs[il[1]].levels
                 /\ EffectivePpm(legs[il[1]], il[2]) \in Nat \ {0}
                 /\ UsableCapacity(legs[il[1]], il[2]) \in Nat
                 /\ legs[il[1]].levels[il[2]].size \in Nat
                 /\ UsableCapacity(legs[il[1]], il[2]) <= legs[il[1]].levels[il[2]].size
<1> DEFINE At(i) == {i} \X DOMAIN legs[i].levels
           all == UNION {At(i) : i \in DOMAIN legs}
<1>1. DOMAIN legs = 1 .. Len(legs) /\ Len(legs) \in Nat /\ \A i \in DOMAIN legs : legs[i] \in BookLegs
  BY LenProperties
<1>2. \A i \in DOMAIN legs : /\ legs[i].levels \in Seq(Quotes) /\ legs[i].fee \in FeeTypes
                             /\ legs[i].increment \in Nat \ {0}
                             /\ DOMAIN legs[i].levels = 1 .. Len(legs[i].levels)
                             /\ Len(legs[i].levels) \in Nat
  BY <1>1, LenProperties DEF BookLegs
<1>3. \A i \in DOMAIN legs : \A l \in DOMAIN legs[i].levels :
        /\ legs[i].levels[l] \in Quotes
        /\ legs[i].levels[l].price \in Probs /\ legs[i].levels[l].size \in Int
  <2>1. TAKE i \in DOMAIN legs
  <2>2. TAKE l \in DOMAIN legs[i].levels
  <2>3. legs[i].levels[l] \in Quotes
    BY <1>2
  <2> QED BY <2>3 DEF Quotes
<1>4. IsFiniteSet(all)
  <2>1. IsFiniteSet(DOMAIN legs)
    BY <1>1, FS_Interval
  <2>2. \A i \in DOMAIN legs : IsFiniteSet(At(i))
    <3>1. TAKE i \in DOMAIN legs
    <3>2. IsFiniteSet({i})
      BY FS_Singleton
    <3>3. IsFiniteSet(1 .. Len(legs[i].levels))
      BY <1>2, FS_Interval
    <3>4. IsFiniteSet({i} \X DOMAIN legs[i].levels)
      BY <1>2, <3>2, <3>3, FS_Product
    <3> QED BY <3>4
  <2> DEFINE rows == {At(i) : i \in DOMAIN legs}
             row == [i \in DOMAIN legs |-> At(i)]
  <2>3. IsFiniteSet(rows)
    <3>1. rows = {row[i] : i \in DOMAIN legs}
      OBVIOUS
    <3>2. row \in [DOMAIN legs -> rows] /\ \A r \in rows : \E i \in DOMAIN legs : row[i] = r
      OBVIOUS
    <3>3. row \in Surjection(DOMAIN legs, rows)
      <4> HIDE DEF row, rows
      <4> QED BY <3>2 DEF Surjection
    <3> HIDE DEF row, rows
    <3> QED BY <2>1, <3>3, FS_Surjection
  <2>4. \A r \in rows : IsFiniteSet(r)
    <3> HIDE DEF At
    <3> QED BY <2>2
  <2>5. all = UNION rows
    OBVIOUS
  <2> HIDE DEF rows, all
  <2> QED BY <2>3, <2>4, <2>5, FS_UNION
<1>5. Usable(legs) \subseteq all
  BY DEF Usable
<1>6. IsFiniteSet(Usable(legs))
  <2> HIDE DEF all
  <2> QED BY <1>4, <1>5, FS_Subset
<1>7. \A il \in Usable(legs) :
        /\ il \in Int \X Int /\ il[1] \in DOMAIN legs /\ il[2] \in DOMAIN legs[il[1]].levels
        /\ UsableCapacity(legs[il[1]], il[2]) >= legs[il[1]].increment
  <2>1. TAKE il \in Usable(legs)
  <2>2. PICK i \in DOMAIN legs : il \in {i} \X DOMAIN legs[i].levels
    BY <1>5
  <2>3. il[1] = i /\ il[2] \in DOMAIN legs[i].levels /\ il = <<il[1], il[2]>>
    BY <2>2
  <2>4. il[1] \in Int /\ il[2] \in Int
    BY <1>1, <1>2, <2>3
  <2>5. UsableCapacity(legs[il[1]], il[2]) >= legs[il[1]].increment
    BY DEF Usable
  <2> QED BY <2>3, <2>4, <2>5
<1>8. \A il \in Usable(legs) :
        /\ EffectivePpm(legs[il[1]], il[2]) \in Nat \ {0}
        /\ UsableCapacity(legs[il[1]], il[2]) \in Nat
        /\ legs[il[1]].levels[il[2]].size \in Nat
        /\ UsableCapacity(legs[il[1]], il[2]) <= legs[il[1]].levels[il[2]].size
  <2>1. TAKE il \in Usable(legs)
  <2> DEFINE leg == legs[il[1]]
             level == leg.levels[il[2]]
  <2>2. /\ leg.fee \in FeeTypes /\ leg.increment \in Nat \ {0}
        /\ level.price \in Probs /\ level.size \in Int
        /\ UsableCapacity(leg, il[2]) >= leg.increment
    BY <1>2, <1>3, <1>7
  <2>3. EffectivePpm(leg, il[2]) \in Nat \ {0}
    <3> HIDE DEF leg
    <3> QED BY <2>2, EffectivePrice DEF EffectivePpm
  <2>4. UsableCapacity(leg, il[2]) \in Int /\ UsableCapacity(leg, il[2]) <= level.size
    BY <2>2, WholeSteps DEF UsableCapacity
  <2> HIDE DEF leg
  <2> QED BY <2>2, <2>3, <2>4 DEF leg
<1> QED BY <1>6, <1>7, <1>8

\* Every outcome of a leg is numbered.
LEMMA OutcomesNamed ==
    ASSUME NEW legs \in Seq(BookLegs)
    PROVE  /\ Outcomes(legs) \in Seq(1 .. OutcomeCount)
           /\ Len(Outcomes(legs)) \in 0 .. Len(legs)
           /\ \A i \in DOMAIN legs :
                 \E g \in DOMAIN Outcomes(legs) : Outcomes(legs)[g] = legs[i].outcome
<1> DEFINE first == {i \in DOMAIN legs : \A k \in 1 .. i - 1 : legs[k].outcome # legs[i].outcome}
           order == Ordered(first, <)
           n == Cardinality(first)
<1>1. DOMAIN legs = 1 .. Len(legs) /\ Len(legs) \in Nat /\ \A i \in DOMAIN legs : legs[i] \in BookLegs
  BY LenProperties
<1>2. IsFiniteSet(1 .. Len(legs)) /\ Cardinality(1 .. Len(legs)) = Len(legs)
  BY <1>1, FS_Interval
<1>3. /\ IsFiniteSet(first) /\ first \subseteq Int /\ first \subseteq DOMAIN legs
      /\ n \in Nat /\ n <= Len(legs)
  <2>1. first \subseteq 1 .. Len(legs)
    BY <1>1
  <2> HIDE DEF first, order
  <2>2. IsFiniteSet(first) /\ Cardinality(first) <= Cardinality(1 .. Len(legs))
    BY <1>2, <2>1, FS_Subset
  <2>3. Cardinality(first) \in Nat
    BY <2>2, FS_CardinalityType
  <2> QED BY <1>1, <1>2, <2>1, <2>2, <2>3
<1>4. Lists(order, first)
  <2> HIDE DEF first
  <2> QED BY <1>3, Ascending
<1>5. Outcomes(legs) = [g \in 1 .. n |-> legs[order[g]].outcome]
  BY DEF Outcomes
<1>6. \A g \in 1 .. n : order[g] \in DOMAIN legs /\ legs[order[g]].outcome \in 1 .. OutcomeCount
  <2> HIDE DEF first, order
  <2> QED BY <1>1, <1>3, <1>4 DEF Lists, BookLegs
<1>7. Outcomes(legs) \in Seq(1 .. OutcomeCount) /\ Len(Outcomes(legs)) = n /\ DOMAIN Outcomes(legs) = 1 .. n
  <2> HIDE DEF first, order, n
  <2>1. Outcomes(legs) \in [1 .. n -> 1 .. OutcomeCount]
    BY <1>5, <1>6
  <2> QED BY <1>3, <2>1, SequenceOf
<1>8. \A i \in DOMAIN legs : \E k \in first : legs[k].outcome = legs[i].outcome
  <2>1. TAKE i \in DOMAIN legs
  <2> DEFINE same == {k \in DOMAIN legs : legs[k].outcome = legs[i].outcome}
  <2>2. same \subseteq Nat /\ same # {}
    BY <1>1
  <2>3. PICK k \in same : \A j \in same : k <= j
    <3> HIDE DEF same
    <3> QED BY <2>2, LeastNumber
  <2>4. k \in DOMAIN legs /\ legs[k].outcome = legs[i].outcome
    BY <2>3
  <2>5. \A j \in 1 .. k - 1 : legs[j].outcome # legs[k].outcome
    <3>1. TAKE j \in 1 .. k - 1
    <3>2. j \in DOMAIN legs /\ ~(k <= j)
      BY <1>1, <2>4
    <3> QED BY <2>3, <2>4, <3>2
  <2> QED BY <2>4, <2>5
<1>9. \A i \in DOMAIN legs : \E g \in 1 .. n : legs[order[g]].outcome = legs[i].outcome
  <2>1. TAKE i \in DOMAIN legs
  <2>2. PICK k \in first : legs[k].outcome = legs[i].outcome
    <3> HIDE DEF first
    <3> QED BY <1>8
  <2>3. PICK g \in 1 .. n : order[g] = k
    <3> HIDE DEF first, order
    <3> QED BY <1>4 DEF Lists
  <2> HIDE DEF first, order
  <2> QED BY <2>2, <2>3
<1> HIDE DEF first, order, n
<1> QED BY <1>3, <1>5, <1>7, <1>9

\* An outcome with a usable level has a best one.
LEMMA BestUsable ==
    ASSUME NEW legs \in Seq(BookLegs), NEW outcome,
           outcome \in {legs[il[1]].outcome : il \in Usable(legs)}
    PROVE  /\ BestLevel(legs, outcome) \in Usable(legs)
           /\ legs[BestLevel(legs, outcome)[1]].outcome = outcome
<1> DEFINE of == {il \in Usable(legs) : legs[il[1]].outcome = outcome}
           P(il) == EffectivePpm(legs[il[1]], il[2])
           R == {p \in of \X of : Before(P(p[1]), p[1], P(p[2]), p[2])}
<1>1. IsFiniteSet(of) /\ of # {}
  BY UsableLevels, FS_Subset
<1>2. \A il \in of : P(il) \in Int /\ il[1] \in Int /\ il[2] \in Int /\ il = <<il[1], il[2]>>
  <2>1. TAKE il \in of
  <2>2. il \in Usable(legs) /\ il \in Int \X Int
    BY UsableLevels
  <2>3. EffectivePpm(legs[il[1]], il[2]) \in Nat \ {0}
    BY <2>2, UsableLevels
  <2> QED BY <2>2, <2>3
<1>3. StrictOrder(of, R)
  <2> HIDE DEF P, of
  <2> QED BY <1>2 DEF StrictOrder, Before, InScanOrder
<1>4. \E il \in of : \A k \in of \ {il} : <<il, k>> \in R
  <2> HIDE DEF of, R
  <2> QED BY <1>1, <1>3, FirstInOrder
<1>5. \E il \in of : \A k \in of \ {il} : Before(P(il), il, P(k), k)
  <2> HIDE DEF of, P
  <2> QED BY <1>4
<1>6. BestLevel(legs, outcome) = CHOOSE il \in of : \A k \in of \ {il} : Before(P(il), il, P(k), k)
  BY DEF BestLevel
<1>7. BestLevel(legs, outcome) \in of
  <2> HIDE DEF of, P
  <2> QED BY <1>5, <1>6
<1> QED BY <1>7

\* Filling up keeps what is there and stops at the chunk bound.
LEMMA Filled ==
    ASSUME NEW S, NEW best \in Seq(S), NEW rest \in Seq(S), Len(best) <= MAX_CHUNKS
    PROVE  /\ FilledUp(best, rest) \in Seq(S)
           /\ Len(best) <= Len(FilledUp(best, rest)) /\ Len(FilledUp(best, rest)) <= MAX_CHUNKS
           /\ \A i \in 1 .. Len(best) : FilledUp(best, rest)[i] = best[i]
<1> DEFINE room == Lesser(Len(rest), MAX_CHUNKS - Len(best))
           more == SubSeq(rest, 1, room)
<1>1. /\ Len(best) \in Nat /\ Len(rest) \in Nat /\ MAX_CHUNKS \in Nat
      /\ \A i \in 1 .. Len(rest) : rest[i] \in S
  BY DetectionBounds, LenProperties
<1>2. room \in Nat /\ room <= Len(rest) /\ Len(best) + room <= MAX_CHUNKS
  BY <1>1 DEF Lesser
<1>3. more \in Seq(S) /\ Len(more) = room
  <2> HIDE DEF room
  <2>1. 1 \in Int /\ room \in Int /\ \A i \in 1 .. room : rest[i] \in S
    BY <1>1, <1>2
  <2>2. more \in Seq(S) /\ Len(more) = IF 1 <= room THEN room - 1 + 1 ELSE 0
    BY <2>1, SubSeqProperties
  <2> QED BY <1>2, <2>2
<1>4. FilledUp(best, rest) = best \o more
  BY DEF FilledUp
<1> HIDE DEF more, room
<1>5. /\ best \o more \in Seq(S) /\ Len(best \o more) = Len(best) + Len(more)
      /\ \A i \in 1 .. Len(best) + Len(more) :
            (best \o more)[i] = IF i <= Len(best) THEN best[i] ELSE more[i - Len(best)]
  BY <1>3, ConcatProperties
<1> QED BY <1>1, <1>2, <1>3, <1>4, <1>5

\* The chunks of n outcomes.
ChunkTypes(legs, n) ==
    [leg : DOMAIN legs, group : 1 .. n, price : Nat \ {0}, increment : Nat \ {0},
     capacity : Nat, resting : Nat]

\* The number of an outcome.
GroupOf(groups, outcome) == CHOOSE g \in DOMAIN groups : groups[g] = outcome

\* A chunk carries the number of its leg's outcome, the price of one of its
\* leg's levels and no more capacity than rests there.
PricedFrom(legs, groups, c) ==
    /\ c.group = GroupOf(groups, legs[c.leg].outcome)
    /\ groups[c.group] = legs[c.leg].outcome
    /\ \E l \in DOMAIN legs[c.leg].levels :
          c.price = EffectivePpm(legs[c.leg], l) /\ c.resting = legs[c.leg].levels[l].size
    /\ c.capacity <= c.resting

\* Chunks priced from the levels of the legs.
Sized(legs, groups, chunks) ==
    /\ chunks \in Seq(ChunkTypes(legs, Len(groups)))
    /\ Len(groups) <= Len(chunks)
    /\ \A j \in DOMAIN chunks : PricedFrom(legs, groups, chunks[j])

\* What Flatten makes of a usable level is priced from it.
LEMMA ChunkOfLevel ==
    ASSUME NEW legs \in Seq(BookLegs), NEW il \in Usable(legs),
           NEW groups, groups = Outcomes(legs)
    PROVE  /\ ChunkOf(legs, groups, il) \in ChunkTypes(legs, Len(groups))
           /\ PricedFrom(legs, groups, ChunkOf(legs, groups, il))
<1> DEFINE leg == legs[il[1]]
           c == ChunkOf(legs, groups, il)
<1>1. /\ il[1] \in DOMAIN legs /\ il[2] \in DOMAIN leg.levels
      /\ EffectivePpm(leg, il[2]) \in Nat \ {0} /\ UsableCapacity(leg, il[2]) \in Nat
      /\ leg.levels[il[2]].size \in Nat /\ UsableCapacity(leg, il[2]) <= leg.levels[il[2]].size
  BY UsableLevels
<1>2. leg.increment \in Nat \ {0}
  <2>1. DOMAIN legs = 1 .. Len(legs)
    BY LenProperties
  <2>2. leg \in BookLegs
    BY <1>1, <2>1, ElementOfSeq
  <2> HIDE DEF leg
  <2> QED BY <2>2 DEF BookLegs
<1>3. \E g \in DOMAIN groups : groups[g] = leg.outcome
  BY <1>1, OutcomesNamed
<1>4. GroupOf(groups, leg.outcome) \in DOMAIN groups /\ groups[GroupOf(groups, leg.outcome)] = leg.outcome
  BY <1>3 DEF GroupOf
<1>5. DOMAIN groups = 1 .. Len(groups)
  BY OutcomesNamed, LenProperties
<1>6. c = [leg |-> il[1], group |-> GroupOf(groups, leg.outcome), price |-> EffectivePpm(leg, il[2]),
           increment |-> leg.increment, capacity |-> UsableCapacity(leg, il[2]),
           resting |-> leg.levels[il[2]].size]
  BY DEF ChunkOf, GroupOf
<1>7. /\ c.leg = il[1] /\ c.group = GroupOf(groups, leg.outcome)
      /\ c.price = EffectivePpm(leg, il[2]) /\ c.resting = leg.levels[il[2]].size
      /\ c.capacity = UsableCapacity(leg, il[2])
  BY <1>6
<1>8. c \in ChunkTypes(legs, Len(groups))
  <2> HIDE DEF leg, c
  <2> QED BY <1>1, <1>2, <1>4, <1>5, <1>6 DEF ChunkTypes
<1>9. PricedFrom(legs, groups, c)
  <2> HIDE DEF c
  <2> QED BY <1>1, <1>4, <1>7 DEF PricedFrom
<1> QED BY <1>8, <1>9

\* Flatten prices its chunks from the levels, the best one of each outcome
\* first.
LEMMA Flattened ==
    ASSUME NEW legs \in Seq(BookLegs), NEW groups, groups = Outcomes(legs),
           Range(groups) = {legs[il[1]].outcome : il \in Usable(legs)},
           Len(groups) <= MAX_CHUNKS
    PROVE  /\ Sized(legs, groups, Flatten(legs, groups))
           /\ \A g \in DOMAIN groups :
                 Flatten(legs, groups)[g] = ChunkOf(legs, groups, BestLevel(legs, groups[g]))
<1> DEFINE best == [g \in DOMAIN groups |-> BestLevel(legs, groups[g])]
           others == Usable(legs) \ Range(best)
           rest == Ordered(others, InScanOrder)
           levels == FilledUp(best, rest)
           n == Len(groups)
<1>1. n \in Nat /\ DOMAIN groups = 1 .. n
  BY OutcomesNamed, LenProperties
<1>2. \A g \in DOMAIN groups : BestLevel(legs, groups[g]) \in Usable(legs)
  <2>1. TAKE g \in DOMAIN groups
  <2>2. groups[g] \in Range(groups)
    BY DEF Range
  <2> QED BY <2>2, BestUsable
<1>3. best \in Seq(Usable(legs)) /\ Len(best) = n
  <2>1. best \in [1 .. n -> Usable(legs)]
    BY <1>1, <1>2
  <2> HIDE DEF best, n
  <2> QED BY <1>1, <2>1, SequenceOf
<1>4. rest \in Seq(Usable(legs))
  <2>1. IsFiniteSet(others) /\ others \subseteq Int \X Int /\ others \subseteq Usable(legs)
    BY UsableLevels, FS_Subset
  <2> HIDE DEF others
  <2>2. Lists(Ordered(others, InScanOrder), others)
    BY <2>1, InScan
  <2>3. rest \in [1 .. Cardinality(others) -> others] /\ Cardinality(others) \in Nat
    BY <2>1, <2>2, FS_CardinalityType DEF Lists
  <2> HIDE DEF rest
  <2> QED BY <2>1, <2>3, SequenceOf, SeqMonotonic
<1>5. /\ levels \in Seq(Usable(legs)) /\ n <= Len(levels)
      /\ \A i \in 1 .. n : levels[i] = best[i]
  <2> HIDE DEF best, rest
  <2> QED BY <1>3, <1>4, Filled
<1>6. Flatten(legs, groups) = [j \in DOMAIN levels |-> ChunkOf(legs, groups, levels[j])]
  BY DEF Flatten, Chunks
<1>7. DOMAIN levels = 1 .. Len(levels) /\ Len(levels) \in Nat
      /\ \A j \in DOMAIN levels : levels[j] \in Usable(legs)
  <2> HIDE DEF levels
  <2> QED BY <1>5, LenProperties
<1>8. \A j \in DOMAIN levels : /\ ChunkOf(legs, groups, levels[j]) \in ChunkTypes(legs, n)
                               /\ PricedFrom(legs, groups, ChunkOf(legs, groups, levels[j]))
  <2> HIDE DEF levels
  <2> QED BY <1>7, ChunkOfLevel
<1> DEFINE chunks == Flatten(legs, groups)
           k == Len(levels)
<1>9. chunks \in Seq(ChunkTypes(legs, n)) /\ Len(chunks) = k /\ DOMAIN chunks = 1 .. k
  <2>1. chunks \in [1 .. k -> ChunkTypes(legs, n)]
    <3> HIDE DEF levels, n
    <3> QED BY <1>6, <1>7, <1>8
  <2> HIDE DEF chunks, levels, n
  <2> QED BY <1>7, <2>1, SequenceOf
<1>10. Sized(legs, groups, chunks)
  <2>1. \A j \in DOMAIN chunks : PricedFrom(legs, groups, chunks[j])
    <3> HIDE DEF levels
    <3> QED BY <1>6, <1>7, <1>8, <1>9
  <2> HIDE DEF chunks, levels
  <2> QED BY <1>5, <1>9, <2>1 DEF Sized
<1>11. \A g \in DOMAIN groups : chunks[g] = ChunkOf(legs, groups, BestLevel(legs, groups[g]))
  <2>1. TAKE g \in DOMAIN groups
  <2>2. g \in DOMAIN levels /\ levels[g] = best[g]
    <3> HIDE DEF levels, best
    <3> QED BY <1>1, <1>5, <1>7
  <2>3. chunks[g] = ChunkOf(legs, groups, levels[g])
    <3> HIDE DEF levels
    <3> QED BY <1>6, <2>2
  <2>4. levels[g] = BestLevel(legs, groups[g])
    BY <2>2
  <2> HIDE DEF levels
  <2> QED BY <2>3, <2>4
<1> QED BY <1>10, <1>11

(***************************************************************************)
(* Plans: every stake that the code gives a chunk is an amount that rests  *)
(* at its level                                                            *)
(***************************************************************************)

\* What the sizing relies on: prices and increments are positive.
Priced(chunks, n) ==
    /\ n \in Nat \ {0} /\ IsFiniteSet(DOMAIN chunks) /\ 1 .. n \subseteq DOMAIN chunks
    /\ DOMAIN chunks \subseteq Nat
    /\ \A j \in DOMAIN chunks :
          /\ chunks[j].group \in 1 .. n
          /\ chunks[j].price \in Nat \ {0} /\ chunks[j].increment \in Nat \ {0}
          /\ chunks[j].capacity \in Nat /\ chunks[j].resting \in Nat
          /\ chunks[j].capacity <= chunks[j].resting

\* A payout is an amount.
LEMMA PayoutType ==
    ASSUME NEW chunks, NEW n, Priced(chunks, n), NEW j \in DOMAIN chunks, NEW stake \in Nat
    PROVE  Payout(chunks[j], stake) \in Nat
<1>1. PPM \in Nat /\ chunks[j].price \in Nat \ {0}
  BY UnitsArePositive DEF Priced
<1>2. stake * PPM \in Nat
  BY <1>1, ProductNat
<1> QED BY <1>1, <1>2, QuotientNat DEF Payout

\* So is what several chunks pay.
LEMMA PaidByType ==
    ASSUME NEW chunks, NEW n, Priced(chunks, n), NEW S, S \subseteq DOMAIN chunks,
           NEW stakes, \A j \in S : stakes[j] \in Nat
    PROVE  PaidBy(chunks, stakes, S) \in Nat
<1> DEFINE f == [j \in S |-> Payout(chunks[j], stakes[j])]
<1>1. \A j \in S : f[j] \in Nat
  BY PayoutType
<1>2. IsFiniteSet(S)
  BY FS_Subset DEF Priced
<1>3. PaidBy(chunks, stakes, S) = SumFunctionOnSet(f, S)
  BY DEF PaidBy, SumFunction
<1> HIDE DEF f
<1> QED BY <1>1, <1>2, <1>3, SumNotNegative

\* What a chunk is asked for is an amount.
LEMMA NeedType ==
    ASSUME NEW chunks, NEW n, Priced(chunks, n), NEW active, active \subseteq DOMAIN chunks,
           NEW remaining \in Nat, NEW j \in active
    PROVE  Need(chunks, active, remaining, j) \in Nat
<1> DEFINE f == [k \in active |-> chunks[k].price]
           sum == SumFunction(f)
           c == chunks[j]
           share == CeilDiv(remaining * c.price, sum)
<1>1. sum \in Nat \ {0}
  <2>1. IsFiniteSet(active) /\ active # {} /\ \A k \in active : f[k] \in Nat \ {0}
    BY FS_Subset DEF Priced
  <2>2. sum = SumFunctionOnSet(f, active)
    BY DEF SumFunction
  <2> HIDE DEF f, sum
  <2> QED BY <2>1, <2>2, PositiveSum
<1>2. c.price \in Nat \ {0} /\ c.increment \in Nat \ {0} /\ PPM \in Nat \ {0}
  BY UnitsArePositive DEF Priced
<1>3. Need(chunks, active, remaining, j) = RoundUpTo(CeilDiv(share * c.price, PPM), c.increment)
  BY DEF Need
<1> HIDE DEF sum, f, c
<1>4. share \in Nat
  <2>1. remaining * c.price \in Nat
    BY <1>2, ProductNat
  <2> QED BY <1>1, <2>1, Ceiling
<1> HIDE DEF share
<1>5. CeilDiv(share * c.price, PPM) \in Nat
  <2>1. share * c.price \in Nat
    BY <1>2, <1>4, ProductNat
  <2> QED BY <1>2, <2>1, Ceiling
<1> QED BY <1>2, <1>3, <1>5, StepsUp

\* Stakes on some chunks within what they take.
Within(chunks, members) == {s \in [members -> Nat] : \A j \in members : s[j] <= chunks[j].capacity}

\* A state of the split of a target over the chunks of an outcome.
Splitting(chunks, members) ==
    [stakes : Within(chunks, members), active : SUBSET members, remaining : Int, done : BOOLEAN]

\* A round of the split stakes nothing beyond a chunk's capacity.
LEMMA SplitRoundType ==
    ASSUME NEW chunks, NEW n, Priced(chunks, n), NEW members, members \subseteq DOMAIN chunks,
           NEW target \in Int, NEW s \in Splitting(chunks, members)
    PROVE  SplitRound(chunks, target, s) \in Splitting(chunks, members)
<1>1. /\ s.stakes \in Within(chunks, members) /\ s.active \subseteq members
      /\ s.remaining \in Int /\ s.done \in BOOLEAN
      /\ s = [stakes |-> s.stakes, active |-> s.active, remaining |-> s.remaining, done |-> s.done]
  BY DEF Splitting
<1>0. /\ s.stakes \in [members -> Nat] /\ DOMAIN s.stakes = members
      /\ \A j \in members : /\ s.stakes[j] \in Nat /\ s.stakes[j] <= chunks[j].capacity
                            /\ chunks[j].capacity \in Nat
  <2>1. \A j \in members : chunks[j].capacity \in Nat
    BY DEF Priced
  <2> QED BY <1>1, <2>1 DEF Within
<1>2. CASE s.active = {} \/ s.done
  BY <1>2 DEF SplitRound
<1>3. CASE ~(s.active = {} \/ s.done) /\ s.remaining <= 0
  <2> DEFINE zeroed == [j \in DOMAIN s.stakes |-> IF j \in s.active THEN 0 ELSE s.stakes[j]]
  <2>1. SplitRound(chunks, target, s) = [s EXCEPT !.done = TRUE, !.stakes = zeroed]
    BY <1>3 DEF SplitRound
  <2>2. zeroed \in Within(chunks, members)
    BY <1>0 DEF Within
  <2> HIDE DEF zeroed
  <2> QED BY <1>1, <2>1, <2>2 DEF Splitting
<1>4. CASE ~(s.active = {} \/ s.done) /\ ~(s.remaining <= 0)
  <2> DEFINE need == [j \in s.active |-> Need(chunks, s.active, s.remaining, j)]
             capped == {j \in s.active : need[j] > chunks[j].capacity}
             stakes == [j \in DOMAIN s.stakes |->
                          IF j \in capped THEN chunks[j].capacity
                          ELSE IF j \in s.active THEN need[j] ELSE s.stakes[j]]
             frozen == DOMAIN stakes \ (s.active \ capped)
  <2>1. SplitRound(chunks, target, s) = Freeze(chunks, target, s, need, capped)
    BY <1>4 DEF SplitRound
  <2>2. \A j \in s.active : need[j] \in Nat
    <3>1. s.remaining \in Nat /\ s.active \subseteq DOMAIN chunks
      BY <1>1, <1>4
    <3> QED BY <3>1, NeedType
  <2>3. capped \subseteq s.active /\ \A j \in s.active \ capped : need[j] <= chunks[j].capacity
    <3>1. \A j \in s.active : chunks[j].capacity \in Nat
      BY <1>0, <1>1
    <3> HIDE DEF need
    <3> QED BY <2>2, <3>1
  <2> HIDE DEF need, capped
  <2>4. stakes \in Within(chunks, members)
    <3>1. \A j \in members : stakes[j] \in Nat /\ stakes[j] <= chunks[j].capacity
      BY <1>0, <2>2, <2>3
    <3>2. stakes \in [members -> Nat]
      BY <1>0, <3>1
    <3> HIDE DEF stakes
    <3> QED BY <3>1, <3>2 DEF Within
  <2>5. Freeze(chunks, target, s, need, capped) =
          [stakes |-> stakes, active |-> s.active \ capped,
           remaining |-> target - PaidBy(chunks, stakes, frozen), done |-> capped = {}]
    BY DEF Freeze
  <2>6. PaidBy(chunks, stakes, frozen) \in Nat
    <3>1. frozen \subseteq DOMAIN chunks /\ \A j \in frozen : stakes[j] \in Nat
      <4> HIDE DEF stakes
      <4> QED BY <2>4 DEF Within
    <3> HIDE DEF stakes, frozen
    <3> QED BY <3>1, PaidByType
  <2>7. s.active \ capped \in SUBSET members /\ target - PaidBy(chunks, stakes, frozen) \in Int
        /\ (capped = {}) \in BOOLEAN
    <3> HIDE DEF stakes, frozen
    <3> QED BY <1>1, <2>6
  <2> HIDE DEF stakes, frozen
  <2> QED BY <2>1, <2>4, <2>5, <2>7 DEF Splitting
<1> QED BY <1>2, <1>3, <1>4

\* Where the split starts.
SplitStart(members, target) ==
    [stakes |-> [j \in members |-> 0], active |-> members, remaining |-> target, done |-> FALSE]

\* The rounds of a split.
Splits(chunks, members, target, split) ==
    split = [i \in 0 .. Cardinality(members) |->
               IF i = 0 THEN SplitStart(members, target)
               ELSE SplitRound(chunks, target, split[i - 1])]

\* The split is the last of its rounds.
LEMMA SplitIsRecursive ==
    ASSUME NEW chunks, NEW members, NEW target
    PROVE  Split(chunks, members, target) =
             (CHOOSE split : Splits(chunks, members, target, split))[Cardinality(members)].stakes
BY DEF Split, Splits, SplitStart

\* The split stakes nothing beyond a chunk's capacity.
LEMMA SplitType ==
    ASSUME NEW chunks, NEW n, Priced(chunks, n), NEW members, members \subseteq DOMAIN chunks,
           NEW target \in Int
    PROVE  Split(chunks, members, target) \in Within(chunks, members)
<1> DEFINE A == Splitting(chunks, members)
           a == SplitStart(members, target)
           m == Cardinality(members)
           F == [s \in A |-> SplitRound(chunks, target, s)]
           split == CHOOSE g : Splits(chunks, members, target, g)
<1>1. IsFiniteSet(members) /\ m \in Nat
  BY FS_Subset, FS_CardinalityType DEF Priced
<1>2. a \in A
  <2>1. [j \in members |-> 0] \in Within(chunks, members)
    BY DEF Within, Priced
  <2> QED BY <2>1 DEF Splitting, SplitStart
<1>3. F \in [A -> A]
  BY SplitRoundType
<1>4. \E g : Splits(chunks, members, target, g)
  <2>1. \E g : Repeats(g, A, a, F, m)
    <3> HIDE DEF A, a, F, m, split
    <3> QED BY <1>1, <1>2, <1>3, Iterates
  <2>2. PICK g : /\ g \in [0 .. m -> A]
                 /\ g = [i \in 0 .. m |-> IF i = 0 THEN a ELSE F[g[i - 1]]]
    BY <2>1 DEF Repeats
  <2>3. \A i \in 0 .. m : i # 0 => g[i - 1] \in A /\ F[g[i - 1]] = SplitRound(chunks, target, g[i - 1])
    <3>1. \A i \in 0 .. m : i # 0 => i - 1 \in 0 .. m
      BY <1>1
    <3>2. \A i \in 0 .. m : i # 0 => g[i - 1] \in A
      <4>1. g \in [0 .. m -> A]
        BY <2>2
      <4> HIDE DEF A, m
      <4> QED BY <3>1, <4>1
    <3> HIDE DEF A, m
    <3> QED BY <3>2
  <2>4. g = [i \in 0 .. m |-> IF i = 0 THEN a ELSE SplitRound(chunks, target, g[i - 1])]
    <3> HIDE DEF A, a, F, m
    <3> QED BY <2>2, <2>3
  <2> QED BY <2>4 DEF Splits
<1>5. split = [i \in 0 .. m |-> IF i = 0 THEN a ELSE SplitRound(chunks, target, split[i - 1])]
  <2>1. Splits(chunks, members, target, split)
    BY <1>4
  <2> HIDE DEF split
  <2> QED BY <2>1 DEF Splits
<1> HIDE DEF split, a
<1>6. \A i \in 0 .. m : split[i] \in A
  <2> DEFINE T == {i \in 0 .. m : split[i] \in A}
  <2>1. 0 \in T
    <3>1. 0 \in 0 .. m
      BY <1>1
    <3> HIDE DEF A, m
    <3> QED BY <1>2, <1>5, <3>1
  <2>2. \A i \in 0 .. m - 1 : i \in T => i + 1 \in T
    <3>1. TAKE i \in 0 .. m - 1
    <3>2. HAVE i \in T
    <3>3. i + 1 \in 0 .. m /\ i + 1 # 0 /\ (i + 1) - 1 = i
      BY <1>1
    <3> HIDE DEF m
    <3>4. split[i + 1] = SplitRound(chunks, target, split[i])
      BY <1>5, <3>3
    <3>5. SplitRound(chunks, target, split[i]) \in A
      BY <3>2, SplitRoundType
    <3> QED BY <3>3, <3>4, <3>5
  <2>3. \A i \in 0 .. m : i \in T
    <3> HIDE DEF T, m
    <3> QED BY <1>1, <2>1, <2>2, CountUp
  <2> QED BY <2>3
<1>7. m \in 0 .. m
  BY <1>1
<1>8. split[m] \in Splitting(chunks, members)
  BY <1>6, <1>7
<1>9. Split(chunks, members, target) = split[m].stakes
  BY SplitIsRecursive DEF split
<1> HIDE DEF m
<1> QED BY <1>8, <1>9 DEF Splitting

\* The rounds of a repair.
Repairs(chunks, target, stakes, repair) ==
    repair = [i \in 0 .. Cardinality(DOMAIN stakes) |->
               IF i = 0 THEN stakes ELSE RepairRound(chunks, target, repair[i - 1])]

\* The repair is the last of its rounds.
LEMMA RepairIsRecursive ==
    ASSUME NEW chunks, NEW target, NEW stakes
    PROVE  Repair(chunks, target, stakes) =
             (CHOOSE repair : Repairs(chunks, target, stakes, repair))[Cardinality(DOMAIN stakes)]
BY DEF Repair, Repairs

\* A repair stakes nothing beyond a chunk's capacity.
LEMMA RepairType ==
    ASSUME NEW chunks, NEW n, Priced(chunks, n), NEW members, members \subseteq DOMAIN chunks,
           NEW target, NEW stakes \in Within(chunks, members)
    PROVE  Repair(chunks, target, stakes) \in Within(chunks, members)
<1> DEFINE A == Within(chunks, members)
           m == Cardinality(members)
           F == [s \in A |-> RepairRound(chunks, target, s)]
           repair == CHOOSE g : Repairs(chunks, target, stakes, g)
<1>1. IsFiniteSet(members) /\ m \in Nat /\ DOMAIN stakes = members
  BY FS_Subset, FS_CardinalityType DEF Priced, Within
<1>2. \A s \in A : RepairRound(chunks, target, s) \in A
  <2>1. TAKE s \in A
  <2> DEFINE grow == IF PaidBy(chunks, s, DOMAIN s) >= target THEN {} ELSE BestStep(chunks, s)
  <2>2. RepairRound(chunks, target, s) =
          [j \in DOMAIN s |-> s[j] + (IF j \in grow THEN chunks[j].increment ELSE 0)]
    BY DEF RepairRound
  <2>4. \A j \in grow : s[j] + chunks[j].increment <= chunks[j].capacity
    BY DEF BestStep
  <2> HIDE DEF grow
  <2>3. /\ s \in [members -> Nat]
        /\ \A j \in members : /\ s[j] \in Nat /\ s[j] <= chunks[j].capacity
                              /\ chunks[j].increment \in Nat
    BY DEF Priced, Within
  <2> QED BY <2>2, <2>3, <2>4 DEF Within
<1>3. F \in [A -> A]
  <2> HIDE DEF A
  <2> QED BY <1>2
<1>4. \E g : Repairs(chunks, target, stakes, g)
  <2>1. \E g : Repeats(g, A, stakes, F, m)
    <3>1. stakes \in A
      OBVIOUS
    <3> HIDE DEF A, F, m, repair
    <3> QED BY <1>1, <1>3, <3>1, Iterates
  <2>2. PICK g : /\ g \in [0 .. m -> A]
                 /\ g = [i \in 0 .. m |-> IF i = 0 THEN stakes ELSE F[g[i - 1]]]
    BY <2>1 DEF Repeats
  <2>3. \A i \in 0 .. m : i # 0 => F[g[i - 1]] = RepairRound(chunks, target, g[i - 1])
    <3>1. \A i \in 0 .. m : i # 0 => i - 1 \in 0 .. m
      BY <1>1
    <3>2. \A i \in 0 .. m : i # 0 => g[i - 1] \in A
      <4>1. g \in [0 .. m -> A]
        BY <2>2
      <4> HIDE DEF A, m
      <4> QED BY <3>1, <4>1
    <3> HIDE DEF A, m
    <3> QED BY <3>2
  <2>4. g = [i \in 0 .. m |-> IF i = 0 THEN stakes ELSE RepairRound(chunks, target, g[i - 1])]
    <3> HIDE DEF A, F, m
    <3> QED BY <2>2, <2>3
  <2> QED BY <1>1, <2>4 DEF Repairs
<1>5. repair = [i \in 0 .. m |-> IF i = 0 THEN stakes ELSE RepairRound(chunks, target, repair[i - 1])]
  <2>1. Repairs(chunks, target, stakes, repair)
    BY <1>4
  <2> HIDE DEF repair
  <2> QED BY <1>1, <2>1 DEF Repairs
<1> HIDE DEF repair
<1>6. \A i \in 0 .. m : repair[i] \in A
  <2> DEFINE T == {i \in 0 .. m : repair[i] \in A}
  <2>1. 0 \in T
    <3>1. 0 \in 0 .. m
      BY <1>1
    <3> HIDE DEF m
    <3> QED BY <1>5, <3>1
  <2>2. \A i \in 0 .. m - 1 : i \in T => i + 1 \in T
    <3>1. TAKE i \in 0 .. m - 1
    <3>2. HAVE i \in T
    <3>3. i + 1 \in 0 .. m /\ i + 1 # 0 /\ (i + 1) - 1 = i
      BY <1>1
    <3> HIDE DEF m
    <3>4. repair[i + 1] = RepairRound(chunks, target, repair[i])
      BY <1>5, <3>3
    <3>5. RepairRound(chunks, target, repair[i]) \in A
      <4> HIDE DEF A
      <4> QED BY <1>2, <3>2
    <3> QED BY <3>3, <3>4, <3>5
  <2>3. \A i \in 0 .. m : i \in T
    <3> HIDE DEF T, m
    <3> QED BY <1>1, <2>1, <2>2, CountUp
  <2> QED BY <2>3
<1>7. m \in 0 .. m
  BY <1>1
<1>8. repair[m] \in A
  BY <1>6, <1>7
<1>9. Repair(chunks, target, stakes) = repair[m]
  BY <1>1, RepairIsRecursive DEF repair
<1> HIDE DEF m
<1> QED BY <1>8, <1>9

\* A plan stakes on every chunk something, or nothing, of what rests there.
Plans(chunks) ==
    {s \in [DOMAIN chunks -> Nat] : \A j \in DOMAIN chunks : s[j] <= chunks[j].resting}

\* The plan for a payout stakes what rests at the levels.
LEMMA PlanForType ==
    ASSUME NEW chunks, NEW n, Priced(chunks, n), NEW target \in Int
    PROVE  PlanFor(chunks, n, target) \in Plans(chunks)
<1>1. \A g \in 1 .. n : Distribute(chunks, g, target) \in Within(chunks, Members(chunks, g))
  <2>1. TAKE g \in 1 .. n
  <2>2. Members(chunks, g) \subseteq DOMAIN chunks
    BY DEF Members
  <2>3. Split(chunks, Members(chunks, g), target) \in Within(chunks, Members(chunks, g))
    BY <2>2, SplitType
  <2> QED BY <2>2, <2>3, RepairType DEF Distribute
<1>2. \A j \in DOMAIN chunks : /\ chunks[j].group \in 1 .. n /\ j \in Members(chunks, chunks[j].group)
                               /\ chunks[j].capacity \in Nat /\ chunks[j].resting \in Nat
                               /\ chunks[j].capacity <= chunks[j].resting
  BY DEF Priced, Members
<1> DEFINE of == [g \in 1 .. n |-> Distribute(chunks, g, target)]
<1>3. \A j \in DOMAIN chunks : of[chunks[j].group][j] \in Nat /\ of[chunks[j].group][j] <= chunks[j].resting
  <2>1. TAKE j \in DOMAIN chunks
  <2>2. Distribute(chunks, chunks[j].group, target) \in Within(chunks, Members(chunks, chunks[j].group))
    BY <1>1, <1>2
  <2> DEFINE d == Distribute(chunks, chunks[j].group, target)
  <2>3. of[chunks[j].group] = d
    BY <1>2
  <2> HIDE DEF d, of
  <2>4. d[j] \in Nat /\ d[j] <= chunks[j].capacity
    BY <1>2, <2>2 DEF Within, d
  <2> QED BY <1>2, <2>3, <2>4
<1>4. PlanFor(chunks, n, target) = [j \in DOMAIN chunks |-> of[chunks[j].group][j]]
  BY DEF PlanFor
<1> HIDE DEF of
<1> QED BY <1>3, <1>4 DEF Plans

\* The guaranteed profit is what the worst outcome leaves.
LEMMA WorstOutcome ==
    ASSUME NEW chunks, NEW n, Priced(chunks, n), NEW stakes \in Plans(chunks)
    PROVE  /\ Total(stakes) \in Nat /\ Profit(chunks, n, stakes) \in Int
           /\ \A g \in 1 .. n : /\ GroupPayout(chunks, stakes, g) \in Nat
                                /\ GroupPayout(chunks, stakes, g) >= Total(stakes) + Profit(chunks, n, stakes)
           /\ \E g \in 1 .. n : GroupPayout(chunks, stakes, g) = Total(stakes) + Profit(chunks, n, stakes)
<1> DEFINE pay == [g \in 1 .. n |-> GroupPayout(chunks, stakes, g)]
           all == {pay[g] : g \in 1 .. n}
<1>1. \A g \in 1 .. n : pay[g] \in Nat
  <2>1. TAKE g \in 1 .. n
  <2>2. Members(chunks, g) \subseteq DOMAIN chunks /\ \A j \in Members(chunks, g) : stakes[j] \in Nat
    BY DEF Members, Plans
  <2> QED BY <2>2, PaidByType DEF GroupPayout
<1>2. Total(stakes) \in Nat
  <2>1. IsFiniteSet(DOMAIN chunks) /\ DOMAIN stakes = DOMAIN chunks /\ \A j \in DOMAIN stakes : stakes[j] \in Nat
    BY DEF Priced, Plans
  <2> QED BY <2>1, SumNotNegative DEF Total, SumFunction
<1>3. n \in Nat \ {0}
  BY DEF Priced
<1>4. IsFiniteSet(all) /\ all # {} /\ all \subseteq Int
  <2>1. IsFiniteSet(1 .. n) /\ 1 \in 1 .. n
    BY <1>3, FS_Interval
  <2>2. pay[1] \in all
    <3> HIDE DEF pay
    <3> QED BY <2>1
  <2>3. all = Values(pay, 1 .. n)
    BY DEF Values
  <2>4. IsFiniteSet(Values(pay, 1 .. n))
    <3> HIDE DEF pay
    <3> QED BY <2>1, ValuesFinite
  <2>5. all \subseteq Int
    <3> HIDE DEF pay
    <3> QED BY <1>1
  <2> HIDE DEF all
  <2> QED BY <2>2, <2>3, <2>4, <2>5
<1>5. Min(all) \in all /\ \A x \in all : Min(all) <= x
  <2> HIDE DEF all
  <2> QED BY <1>4, LeastOf
<1>6. Profit(chunks, n, stakes) = Min(all) - Total(stakes)
  <2>1. all = {GroupPayout(chunks, stakes, g) : g \in 1 .. n}
    OBVIOUS
  <2> HIDE DEF all
  <2> QED BY <2>1 DEF Profit
<1>7. \A g \in 1 .. n : GroupPayout(chunks, stakes, g) = pay[g] /\ pay[g] \in all
  OBVIOUS
<1>8. \E g \in 1 .. n : pay[g] = Min(all)
  <2> DEFINE m == Min(all)
  <2>1. m \in all
    BY <1>5
  <2> HIDE DEF m, pay
  <2>2. \E g \in 1 .. n : pay[g] = m
    BY <2>1
  <2> QED BY <2>2 DEF m
<1> HIDE DEF pay, all
<1>9. Min(all) \in Int
  BY <1>4, <1>5
<1>10. Total(stakes) + Profit(chunks, n, stakes) = Min(all) /\ Profit(chunks, n, stakes) \in Int
  <2> DEFINE t == Total(stakes)
             p == Profit(chunks, n, stakes)
             l == Min(all)
  <2>1. p = l - t /\ t \in Nat /\ l \in Int
    BY <1>2, <1>6, <1>9
  <2> HIDE DEF t, p, l
  <2>2. t + p = l /\ p \in Int
    BY <2>1
  <2> QED BY <2>2 DEF t, p, l
<1>11. \A g \in 1 .. n : /\ GroupPayout(chunks, stakes, g) \in Nat
                         /\ GroupPayout(chunks, stakes, g) >= Min(all)
  <2>1. TAKE g \in 1 .. n
  <2>2. GroupPayout(chunks, stakes, g) \in Nat /\ Min(all) <= GroupPayout(chunks, stakes, g)
    BY <1>1, <1>5, <1>7
  <2> QED BY <1>9, <2>2
<1> QED BY <1>2, <1>7, <1>8, <1>10, <1>11

(***************************************************************************)
(* The search: whatever it has found is the worst case of a plan, and it   *)
(* never trades it for a worse one                                         *)
(***************************************************************************)

\* What the search remembers of a plan.
Found(chunks, n, stakes) == [found |-> TRUE, profit |-> Profit(chunks, n, stakes), stakes |-> stakes]

\* What the search may hold: nothing, or a plan with its guaranteed profit.
Bests(chunks, n) == {NothingFound} \cup {Found(chunks, n, stakes) : stakes \in Plans(chunks)}

\* A best plan that is as good as another.
NoWorse(best, than) == than.found => best.found /\ best.profit >= than.profit

\* A best plan is a plan, with its own worst case as its profit.
LEMMA BestType ==
    ASSUME NEW chunks, NEW n, Priced(chunks, n), NEW best \in Bests(chunks, n)
    PROVE  /\ best.found \in BOOLEAN /\ best.profit \in Int
           /\ best.found => best.stakes \in Plans(chunks) /\ best = Found(chunks, n, best.stakes)
<1>1. CASE best = NothingFound
  BY <1>1 DEF NothingFound
<1>2. CASE best # NothingFound
  <2>1. PICK stakes \in Plans(chunks) : best = Found(chunks, n, stakes)
    BY <1>2 DEF Bests
  <2>2. Profit(chunks, n, stakes) \in Int
    BY WorstOutcome
  <2>3. best.found = TRUE /\ best.profit = Profit(chunks, n, stakes) /\ best.stakes = stakes
    BY <2>1 DEF Found
  <2> QED BY <2>1, <2>2, <2>3
<1> QED BY <1>1, <1>2

\* An offer is taken for its own worst case, and never for a worse one.
LEMMA OfferType ==
    ASSUME NEW chunks, NEW n, Priced(chunks, n), NEW best \in Bests(chunks, n),
           NEW stakes \in Plans(chunks)
    PROVE  /\ Offer(best, chunks, n, stakes) \in Bests(chunks, n)
           /\ NoWorse(Offer(best, chunks, n, stakes), best)
<1>1. best.found \in BOOLEAN /\ best.profit \in Int
  BY BestType
<1>2. Profit(chunks, n, stakes) \in Int
  BY WorstOutcome
<1>3. Offer(best, chunks, n, stakes) \in {best, Found(chunks, n, stakes)}
  BY DEF Offer, Found
<1>4. CASE Offer(best, chunks, n, stakes) = best
  BY <1>1, <1>4 DEF NoWorse
<1>5. CASE Offer(best, chunks, n, stakes) # best
  <2>1. Offer(best, chunks, n, stakes) = Found(chunks, n, stakes)
    BY <1>3, <1>5
  <2>2. ~best.found \/ Profit(chunks, n, stakes) > best.profit
    BY <1>5 DEF Offer
  <2>3. Found(chunks, n, stakes) \in Bests(chunks, n)
    BY DEF Bests
  <2>4. Found(chunks, n, stakes).found = TRUE /\ Found(chunks, n, stakes).profit = Profit(chunks, n, stakes)
    BY DEF Found
  <2>5. NoWorse(Found(chunks, n, stakes), best)
    BY <1>1, <1>2, <2>2, <2>4 DEF NoWorse
  <2> QED BY <2>1, <2>3, <2>5
<1> QED BY <1>4, <1>5

\* The search starts at a number.
LEMMA HighestType ==
    ASSUME NEW chunks, NEW n, Priced(chunks, n), NEW budget \in Int
    PROVE  Highest(chunks, n, budget) \in Int
<1> DEFINE price == [j \in DOMAIN chunks |-> chunks[j].price]
           prices == {chunks[j].price : j \in DOMAIN chunks}
           full == [j \in DOMAIN chunks |-> chunks[j].capacity]
           pay == [g \in 1 .. n |-> GroupPayout(chunks, full, g)]
           pays == {GroupPayout(chunks, full, g) : g \in 1 .. n}
           most == (budget * PPM) \div Min(prices)
<1>1. n \in Nat \ {0} /\ 1 \in DOMAIN chunks /\ PPM \in Nat
  BY UnitsArePositive DEF Priced
<1>2. Min(prices) \in Nat \ {0}
  <2>1. prices = Values(price, DOMAIN chunks)
    BY DEF Values
  <2>2. IsFiniteSet(prices)
    <3> HIDE DEF prices, price
    <3> QED BY <2>1, ValuesFinite DEF Priced
  <2>3. prices \subseteq Nat \ {0}
    BY DEF Priced
  <2>4. prices # {}
    BY <1>1
  <2>5. prices \subseteq Int
    BY <2>3
  <2> HIDE DEF prices
  <2>6. Min(prices) \in prices
    BY <2>2, <2>4, <2>5, LeastOf
  <2> QED BY <2>3, <2>6
<1>3. most \in Int
  <2>1. budget * PPM \in Int
    BY <1>1
  <2> HIDE DEF prices
  <2> QED BY <1>2, <2>1, Quotient
<1>4. full \in Plans(chunks)
  <2>1. \A j \in DOMAIN chunks : chunks[j].capacity \in Nat /\ chunks[j].capacity <= chunks[j].resting
    BY DEF Priced
  <2> QED BY <2>1 DEF Plans
<1>5. IsFiniteSet(pays) /\ pays \subseteq Int
  <2>1. pays = Values(pay, 1 .. n)
    BY DEF Values
  <2>2. IsFiniteSet(1 .. n)
    BY <1>1, FS_Interval
  <2>3. IsFiniteSet(pays)
    <3> HIDE DEF pays, pay
    <3> QED BY <2>1, <2>2, ValuesFinite
  <2>4. pays \subseteq Int
    <3> HIDE DEF full
    <3> QED BY <1>4, WorstOutcome
  <2> QED BY <2>3, <2>4
<1>6. Highest(chunks, n, budget) = Min({most} \cup pays)
  BY DEF Highest
<1> DEFINE all == {most} \cup pays
<1>7. IsFiniteSet(all) /\ all # {} /\ all \subseteq Int
  <2>1. IsFiniteSet({most})
    BY FS_Singleton
  <2> HIDE DEF most, pays
  <2> QED BY <1>3, <1>5, <2>1, FS_Union
<1>8. Min(all) \in all
  <2> HIDE DEF all
  <2> QED BY <1>7, LeastOf
<1> HIDE DEF all
<1> QED BY <1>6, <1>7, <1>8 DEF all

\* The closed form stakes what rests at the levels.
LEMMA ClosedFormType ==
    ASSUME NEW chunks, NEW n, Priced(chunks, n), NEW budget \in Nat, NEW overround \in Nat \ {0}
    PROVE  ClosedForm(chunks, n, budget, overround) \in Plans(chunks)
<1> DEFINE cap == [g \in 1 .. n |-> (chunks[g].resting * overround) \div chunks[g].price]
           caps == {(chunks[g].resting * overround) \div chunks[g].price : g \in 1 .. n}
           all == {budget} \cup caps
           ceiling == Min(all)
<1>1. n \in Nat /\ \A g \in 1 .. n : g \in DOMAIN chunks
  BY DEF Priced
<1>2. /\ ceiling \in Nat
      /\ \A g \in 1 .. n : ceiling <= (chunks[g].resting * overround) \div chunks[g].price
  <2>1. caps = Values(cap, 1 .. n)
    BY DEF Values
  <2>2. IsFiniteSet(1 .. n)
    BY <1>1, FS_Interval
  <2>3. IsFiniteSet(caps)
    <3> HIDE DEF cap, caps
    <3> QED BY <2>1, <2>2, ValuesFinite
  <2>4. \A g \in 1 .. n : (chunks[g].resting * overround) \div chunks[g].price \in Nat
    <3>1. TAKE g \in 1 .. n
    <3> DEFINE rest == chunks[g].resting
               price == chunks[g].price
    <3>2. rest \in Nat /\ price \in Nat \ {0}
      BY <1>1 DEF Priced
    <3> HIDE DEF rest, price
    <3>3. rest * overround \in Nat
      BY <3>2, ProductNat
    <3>4. (rest * overround) \div price \in Nat
      BY <3>2, <3>3, QuotientNat
    <3> QED BY <3>4 DEF rest, price
  <2>5. caps \subseteq Nat
    BY <2>4
  <2>6. IsFiniteSet({budget})
    BY FS_Singleton
  <2>7. IsFiniteSet(all) /\ all # {} /\ all \subseteq Nat /\ all \subseteq Int
    <3> HIDE DEF caps
    <3>1. IsFiniteSet(all)
      BY <2>3, <2>6, FS_Union
    <3> QED BY <2>5, <3>1
  <2>8. \A g \in 1 .. n : (chunks[g].resting * overround) \div chunks[g].price \in all
    OBVIOUS
  <2> HIDE DEF all
  <2>9. Min(all) \in all /\ \A x \in all : Min(all) <= x
    BY <2>7, LeastOf
  <2> QED BY <2>7, <2>8, <2>9
<1>3. ClosedForm(chunks, n, budget, overround) =
        [j \in DOMAIN chunks |->
            IF j \in 1 .. n
            THEN RoundDownTo((ceiling * chunks[j].price) \div overround, chunks[j].increment) ELSE 0]
  BY DEF ClosedForm
<1> HIDE DEF ceiling
<1>4. \A j \in DOMAIN chunks :
        LET stake == RoundDownTo((ceiling * chunks[j].price) \div overround, chunks[j].increment)
        IN  stake \in Nat /\ chunks[j].resting \in Nat /\ (j \in 1 .. n => stake <= chunks[j].resting)
  <2>1. TAKE j \in DOMAIN chunks
  <2> DEFINE price == chunks[j].price
             step == chunks[j].increment
             rest == chunks[j].resting
             x == (ceiling * price) \div overround
             stake == RoundDownTo(x, step)
  <2>2. price \in Nat \ {0} /\ step \in Nat \ {0} /\ rest \in Nat
    BY DEF Priced
  <2>3. j \in 1 .. n => ceiling <= (rest * overround) \div price
    BY <1>2
  <2> HIDE DEF price, step, rest
  <2>4. x \in Nat
    <3>1. ceiling * price \in Nat
      BY <1>2, <2>2, ProductNat
    <3> QED BY <3>1, QuotientNat
  <2>5. j \in 1 .. n => x <= rest
    <3>1. ceiling \in Int
      BY <1>2
    <3> QED BY <2>2, <2>3, <3>1, ShareFits
  <2> HIDE DEF x
  <2>6. stake \in Nat /\ stake <= x
    BY <2>2, <2>4, WholeSteps
  <2> HIDE DEF stake
  <2>7. stake \in Nat /\ rest \in Nat /\ (j \in 1 .. n => stake <= rest)
    BY <2>2, <2>4, <2>5, <2>6
  <2> QED BY <2>7 DEF stake, x, price, step, rest
<1>5. \A j \in DOMAIN chunks :
        /\ ClosedForm(chunks, n, budget, overround)[j] \in Nat
        /\ ClosedForm(chunks, n, budget, overround)[j] <= chunks[j].resting
  BY <1>3, <1>4
<1>6. ClosedForm(chunks, n, budget, overround) =
        [j \in DOMAIN chunks |-> ClosedForm(chunks, n, budget, overround)[j]]
  BY <1>3
<1> QED BY <1>5, <1>6 DEF Plans

\* So does what is offered of it.
LEMMA OfferClosedFormType ==
    ASSUME NEW chunks, NEW n, Priced(chunks, n), NEW budget \in Nat, NEW overround \in Nat \ {0}
    PROVE  OfferClosedForm(chunks, n, budget, overround) \in Bests(chunks, n)
<1>1. NothingFound \in Bests(chunks, n)
  BY DEF Bests
<1>2. ClosedForm(chunks, n, budget, overround) \in Plans(chunks)
  BY ClosedFormType
<1>3. Offer(NothingFound, chunks, n, ClosedForm(chunks, n, budget, overround)) \in Bests(chunks, n)
  BY <1>1, <1>2, OfferType
<1> QED BY <1>1, <1>3 DEF OfferClosedForm

\* The states of the search: an interval, and a best that never gets worse.
Searching(chunks, n, first) ==
    [low : Int, high : Int, best : {b \in Bests(chunks, n) : NoWorse(b, first)}]

\* A probe keeps a plan that is no worse than the first one.
LEMMA ProbeType ==
    ASSUME NEW chunks, NEW n, Priced(chunks, n), NEW budget, NEW first \in Bests(chunks, n),
           NEW s \in Searching(chunks, n, first)
    PROVE  Probe(chunks, n, budget, s) \in Searching(chunks, n, first)
<1> DEFINE mid == s.low + (s.high - s.low + 1) \div 2
           stakes == PlanFor(chunks, n, mid)
<1>1. /\ s.low \in Int /\ s.high \in Int /\ s.best \in Bests(chunks, n) /\ NoWorse(s.best, first)
      /\ s = [low |-> s.low, high |-> s.high, best |-> s.best]
  BY DEF Searching
<1>2. mid \in Int
  BY <1>1, Quotient
<1> HIDE DEF mid
<1>3. Offer(s.best, chunks, n, stakes) \in Bests(chunks, n) /\ NoWorse(Offer(s.best, chunks, n, stakes), first)
  <2>1. stakes \in Plans(chunks)
    BY <1>2, PlanForType
  <2> HIDE DEF stakes
  <2> DEFINE b == Offer(s.best, chunks, n, stakes)
  <2>2. b \in Bests(chunks, n) /\ NoWorse(b, s.best)
    BY <1>1, <2>1, OfferType
  <2> HIDE DEF b
  <2>3. /\ b.found \in BOOLEAN /\ b.profit \in Int /\ s.best.found \in BOOLEAN /\ s.best.profit \in Int
        /\ first.found \in BOOLEAN /\ first.profit \in Int
    BY <1>1, <2>2, BestType
  <2>4. NoWorse(b, first)
    BY <1>1, <2>2, <2>3 DEF NoWorse
  <2> QED BY <2>2, <2>4 DEF b
<1> DEFINE next == Offer(s.best, chunks, n, stakes)
<1>4. Probe(chunks, n, budget, s) \in
        {s, [low |-> mid, high |-> s.high, best |-> next], [low |-> s.low, high |-> mid - 1, best |-> s.best]}
  BY <1>1 DEF Probe, Narrow, mid
<1> HIDE DEF next
<1> QED BY <1>1, <1>2, <1>3, <1>4 DEF Searching, next

\* The probes of a search.
Probes(chunks, n, budget, overround, probe) ==
    probe = [i \in 0 .. MAX_SEARCH_STEPS |->
               IF i = 0
               THEN [low |-> 0, high |-> Highest(chunks, n, budget),
                     best |-> OfferClosedForm(chunks, n, budget, overround)]
               ELSE Probe(chunks, n, budget, probe[i - 1])]

\* The search answers with the best of its last probe.
LEMMA SearchIsRecursive ==
    ASSUME NEW chunks, NEW n, NEW budget, NEW overround
    PROVE  Search(chunks, n, budget, overround) =
             (CHOOSE probe : Probes(chunks, n, budget, overround, probe))[MAX_SEARCH_STEPS].best
BY DEF Search, Probes

\* The search returns a plan, and none worse than the one it starts from.
LEMMA SearchType ==
    ASSUME NEW chunks, NEW n, Priced(chunks, n), NEW budget \in Nat, NEW overround \in Nat \ {0}
    PROVE  /\ Search(chunks, n, budget, overround) \in Bests(chunks, n)
           /\ NoWorse(Search(chunks, n, budget, overround), OfferClosedForm(chunks, n, budget, overround))
<1> DEFINE first == OfferClosedForm(chunks, n, budget, overround)
           A == Searching(chunks, n, first)
           a == [low |-> 0, high |-> Highest(chunks, n, budget), best |-> first]
           m == MAX_SEARCH_STEPS
           F == [s \in A |-> Probe(chunks, n, budget, s)]
           probe == CHOOSE g : Probes(chunks, n, budget, overround, g)
<1>1. m \in Nat
  BY DetectionBounds
<1>2. first \in Bests(chunks, n)
  BY OfferClosedFormType
<1>3. a \in A
  <2>1. first.found \in BOOLEAN /\ first.profit \in Int
    BY <1>2, BestType
  <2>2. Highest(chunks, n, budget) \in Int
    BY HighestType
  <2> HIDE DEF first
  <2>3. NoWorse(first, first)
    BY <2>1 DEF NoWorse
  <2> QED BY <1>2, <2>2, <2>3 DEF Searching
<1>4. \A s \in A : Probe(chunks, n, budget, s) \in A
  <2> HIDE DEF first
  <2> QED BY <1>2, ProbeType
<1>5. F \in [A -> A]
  <2> HIDE DEF A
  <2> QED BY <1>4
<1>6. \E g : Probes(chunks, n, budget, overround, g)
  <2>1. \E g : Repeats(g, A, a, F, m)
    <3> HIDE DEF A, a, F, m, probe
    <3> QED BY <1>1, <1>3, <1>5, Iterates
  <2>2. PICK g : /\ g \in [0 .. m -> A]
                 /\ g = [i \in 0 .. m |-> IF i = 0 THEN a ELSE F[g[i - 1]]]
    BY <2>1 DEF Repeats
  <2>3. \A i \in 0 .. m : i # 0 => F[g[i - 1]] = Probe(chunks, n, budget, g[i - 1])
    <3>1. \A i \in 0 .. m : i # 0 => i - 1 \in 0 .. m
      BY <1>1
    <3>2. \A i \in 0 .. m : i # 0 => g[i - 1] \in A
      <4>1. g \in [0 .. m -> A]
        BY <2>2
      <4> HIDE DEF A, m
      <4> QED BY <3>1, <4>1
    <3> HIDE DEF A, m
    <3> QED BY <3>2
  <2>4. g = [i \in 0 .. m |-> IF i = 0 THEN a ELSE Probe(chunks, n, budget, g[i - 1])]
    <3> HIDE DEF A, a, F, m
    <3> QED BY <2>2, <2>3
  <2> QED BY <2>4 DEF Probes
<1>7. probe = [i \in 0 .. m |-> IF i = 0 THEN a ELSE Probe(chunks, n, budget, probe[i - 1])]
  <2>1. Probes(chunks, n, budget, overround, probe)
    BY <1>6
  <2> HIDE DEF probe
  <2> QED BY <2>1 DEF Probes
<1> HIDE DEF probe, a
<1>8. \A i \in 0 .. m : probe[i] \in A
  <2> DEFINE T == {i \in 0 .. m : probe[i] \in A}
  <2>1. 0 \in T
    <3>1. 0 \in 0 .. m
      BY <1>1
    <3> HIDE DEF m, A
    <3> QED BY <1>3, <1>7, <3>1
  <2>2. \A i \in 0 .. m - 1 : i \in T => i + 1 \in T
    <3>1. TAKE i \in 0 .. m - 1
    <3>2. HAVE i \in T
    <3>3. i + 1 \in 0 .. m /\ i + 1 # 0 /\ (i + 1) - 1 = i
      BY <1>1
    <3> HIDE DEF m
    <3>4. probe[i + 1] = Probe(chunks, n, budget, probe[i])
      BY <1>7, <3>3
    <3>5. Probe(chunks, n, budget, probe[i]) \in A
      <4> HIDE DEF A
      <4> QED BY <1>4, <3>2
    <3> QED BY <3>3, <3>4, <3>5
  <2>3. \A i \in 0 .. m : i \in T
    <3> HIDE DEF T, m
    <3> QED BY <1>1, <2>1, <2>2, CountUp
  <2> QED BY <2>3
<1>9. m \in 0 .. m
  BY <1>1
<1>10. probe[m] \in A
  BY <1>8, <1>9
<1>11. Search(chunks, n, budget, overround) = probe[m].best
  BY SearchIsRecursive DEF probe
<1> HIDE DEF m, first
<1> QED BY <1>10, <1>11 DEF Searching, first

(***************************************************************************)
(* What a report promises: the allocations pay, in every outcome, all that *)
(* is staked and the reported profit                                       *)
(***************************************************************************)

\* The stakes of a signal.
StakeOf(signal) == [a \in DOMAIN signal.allocations |-> signal.allocations[a].stake]

\* The payouts of a signal.
PayoutOf(signal) == [a \in DOMAIN signal.allocations |-> signal.allocations[a].payout]

\* The allocations of a signal that settle with an outcome.
AllocatedTo(legs, signal, outcome) ==
    {a \in DOMAIN signal.allocations : legs[signal.allocations[a].leg].outcome = outcome}

\* An allocation stakes something on a leg, at the price of one of its levels.
AllocatesAt(legs, allocation) ==
    /\ allocation.leg \in DOMAIN legs /\ allocation.stake \in Nat \ {0}
    /\ allocation.payout \in Nat
    /\ \E l \in DOMAIN legs[allocation.leg].levels :
          /\ allocation.payout = (allocation.stake * PPM) \div EffectivePpm(legs[allocation.leg], l)
          /\ allocation.stake <= legs[allocation.leg].levels[l].size

\* A signal on legs whose allocations pay what it promises.
Promises(legs, signal) ==
    /\ \E k \in Nat : signal.allocations \in [1 .. k -> Values(signal.allocations, 1 .. k)]
    /\ signal.worst_case_profit \in Nat \ {0}
    /\ \A a \in DOMAIN signal.allocations : AllocatesAt(legs, signal.allocations[a])
    /\ \A i \in DOMAIN legs :
          SumFunctionOnSet(PayoutOf(signal), AllocatedTo(legs, signal, legs[i].outcome)) >=
              SumFunctionOnSet(StakeOf(signal), DOMAIN signal.allocations) + signal.worst_case_profit

\* Chunks priced from legs can be planned with.
LEMMA SizedIsPriced ==
    ASSUME NEW legs \in Seq(BookLegs), NEW groups, groups = Outcomes(legs), Len(groups) \in Nat \ {0},
           NEW chunks, Sized(legs, groups, chunks)
    PROVE  Priced(chunks, Len(groups))
<1> DEFINE n == Len(groups)
<1>1. /\ Len(chunks) \in Nat /\ DOMAIN chunks = 1 .. Len(chunks) /\ n <= Len(chunks) /\ n \in Nat \ {0}
      /\ \A j \in DOMAIN chunks : chunks[j] \in ChunkTypes(legs, n)
  BY LenProperties DEF Sized
<1>2. IsFiniteSet(DOMAIN chunks)
  BY <1>1, FS_Interval
<1>3. \A j \in DOMAIN chunks :
          /\ chunks[j].group \in 1 .. n
          /\ chunks[j].price \in Nat \ {0} /\ chunks[j].increment \in Nat \ {0}
          /\ chunks[j].capacity \in Nat /\ chunks[j].resting \in Nat
          /\ chunks[j].capacity <= chunks[j].resting
  <2>1. TAKE j \in DOMAIN chunks
  <2>2. chunks[j] \in ChunkTypes(legs, n)
    BY <1>1
  <2>3. chunks[j].capacity <= chunks[j].resting
    BY DEF Sized, PricedFrom
  <2> QED BY <2>2, <2>3 DEF ChunkTypes
<1>4. 1 .. n \subseteq DOMAIN chunks /\ DOMAIN chunks \subseteq Nat
  BY <1>1
<1> HIDE DEF n
<1>5. Priced(chunks, n)
  BY <1>1, <1>2, <1>3, <1>4 DEF Priced
<1> QED BY <1>5 DEF n

\* A reported plan promises what its search found.
LEMMA ReportPromises ==
    ASSUME NEW legs \in Seq(BookLegs), NEW groups, groups = Outcomes(legs), Len(groups) \in Nat \ {0},
           NEW chunks, Sized(legs, groups, chunks), NEW best \in Bests(chunks, Len(groups)),
           best.found, best.profit > 0
    PROVE  Promises(legs, Report(chunks, best))
<1> DEFINE n == Len(groups)
           stakes == best.stakes
           S == {j \in DOMAIN chunks : stakes[j] > 0}
           staked == Ordered(S, <)
           k == Cardinality(S)
           signal == Report(chunks, best)
           al == signal.allocations
           made == [a \in 1 .. k |-> [leg    |-> chunks[staked[a]].leg,
                                      stake  |-> stakes[staked[a]],
                                      payout |-> Payout(chunks[staked[a]], stakes[staked[a]])]]
<1>1. Priced(chunks, n)
  BY SizedIsPriced
<1>2. /\ stakes \in Plans(chunks) /\ best.profit = Profit(chunks, n, stakes) /\ best.profit \in Nat \ {0}
  <2>1. stakes \in Plans(chunks) /\ best = Found(chunks, n, stakes) /\ best.profit \in Int
    BY <1>1, BestType
  <2>2. best.profit = Profit(chunks, n, stakes)
    BY <2>1 DEF Found
  <2> QED BY <2>1, <2>2
<1>3. \A j \in DOMAIN chunks : stakes[j] \in Nat /\ stakes[j] <= chunks[j].resting
  BY <1>2 DEF Plans
<1>4. IsFiniteSet(DOMAIN chunks) /\ DOMAIN chunks \subseteq Nat
  BY <1>1 DEF Priced
<1>5. IsFiniteSet(S) /\ k \in Nat /\ S \subseteq DOMAIN chunks
  <2>1. S \subseteq DOMAIN chunks
    OBVIOUS
  <2> HIDE DEF S, staked
  <2> QED BY <1>4, <2>1, FS_Subset, FS_CardinalityType
<1>6. Lists(staked, S)
  <2>1. S \subseteq Int
    BY <1>4
  <2> HIDE DEF S
  <2> QED BY <1>5, <2>1, Ascending
<1>7. staked \in [1 .. k -> S] /\ DOMAIN staked = 1 .. k
  <2> HIDE DEF S, staked
  <2> QED BY <1>6 DEF Lists
<1>8. al = made /\ signal.worst_case_profit = best.profit
  <2>1. signal =
          IF ~best.found \/ best.profit <= 0 THEN NoSignal
          ELSE [kind        |-> "signal",
                allocations |-> [a \in DOMAIN staked |->
                                   [leg    |-> chunks[staked[a]].leg,
                                    stake  |-> best.stakes[staked[a]],
                                    payout |-> Payout(chunks[staked[a]], best.stakes[staked[a]])]],
                total_stake |-> Total(best.stakes), worst_case_profit |-> best.profit]
    BY DEF Report
  <2>2. ~(~best.found \/ best.profit <= 0)
    BY <1>2
  <2> HIDE DEF staked, k, signal
  <2> QED BY <1>7, <2>1, <2>2
<1>9. DOMAIN al = 1 .. k
  <2> HIDE DEF al
  <2> QED BY <1>8
<1> HIDE DEF staked, signal, k
<1>10. \A a \in 1 .. k : /\ staked[a] \in S /\ staked[a] \in DOMAIN chunks
                         /\ al[a].leg = chunks[staked[a]].leg /\ al[a].stake = stakes[staked[a]]
                         /\ al[a].payout = Payout(chunks[staked[a]], stakes[staked[a]])
  <2> HIDE DEF S, al, stakes
  <2> QED BY <1>5, <1>7, <1>8
<1>11. \A a \in 1 .. k : AllocatesAt(legs, al[a])
  <2>1. TAKE a \in 1 .. k
  <2> DEFINE j == staked[a]
             c == chunks[j]
  <2>2. j \in DOMAIN chunks /\ stakes[j] \in Nat \ {0} /\ al[a].leg = c.leg /\ al[a].stake = stakes[j]
        /\ al[a].payout = Payout(c, stakes[j]) /\ stakes[j] <= c.resting
    BY <1>3, <1>10
  <2> HIDE DEF j, stakes
  <2>3. Payout(c, stakes[j]) \in Nat
    BY <1>1, <2>2, PayoutType
  <2>4. c.leg \in DOMAIN legs
    <3>1. c \in ChunkTypes(legs, n)
      BY <2>2, LenProperties DEF Sized
    <3> HIDE DEF c
    <3> QED BY <3>1 DEF ChunkTypes
  <2>5. PICK l \in DOMAIN legs[c.leg].levels :
          c.price = EffectivePpm(legs[c.leg], l) /\ c.resting = legs[c.leg].levels[l].size
    BY <2>2 DEF Sized, PricedFrom
  <2>6. Payout(c, stakes[j]) = (stakes[j] * PPM) \div EffectivePpm(legs[c.leg], l)
    BY <2>5 DEF Payout
  <2> HIDE DEF c, al
  <2> QED BY <2>2, <2>3, <2>4, <2>5, <2>6 DEF AllocatesAt
<1>12. SumFunctionOnSet(StakeOf(signal), 1 .. k) = Total(stakes)
  <2>1. SumFunctionOnSet(stakes, DOMAIN chunks) = SumFunctionOnSet(stakes, S)
    <3>1. S \subseteq DOMAIN chunks /\ \A j \in DOMAIN chunks : stakes[j] \in Int
      BY <1>3
    <3>2. \A j \in DOMAIN chunks \ S : stakes[j] = 0
      BY <1>3
    <3> HIDE DEF S, stakes
    <3> QED BY <1>4, <3>1, <3>2, SumWithoutZeros
  <2>2. DOMAIN stakes = DOMAIN chunks
    BY <1>2 DEF Plans
  <2>3. Total(stakes) = SumFunctionOnSet(stakes, DOMAIN chunks)
    BY <2>2 DEF Total, SumFunction
  <2> DEFINE h == StakeOf(signal)
  <2>4. \A a \in 1 .. k : h[a] \in Int /\ h[a] = stakes[staked[a]]
    <3>1. \A a \in 1 .. k : h[a] = al[a].stake
      BY <1>9 DEF StakeOf
    <3> HIDE DEF h, al, stakes
    <3> QED BY <1>3, <1>10, <3>1
  <2>5. IsFiniteSet(1 .. k)
    BY <1>5, FS_Interval
  <2>6. SumFunctionOnSet(h, 1 .. k) = SumFunctionOnSet(stakes, S)
    <3> DEFINE I == 1 .. k
    <3>1. staked \in [I -> S] /\ (\A x, y \in I : staked[x] = staked[y] => x = y)
          /\ \A z \in S : \E x \in I : staked[x] = z
      BY <1>6 DEF Lists, k
    <3>2. IsFiniteSet(I) /\ \A a \in I : h[a] \in Int /\ h[a] = stakes[staked[a]]
      BY <2>4, <2>5
    <3> HIDE DEF h, S, stakes, I
    <3>3. SumFunctionOnSet(h, I) = SumFunctionOnSet(stakes, S)
      BY <3>1, <3>2, SumRenamed
    <3> QED BY <3>3 DEF I
  <2> QED BY <2>1, <2>3, <2>6
<1>13. \A i \in DOMAIN legs :
          SumFunctionOnSet(PayoutOf(signal), AllocatedTo(legs, signal, legs[i].outcome)) >=
              Total(stakes) + best.profit
  <2>1. TAKE i \in DOMAIN legs
  <2> DEFINE o == legs[i].outcome
             g == GroupOf(groups, o)
             M == Members(chunks, g)
             T == M \cap S
             A == AllocatedTo(legs, signal, o)
             f == [j \in M |-> Payout(chunks[j], stakes[j])]
             h == PayoutOf(signal)
             e == [a \in A |-> staked[a]]
  <2>2. g \in 1 .. n /\ groups[g] = o
    <3>1. \E x \in DOMAIN groups : groups[x] = o
      BY OutcomesNamed
    <3>2. g \in DOMAIN groups /\ groups[g] = o
      <4> HIDE DEF o
      <4> QED BY <3>1 DEF GroupOf
    <3>3. DOMAIN groups = 1 .. n
      BY OutcomesNamed, LenProperties
    <3> QED BY <3>2, <3>3
  <2> HIDE DEF g
  <2>3. GroupPayout(chunks, stakes, g) = SumFunctionOnSet(f, M)
    BY DEF GroupPayout, PaidBy, SumFunction
  <2>4. GroupPayout(chunks, stakes, g) >= Total(stakes) + best.profit
    <3> HIDE DEF stakes, n
    <3> QED BY <1>1, <1>2, <2>2, WorstOutcome
  <2>5. M \subseteq DOMAIN chunks /\ IsFiniteSet(M)
    BY <1>4, FS_Subset DEF Members
  <2>6. \A j \in M : f[j] \in Nat
    <3> HIDE DEF stakes, M
    <3> QED BY <1>1, <1>3, <2>5, PayoutType
  <2>7. \A j \in M \ T : f[j] = 0
    <3>1. TAKE j \in M \ T
    <3>2. j \in DOMAIN chunks /\ stakes[j] = 0
      BY <1>3, <2>5
    <3>3. f[j] = (0 * PPM) \div chunks[j].price /\ chunks[j].price \in Nat \ {0} /\ PPM \in Nat
      <4> HIDE DEF stakes
      <4> QED BY <1>1, <3>2, UnitsArePositive DEF Payout, Priced
    <3>4. 0 * PPM = 0 /\ 0 \div chunks[j].price = 0
      BY <3>3
    <3> QED BY <3>3, <3>4
  <2>8. SumFunctionOnSet(f, M) = SumFunctionOnSet(f, T)
    <3>1. T \subseteq M /\ \A j \in M : f[j] \in Int
      BY <2>6
    <3> HIDE DEF f, M, T
    <3> QED BY <2>5, <2>7, <3>1, SumWithoutZeros
  <2>9. \A j \in DOMAIN chunks : j \in M <=> legs[chunks[j].leg].outcome = o
    <3>1. TAKE j \in DOMAIN chunks
    <3>2. /\ chunks[j].group = GroupOf(groups, legs[chunks[j].leg].outcome)
          /\ groups[chunks[j].group] = legs[chunks[j].leg].outcome
      BY DEF Sized, PricedFrom
    <3>3. j \in M <=> chunks[j].group = g
      BY DEF Members
    <3>4. ASSUME chunks[j].group = g PROVE legs[chunks[j].leg].outcome = o
      BY <2>2, <3>2, <3>4
    <3>5. ASSUME legs[chunks[j].leg].outcome = o PROVE chunks[j].group = g
      BY <3>2, <3>5 DEF g
    <3> QED BY <3>3, <3>4, <3>5
  <2>10. A \subseteq 1 .. k /\ \A a \in 1 .. k : a \in A <=> staked[a] \in T
    <3>1. A = {a \in 1 .. k : legs[al[a].leg].outcome = o}
      BY <1>9 DEF AllocatedTo
    <3> HIDE DEF M, S, A, al, o
    <3> QED BY <1>10, <2>9, <3>1
  <2>11. e \in [A -> T] /\ \A x, y \in A : e[x] = e[y] => x = y
    <3>1. \A x, y \in 1 .. k : staked[x] = staked[y] => x = y
      BY <1>6 DEF Lists, k
    <3> HIDE DEF A, T
    <3> QED BY <2>10, <3>1
  <2>12. \A z \in T : \E x \in A : e[x] = z
    <3>1. TAKE z \in T
    <3>2. \E x \in 1 .. k : staked[x] = z
      <4>1. z \in S
        OBVIOUS
      <4> HIDE DEF S
      <4> QED BY <1>6, <4>1 DEF Lists, k
    <3>3. PICK x \in 1 .. k : staked[x] = z
      BY <3>2
    <3> HIDE DEF A, T
    <3>4. x \in A
      BY <2>10, <3>3
    <3> QED BY <3>3, <3>4
  <2>13. \A x \in A : h[x] \in Int /\ h[x] = f[e[x]]
    <3>1. TAKE x \in A
    <3>2. x \in 1 .. k /\ staked[x] \in T
      <4> HIDE DEF A, T
      <4> QED BY <2>10
    <3>3. h[x] = al[x].payout
      BY <1>9, <3>2 DEF PayoutOf
    <3>4. staked[x] \in M /\ e[x] = staked[x]
      BY <3>2
    <3>5. f[e[x]] = Payout(chunks[staked[x]], stakes[staked[x]])
      <4> HIDE DEF M, e, stakes
      <4> QED BY <3>4
    <3> HIDE DEF h, e, f, M, al, stakes
    <3> QED BY <1>10, <2>6, <3>2, <3>3, <3>4, <3>5
  <2>14. IsFiniteSet(A)
    <3>1. IsFiniteSet(1 .. k)
      BY <1>5, FS_Interval
    <3> HIDE DEF A
    <3> QED BY <2>10, <3>1, FS_Subset
  <2>15. SumFunctionOnSet(h, A) = SumFunctionOnSet(f, T)
    <3> HIDE DEF A, T, e, f, h
    <3> QED BY <2>11, <2>12, <2>13, <2>14, SumRenamed
  <2> HIDE DEF f, M, T, h, A, stakes
  <2> QED BY <2>3, <2>4, <2>8, <2>15 DEF h, A
<1>14. al \in [1 .. k -> Values(al, 1 .. k)]
  <2>1. \A a \in 1 .. k : al[a] \in Values(al, 1 .. k)
    BY DEF Values
  <2>2. al = [a \in 1 .. k |-> al[a]]
    <3> HIDE DEF al, stakes
    <3> QED BY <1>8
  <2> HIDE DEF al
  <2> QED BY <2>1, <2>2
<1>15. \E x \in Nat : signal.allocations \in [1 .. x -> Values(signal.allocations, 1 .. x)]
  BY <1>5, <1>14
<1> HIDE DEF stakes
<1> QED BY <1>2, <1>8, <1>9, <1>11, <1>12, <1>13, <1>15 DEF Promises, signal

\* The overround is positive.
LEMMA OverroundType ==
    ASSUME NEW chunks, NEW n, Priced(chunks, n)
    PROVE  SumFunction([g \in 1 .. n |-> chunks[g].price]) \in Nat \ {0}
<1> DEFINE f == [g \in 1 .. n |-> chunks[g].price]
<1>0. n \in Nat \ {0}
  BY DEF Priced
<1> HIDE DEF f
<1>1. IsFiniteSet(1 .. n) /\ 1 .. n # {}
  <2>1. IsFiniteSet(1 .. n)
    BY <1>0, FS_Interval
  <2>2. 1 \in 1 .. n
    BY <1>0
  <2> QED BY <2>1, <2>2
<1> USE DEF f
<1>2. \A g \in 1 .. n : f[g] \in Nat \ {0}
  BY DEF Priced
<1>3. SumFunction(f) = SumFunctionOnSet(f, 1 .. n)
  BY DEF SumFunction
<1> HIDE DEF f
<1>4. SumFunction(f) \in Nat \ {0}
  BY <1>0, <1>1, <1>2, <1>3, PositiveSum
<1> QED BY <1>4 DEF f

\* The kinds of answer, and what a signal promises.
LEMMA SizeUpPromises ==
    ASSUME NEW legs \in Seq(BookLegs), NEW groups, groups = Outcomes(legs), Len(groups) \in Nat \ {0},
           NEW chunks, Sized(legs, groups, chunks), NEW budget \in Nat
    PROVE  \/ SizeUp(chunks, Len(groups), budget) = NoSignal
           \/ /\ SizeUp(chunks, Len(groups), budget).kind = "signal"
              /\ Promises(legs, SizeUp(chunks, Len(groups), budget))
<1> DEFINE n == Len(groups)
           overround == SumFunction([g \in 1 .. n |-> chunks[g].price])
           best == Search(chunks, n, budget, overround)
<1>1. Priced(chunks, n)
  BY SizedIsPriced
<1>2. overround \in Nat \ {0}
  <2> HIDE DEF n
  <2> QED BY <1>1, OverroundType
<1>3. SizeUp(chunks, n, budget) = IF overround >= PPM THEN NoSignal ELSE Report(chunks, best)
  BY DEF SizeUp
<1> HIDE DEF overround
<1>4. best \in Bests(chunks, n)
  <2> HIDE DEF n
  <2> QED BY <1>1, <1>2, SearchType
<1>5. best.found \in BOOLEAN /\ best.profit \in Int
  <2> HIDE DEF n, best
  <2> QED BY <1>1, <1>4, BestType
<1> HIDE DEF best
<1>6. CASE overround >= PPM \/ ~best.found \/ best.profit <= 0
  <2>1. ~best.found \/ best.profit <= 0 => Report(chunks, best) = NoSignal
    BY DEF Report
  <2> QED BY <1>3, <1>6, <2>1
<1>7. CASE ~(overround >= PPM) /\ best.found /\ ~(best.profit <= 0)
  <2>1. best.profit > 0
    BY <1>5, <1>7
  <2>2. Promises(legs, Report(chunks, best))
    BY <1>4, <1>7, <2>1, ReportPromises
  <2>3. Report(chunks, best).kind = "signal"
    <3> DEFINE staked == Ordered({j \in DOMAIN chunks : best.stakes[j] > 0}, <)
               al == [a \in DOMAIN staked |->
                        [leg    |-> chunks[staked[a]].leg,
                         stake  |-> best.stakes[staked[a]],
                         payout |-> Payout(chunks[staked[a]], best.stakes[staked[a]])]]
    <3>1. Report(chunks, best) =
            IF ~best.found \/ best.profit <= 0 THEN NoSignal
            ELSE [kind |-> "signal", allocations |-> al,
                  total_stake |-> Total(best.stakes), worst_case_profit |-> best.profit]
      BY DEF Report
    <3> HIDE DEF al
    <3> QED BY <1>7, <3>1
  <2> QED BY <1>3, <1>7, <2>2, <2>3
<1> QED BY <1>5, <1>6, <1>7

\* The answer of detect_book is an error, nothing, or a signal that pays what
\* it promises.
LEMMA DetectPromises ==
    ASSUME NEW legs \in Seq(BookLegs), NEW budget \in Int
    PROVE  \/ DetectBook(legs, budget) \in {Malformed, NoSignal}
           \/ /\ DetectBook(legs, budget).kind = "signal"
              /\ Promises(legs, DetectBook(legs, budget))
<1> DEFINE groups == Outcomes(legs)
           usable == {legs[il[1]].outcome : il \in Usable(legs)}
<1>1. CASE Len(legs) \notin 2 .. MAX_CHUNKS \/ Len(groups) < 2
  BY <1>1 DEF DetectBook
<1>2. CASE \E i \in DOMAIN legs : legs[i].levels # <<>> /\ legs[i].increment <= 0
  BY <1>2 DEF DetectBook, Plan
<1>3. CASE budget <= 0 \/ Range(groups) # usable
  BY <1>3 DEF DetectBook, Plan
<1>4. CASE /\ ~(Len(legs) \notin 2 .. MAX_CHUNKS \/ Len(groups) < 2)
           /\ ~(\E i \in DOMAIN legs : legs[i].levels # <<>> /\ legs[i].increment <= 0)
           /\ ~(budget <= 0 \/ Range(groups) # usable)
  <2> DEFINE chunks == Flatten(legs, groups)
  <2>1. DetectBook(legs, budget) = SizeUp(chunks, Len(groups), budget)
    BY <1>4 DEF DetectBook, Plan
  <2>2. budget \in Nat /\ Len(groups) \in Nat \ {0} /\ Len(groups) <= MAX_CHUNKS
    <3>1. Len(groups) \in 0 .. Len(legs) /\ Len(legs) \in 2 .. MAX_CHUNKS /\ ~(Len(groups) < 2)
      BY <1>4, OutcomesNamed
    <3> HIDE DEF groups, usable
    <3> QED BY <1>4, <3>1, DetectionBounds
  <2>3. Range(groups) = usable
    BY <1>4
  <2>4. Sized(legs, groups, chunks)
    <3> HIDE DEF groups, chunks
    <3> QED BY <2>2, <2>3, Flattened DEF groups, chunks
  <2> HIDE DEF chunks, groups
  <2> QED BY <2>1, <2>2, <2>4, SizeUpPromises DEF groups
<1> QED BY <1>1, <1>2, <1>3, <1>4

(***************************************************************************)
(* The candidates of a market and the legs taken from them                 *)
(***************************************************************************)

\* A candidate's size is what survives of its raw size.
CandidateTypes ==
    {c \in [outcome : 1 .. OutcomeCount, venue : 1 .. VenueCount, price : Probs,
            eff_ppm : Nat \ {0}, raw_size : Int, size : Nat] :
        c.size = Discounted(VenueSurvival[c.venue], c.raw_size)}

\* The candidates of a market carry their venue's fee and discount.
LEMMA CandidatesType ==
    ASSUME NEW bs \in [Sides -> Seq(Quotes)]
    PROVE  /\ Candidates(bs) \in Seq(CandidateTypes)
           /\ \A i \in DOMAIN Candidates(bs) :
                 Candidates(bs)[i].eff_ppm = Effective(VenueFees[Candidates(bs)[i].venue], Candidates(bs)[i].price)
<1> DEFINE D == [s \in Sides |-> DOMAIN bs[s]]
           all == UNION {{s} \X DOMAIN bs[s] : s \in Sides}
           quoted(at) == bs[at[1]][at[2]]
           levels == {at \in all : Discounted(VenueSurvival[at[1][2]], quoted(at).size) > 0}
           places == Ordered(levels, BookOrder)
           k == Cardinality(levels)
           at(i) == CandidateAt(places[i][1][1], places[i][1][2], quoted(places[i]))
<1>1. \A s \in Sides : /\ DOMAIN bs[s] = 1 .. Len(bs[s]) /\ Len(bs[s]) \in Nat
                       /\ \A l \in DOMAIN bs[s] : bs[s][l] \in Quotes
  BY LenProperties
<1>2. OutcomeCount \in Nat /\ VenueCount \in Nat /\ Sides \subseteq Int \X Int
  BY MarketIsRegistered DEF Sides
<1>3. IsFiniteSet(all)
  <2>1. IsFiniteSet(Sides)
    <3>1. IsFiniteSet(1 .. OutcomeCount) /\ IsFiniteSet(1 .. VenueCount)
      BY <1>2, FS_Interval
    <3>2. IsFiniteSet((1 .. OutcomeCount) \X (1 .. VenueCount))
      BY <3>1, FS_Product
    <3> QED BY <3>2 DEF Sides
  <2>2. \A s \in Sides : IsFiniteSet(D[s])
    BY <1>1, FS_Interval
  <2>3. all = Fibres(Sides, D)
    BY DEF Fibres
  <2> HIDE DEF all, D
  <2> QED BY <2>1, <2>2, <2>3, FibresFinite
<1>4. \A x \in all : /\ x[1] \in Sides /\ x[2] \in DOMAIN bs[x[1]] /\ x = <<x[1], x[2]>>
  OBVIOUS
<1>5. IsFiniteSet(levels) /\ levels \subseteq all /\ k \in Nat /\ levels \subseteq (Int \X Int) \X Int
  <2>1. levels \subseteq all
    OBVIOUS
  <2>2. all \subseteq (Int \X Int) \X Int
    <3>1. \A x \in all : x[1] \in Int \X Int /\ x[2] \in Int
      <4> HIDE DEF all
      <4> QED BY <1>1, <1>2, <1>4
    <3> HIDE DEF all
    <3> QED BY <1>4, <3>1
  <2> HIDE DEF levels, all, places
  <2> QED BY <1>3, <2>1, <2>2, FS_Subset, FS_CardinalityType
<1>6. places \in [1 .. k -> levels] /\ DOMAIN places = 1 .. k
  <2>1. Lists(places, levels)
    <3> HIDE DEF levels
    <3> QED BY <1>5, InBookOrder
  <2> HIDE DEF places, levels
  <2> QED BY <2>1 DEF Lists
<1>7. Candidates(bs) = [i \in DOMAIN places |-> at(i)]
  BY DEF Candidates
<1> HIDE DEF places, levels, k
<1>8. \A i \in 1 .. k : /\ at(i) \in CandidateTypes
                        /\ at(i).eff_ppm = Effective(VenueFees[at(i).venue], at(i).price)
  <2>1. TAKE i \in 1 .. k
  <2> DEFINE o == places[i][1][1]
             v == places[i][1][2]
             level == quoted(places[i])
  <2>2. places[i] \in all
    BY <1>5, <1>6
  <2>3. places[i][1] \in Sides /\ places[i][2] \in DOMAIN bs[places[i][1]]
    <3> HIDE DEF all
    <3> QED BY <1>4, <2>2
  <2>4. o \in 1 .. OutcomeCount /\ v \in 1 .. VenueCount
    BY <2>3 DEF Sides
  <2>5. level.price \in Probs /\ level.size \in Int
    <3>1. level \in Quotes
      BY <1>1, <2>3
    <3> HIDE DEF level
    <3> QED BY <3>1 DEF Quotes
  <2>6. at(i) = CandidateAt(o, v, level)
    OBVIOUS
  <2> HIDE DEF o, v, level
  <2>7. VenueFees[v] \in FeeTypes /\ VenueSurvival[v] \in Nat
    BY <2>4, MarketIsRegistered
  <2>8. Effective(VenueFees[v], level.price) \in Nat \ {0} /\ Discounted(VenueSurvival[v], level.size) \in Nat
    BY <2>5, <2>7, EffectivePrice, DiscountedDepth
  <2>9. CandidateAt(o, v, level) \in CandidateTypes
        /\ CandidateAt(o, v, level).eff_ppm = Effective(VenueFees[v], level.price)
        /\ CandidateAt(o, v, level).venue = v /\ CandidateAt(o, v, level).price = level.price
    BY <2>4, <2>5, <2>8 DEF CandidateAt, CandidateTypes
  <2> HIDE DEF at
  <2> QED BY <2>6, <2>9
<1>9. Candidates(bs) \in [1 .. k -> CandidateTypes]
  <2> HIDE DEF at
  <2> QED BY <1>6, <1>7, <1>8
<1>10. Candidates(bs) \in Seq(CandidateTypes) /\ DOMAIN Candidates(bs) = 1 .. k
  BY <1>5, <1>9, SequenceOf DEF k
<1>11. \A i \in 1 .. k : Candidates(bs)[i] = at(i)
  <2> HIDE DEF at
  <2> QED BY <1>6, <1>7
<1> HIDE DEF at
<1> QED BY <1>8, <1>10, <1>11

\* The selection starts with a candidate of every outcome and stops at the
\* chunk bound.
LEMMA SelectionType ==
    ASSUME NEW cands \in Seq(CandidateTypes), \A o \in 1 .. OutcomeCount : Of(cands, o) # {}
    PROVE  /\ Selection(cands) \in Seq(DOMAIN cands)
           /\ OutcomeCount <= Len(Selection(cands)) /\ Len(Selection(cands)) <= MAX_CHUNKS
           /\ \A o \in 1 .. OutcomeCount : /\ Selection(cands)[o] = Coverage(cands)[o]
                                           /\ Selection(cands)[o] \in Of(cands, o)
<1> DEFINE all == DOMAIN cands
           cover == Coverage(cands)
           others == all \ Range(cover)
           rest == BestFirst(cands, others)
<1>1. IsFiniteSet(all) /\ all \subseteq Int /\ \A i \in all : cands[i] \in CandidateTypes
  <2>1. all = 1 .. Len(cands) /\ Len(cands) \in Nat
    BY LenProperties
  <2> QED BY <2>1, FS_Interval, ElementOfSeq
<1>2. \A i \in all : cands[i].eff_ppm \in Int
  <2>1. TAKE i \in all
  <2>2. cands[i] \in CandidateTypes
    BY <1>1
  <2> QED BY <2>2 DEF CandidateTypes
<1>3. \A S \in SUBSET all : /\ BestFirst(cands, S) \in Seq(S) /\ Len(BestFirst(cands, S)) = Cardinality(S)
                            /\ (S # {} => BestFirst(cands, S)[1] \in S)
  <2>1. TAKE S \in SUBSET all
  <2> DEFINE s == BestFirst(cands, S)
  <2>2. IsFiniteSet(S) /\ S \subseteq Int /\ \A i \in S : cands[i].eff_ppm \in Int
    <3> HIDE DEF all
    <3> QED BY <1>1, <1>2, FS_Subset
  <2>3. Lists(s, S)
    BY <2>2, InPreference
  <2>4. Cardinality(S) \in Nat /\ (S # {} => Cardinality(S) # 0)
    BY <2>2, FS_CardinalityType, FS_EmptySet
  <2>5. s \in [1 .. Cardinality(S) -> S]
    BY <2>3 DEF Lists
  <2> HIDE DEF s
  <2>6. s \in Seq(S) /\ Len(s) = Cardinality(S)
    BY <2>4, <2>5, SequenceOf
  <2>7. S # {} => 1 \in 1 .. Cardinality(S)
    BY <2>4
  <2>8. S # {} => s[1] \in S
    BY <2>5, <2>7
  <2> QED BY <2>6, <2>8 DEF s
<1>4. \A o \in 1 .. OutcomeCount : cover[o] \in Of(cands, o) /\ cover[o] \in all
  <2>1. TAKE o \in 1 .. OutcomeCount
  <2>2. Of(cands, o) \in SUBSET all /\ Of(cands, o) # {}
    BY DEF Of
  <2>3. BestFirst(cands, Of(cands, o))[1] \in Of(cands, o)
    <3> HIDE DEF all
    <3> QED BY <1>3, <2>2
  <2> QED BY <2>2, <2>3 DEF Coverage
<1>5. OutcomeCount \in Nat /\ OutcomeCount <= MAX_CHUNKS
  BY MarketIsRegistered
<1>6. cover \in Seq(all) /\ Len(cover) = OutcomeCount
  <2>1. cover = [o \in 1 .. OutcomeCount |-> BestFirst(cands, Of(cands, o))[1]]
    BY DEF Coverage
  <2> HIDE DEF all, cover
  <2>2. cover \in [1 .. OutcomeCount -> all]
    BY <1>4, <2>1
  <2> QED BY <1>5, <2>2, SequenceOf
<1>7. rest \in Seq(all)
  <2>1. others \in SUBSET all
    OBVIOUS
  <2> HIDE DEF others, all
  <2>2. rest \in Seq(others)
    BY <1>3, <2>1
  <2> HIDE DEF rest
  <2> QED BY <2>1, <2>2, SeqMonotonic
<1>8. Selection(cands) = FilledUp(cover, rest)
  BY DEF Selection
<1>9. /\ FilledUp(cover, rest) \in Seq(all)
      /\ Len(cover) <= Len(FilledUp(cover, rest)) /\ Len(FilledUp(cover, rest)) <= MAX_CHUNKS
      /\ \A i \in 1 .. Len(cover) : FilledUp(cover, rest)[i] = cover[i]
  <2> HIDE DEF cover, rest, all
  <2> QED BY <1>5, <1>6, <1>7, Filled
<1> HIDE DEF cover, rest, all
<1> QED BY <1>4, <1>6, <1>8, <1>9 DEF all, cover

\* Legs taken from candidates, the first ones from one of each outcome.
LegsOf(cands, chosen, legs) ==
    /\ legs \in Seq(BookLegs) /\ 1 .. OutcomeCount \subseteq DOMAIN legs
    /\ DOMAIN legs \subseteq DOMAIN chosen
    /\ \A i \in DOMAIN legs :
          /\ legs[i] = BookLegFromCandidate(cands[chosen[i]])
          /\ cands[chosen[i]] \in CandidateTypes
    /\ \A o \in 1 .. OutcomeCount : legs[o].outcome = o

\* The legs of both plans are taken from candidates.
LEMMA ShoppedLegs ==
    ASSUME NEW cands \in Seq(CandidateTypes), NEW chosen \in Seq(DOMAIN cands),
           OutcomeCount <= Len(chosen), \A o \in 1 .. OutcomeCount : chosen[o] \in Of(cands, o)
    PROVE  LET legs == [i \in DOMAIN chosen |-> BookLegFromCandidate(cands[chosen[i]])]
           IN  /\ LegsOf(cands, chosen, legs) /\ Len(legs) = Len(chosen)
               /\ LegsOf(cands, chosen, SubSeq(legs, 1, OutcomeCount))
               /\ Len(SubSeq(legs, 1, OutcomeCount)) = OutcomeCount
<1> DEFINE legs == [i \in DOMAIN chosen |-> BookLegFromCandidate(cands[chosen[i]])]
           single == SubSeq(legs, 1, OutcomeCount)
           k == Len(chosen)
<1>1. k \in Nat /\ DOMAIN chosen = 1 .. k /\ OutcomeCount \in Nat /\ OutcomeCount <= k
  BY LenProperties, MarketIsRegistered
<1>2. \A i \in 1 .. k : cands[chosen[i]] \in CandidateTypes
  <2>1. TAKE i \in 1 .. k
  <2>2. chosen[i] \in DOMAIN cands /\ DOMAIN cands = 1 .. Len(cands)
    BY LenProperties, ElementOfSeq
  <2> QED BY <2>2, ElementOfSeq
<1>3. \A i \in 1 .. k : BookLegFromCandidate(cands[chosen[i]]) \in BookLegs
  <2>1. TAKE i \in 1 .. k
  <2> DEFINE c == cands[chosen[i]]
  <2>2. /\ c.outcome \in 1 .. OutcomeCount /\ c.venue \in 1 .. VenueCount /\ c.price \in Probs
        /\ c.size \in Nat
    BY <1>2 DEF CandidateTypes
  <2> HIDE DEF c
  <2>3. VenueFees[c.venue] \in FeeTypes /\ VenueIncrements[c.venue] \in Nat \ {0}
    BY <2>2, MarketIsRegistered
  <2>4. <<[price |-> c.price, size |-> c.size]>> \in Seq(Quotes)
    BY <2>2 DEF Quotes
  <2> QED BY <2>2, <2>3, <2>4 DEF BookLegFromCandidate, BookLegs, c
<1>4. legs \in Seq(BookLegs) /\ Len(legs) = k /\ DOMAIN legs = 1 .. k
  <2>1. legs \in [1 .. k -> BookLegs]
    BY <1>1, <1>3
  <2> HIDE DEF legs
  <2> QED BY <1>1, <2>1, SequenceOf
<1>5. \A i \in 1 .. k : legs[i] = BookLegFromCandidate(cands[chosen[i]])
  BY <1>1
<1>6. \A o \in 1 .. OutcomeCount : o \in 1 .. k /\ legs[o].outcome = o
  <2>1. TAKE o \in 1 .. OutcomeCount
  <2>2. o \in 1 .. k /\ chosen[o] \in Of(cands, o)
    BY <1>1
  <2>3. cands[chosen[o]].outcome = o
    BY <2>2 DEF Of
  <2>4. legs[o] = BookLegFromCandidate(cands[chosen[o]])
    <3> HIDE DEF legs, k
    <3> QED BY <1>5, <2>2
  <2>5. BookLegFromCandidate(cands[chosen[o]]).outcome = cands[chosen[o]].outcome
    BY DEF BookLegFromCandidate
  <2> HIDE DEF legs, k
  <2> QED BY <2>2, <2>3, <2>4, <2>5
<1>7. single \in Seq(BookLegs) /\ Len(single) = OutcomeCount /\ DOMAIN single = 1 .. OutcomeCount
      /\ \A i \in 1 .. OutcomeCount : single[i] = legs[i]
  <2> HIDE DEF legs
  <2>1. \A i \in 1 .. OutcomeCount : legs[i] \in BookLegs
    BY <1>4, <1>6, ElementOfSeq
  <2>2. /\ single \in Seq(BookLegs)
        /\ Len(single) = IF 1 <= OutcomeCount THEN OutcomeCount - 1 + 1 ELSE 0
        /\ \A i \in 1 .. OutcomeCount - 1 + 1 : single[i] = legs[1 + i - 1]
    BY <1>1, <2>1, SubSeqProperties
  <2>3. Len(single) = OutcomeCount /\ OutcomeCount - 1 + 1 = OutcomeCount
    BY <1>1, <2>2
  <2>4. \A i \in 1 .. OutcomeCount : 1 + i - 1 = i
    OBVIOUS
  <2> HIDE DEF single
  <2> QED BY <2>2, <2>3, <2>4, LenProperties
<1> HIDE DEF legs, single, k
<1>8. LegsOf(cands, chosen, legs)
  BY <1>1, <1>2, <1>4, <1>5, <1>6 DEF LegsOf
<1>9. LegsOf(cands, chosen, single)
  <2>1. \A i \in 1 .. OutcomeCount : /\ single[i] = BookLegFromCandidate(cands[chosen[i]])
                                     /\ cands[chosen[i]] \in CandidateTypes
    BY <1>1, <1>2, <1>5, <1>6, <1>7
  <2>2. \A o \in 1 .. OutcomeCount : single[o].outcome = o
    BY <1>6, <1>7
  <2>3. 1 .. OutcomeCount \subseteq DOMAIN chosen
    BY <1>1, <1>6
  <2> QED BY <1>7, <2>1, <2>2, <2>3 DEF LegsOf
<1> QED BY <1>4, <1>7, <1>8, <1>9 DEF legs, single, k

\* Legs taken from candidates of several outcomes are never refused.
LEMMA ShoppedWellFormed ==
    ASSUME NEW cands, NEW chosen, NEW legs, LegsOf(cands, chosen, legs), Len(legs) <= MAX_CHUNKS
    PROVE  DetectBook(legs, Budget) # Malformed
<1> DEFINE groups == Outcomes(legs)
           usable == {legs[il[1]].outcome : il \in Usable(legs)}
           chunks == Flatten(legs, groups)
<1>1. /\ legs \in Seq(BookLegs) /\ 1 .. OutcomeCount \subseteq DOMAIN legs
      /\ \A o \in 1 .. OutcomeCount : legs[o].outcome = o
  BY DEF LegsOf
<1>2. DOMAIN legs = 1 .. Len(legs) /\ Len(legs) \in Nat
  BY <1>1, LenProperties
<1>3. 1 \in DOMAIN legs /\ 2 \in DOMAIN legs /\ legs[1].outcome = 1 /\ legs[2].outcome = 2
  <2>1. 1 \in 1 .. OutcomeCount /\ 2 \in 1 .. OutcomeCount
    BY MarketIsRegistered
  <2> QED BY <1>1, <2>1
<1>4. Len(legs) \in 2 .. MAX_CHUNKS
  BY <1>2, <1>3, DetectionBounds
<1>5. Len(groups) \in Nat /\ Len(groups) >= 2 /\ Len(groups) <= Len(legs)
  <2>1. groups \in Seq(1 .. OutcomeCount) /\ Len(groups) \in 0 .. Len(legs)
    BY <1>1, OutcomesNamed
  <2>2. DOMAIN groups = 1 .. Len(groups)
    <3> HIDE DEF groups
    <3> QED BY <2>1, LenProperties
  <2>3. PICK a \in DOMAIN groups : groups[a] = 1
    BY <1>1, <1>3, OutcomesNamed
  <2>4. PICK b \in DOMAIN groups : groups[b] = 2
    BY <1>1, <1>3, OutcomesNamed
  <2> HIDE DEF groups
  <2>5. a # b /\ a \in 1 .. Len(groups) /\ b \in 1 .. Len(groups)
    BY <2>2, <2>3, <2>4
  <2> QED BY <1>2, <2>1, <2>5
<1>6. \A i \in DOMAIN legs : ~(legs[i].increment <= 0)
  <2>1. TAKE i \in DOMAIN legs
  <2>2. legs[i] \in BookLegs
    BY <1>1, <1>2, ElementOfSeq
  <2>3. legs[i].increment \in Nat \ {0}
    BY <2>2 DEF BookLegs
  <2> QED BY <2>3
<1>7. DetectBook(legs, Budget) = Plan(legs, groups, Budget)
  <2> HIDE DEF groups
  <2>1. ~(Len(groups) < 2)
    BY <1>5
  <2> QED BY <1>4, <2>1 DEF DetectBook, groups
<1>8. CASE Budget <= 0 \/ Range(groups) # usable
  <2>1. Plan(legs, groups, Budget) = NoSignal
    BY <1>6, <1>8 DEF Plan
  <2> QED BY <1>7, <2>1 DEF NoSignal, Malformed
<1>9. CASE ~(Budget <= 0 \/ Range(groups) # usable)
  <2>1. Plan(legs, groups, Budget) = SizeUp(chunks, Len(groups), Budget)
    BY <1>6, <1>9 DEF Plan
  <2>2. Sized(legs, groups, chunks)
    <3>1. Range(groups) = usable
      BY <1>9
    <3> HIDE DEF groups, chunks
    <3>2. Len(groups) <= MAX_CHUNKS
      BY <1>2, <1>4, <1>5, DetectionBounds
    <3> QED BY <1>1, <3>1, <3>2, Flattened DEF groups, chunks
  <2>3. Budget \in Nat /\ Len(groups) \in Nat \ {0}
    <3> HIDE DEF groups, usable
    <3> QED BY <1>5, <1>9, MarketIsRegistered
  <2> HIDE DEF chunks, groups
  <2>4. SizeUp(chunks, Len(groups), Budget) = NoSignal \/ SizeUp(chunks, Len(groups), Budget).kind = "signal"
    BY <1>1, <2>2, <2>3, SizeUpPromises DEF groups
  <2> QED BY <1>7, <2>1, <2>4 DEF NoSignal, Malformed
<1> QED BY <1>8, <1>9

(***************************************************************************)
(* The engine's guarantee                                                  *)
(***************************************************************************)

\* What the venues pay for the allocations of r that settle with an outcome.
PaysOn(r, o) ==
    LET A == {a \in DOMAIN r.plan : r.plan[a].outcome = o}
    IN  SumFunction([a \in A |-> (r.signal.allocations[a].stake * PPM)
                                   \div Effective(r.plan[a].fee, r.plan[a].quoted)])

\* What a result stakes in all.
CostOf(r) == SumFunction([a \in DOMAIN r.plan |-> r.signal.allocations[a].stake])

\* A leg of a registered venue and a stake that its discounted depth holds.
Executes(leg, stake) ==
    /\ leg.outcome \in 1 .. OutcomeCount /\ leg.venue \in 1 .. VenueCount
    /\ leg.quoted \in Probs /\ leg.capacity \in Int
    /\ leg.fee = VenueFees[leg.venue] /\ leg.increment = VenueIncrements[leg.venue]
    /\ stake \in Nat \ {0} /\ stake <= Discounted(VenueSurvival[leg.venue], leg.capacity)

\* An evaluation that is no plan, or one that keeps its promise.
Sound(r) ==
    \/ r = NoPlan
    \/ /\ r.signal.kind = "signal"
       /\ r.signal.worst_case_profit \in Nat \ {0}
       /\ \E k \in Nat : DOMAIN r.plan = 1 .. k
       /\ DOMAIN r.signal.allocations = DOMAIN r.plan
       /\ \A a \in DOMAIN r.plan : Executes(r.plan[a], r.signal.allocations[a].stake)
       /\ \A o \in 1 .. OutcomeCount : PaysOn(r, o) >= CostOf(r) + r.signal.worst_case_profit

\* A signal paired with the legs it was sized on can be depended on.
LEMMA ExecutableSound ==
    ASSUME NEW cands, NEW chosen, NEW legs, LegsOf(cands, chosen, legs),
           NEW signal, signal.kind = "signal", Promises(legs, signal)
    PROVE  Sound(Executable(cands, chosen, signal))
<1> DEFINE al == signal.allocations
           plan == [a \in DOMAIN al |-> ExecutionLeg(cands[chosen[al[a].leg]])]
           r == Executable(cands, chosen, signal)
<1>1. r = [signal |-> signal, plan |-> plan]
  <2>1. signal # NoSignal
    BY DEF NoSignal
  <2> QED BY <2>1 DEF Executable
<1>2. r.signal = signal /\ r.plan = plan
  <2> HIDE DEF plan, r
  <2> QED BY <1>1
<1>3. IsFiniteSet(DOMAIN al) /\ \E k \in Nat : DOMAIN al = 1 .. k
  <2>1. PICK k \in Nat : al \in [1 .. k -> Values(al, 1 .. k)]
    BY DEF Promises
  <2>2. DOMAIN al = 1 .. k
    BY <2>1
  <2>3. IsFiniteSet(1 .. k)
    BY FS_Interval
  <2> HIDE DEF al
  <2> QED BY <2>2, <2>3
<1> HIDE DEF r
<1>4. DOMAIN plan = DOMAIN al
  OBVIOUS
<1>5. \A a \in DOMAIN al :
        /\ plan[a].outcome = legs[al[a].leg].outcome
        /\ al[a].stake \in Nat \ {0} /\ al[a].payout \in Nat
        /\ (al[a].stake * PPM) \div Effective(plan[a].fee, plan[a].quoted) = al[a].payout
        /\ Executes(plan[a], al[a].stake)
  <2>1. TAKE a \in DOMAIN al
  <2> DEFINE i == al[a].leg
             c == cands[chosen[i]]
             leg == legs[i]
  <2>2. AllocatesAt(legs, al[a])
    BY DEF Promises
  <2>3. /\ i \in DOMAIN legs /\ al[a].stake \in Nat \ {0} /\ al[a].payout \in Nat
        /\ \E l \in DOMAIN leg.levels :
              /\ al[a].payout = (al[a].stake * PPM) \div EffectivePpm(leg, l)
              /\ al[a].stake <= leg.levels[l].size
    BY <2>2 DEF AllocatesAt
  <2>4. leg = BookLegFromCandidate(c) /\ c \in CandidateTypes
    BY <2>3 DEF LegsOf
  <2>5. plan[a] = ExecutionLeg(c)
    OBVIOUS
  <2>6. /\ plan[a].outcome = c.outcome /\ plan[a].fee = VenueFees[c.venue] /\ plan[a].quoted = c.price
        /\ plan[a].venue = c.venue /\ plan[a].capacity = c.raw_size
        /\ plan[a].increment = VenueIncrements[c.venue]
    <3> HIDE DEF plan, c
    <3> QED BY <2>5 DEF ExecutionLeg
  <2>7. leg.outcome = c.outcome /\ leg.fee = VenueFees[c.venue]
        /\ leg.levels = <<[price |-> c.price, size |-> c.size]>>
    <3> HIDE DEF leg, c
    <3> QED BY <2>4 DEF BookLegFromCandidate
  <2>8. DOMAIN leg.levels = {1} /\ leg.levels[1].price = c.price /\ leg.levels[1].size = c.size
    <3> HIDE DEF leg, c
    <3> QED BY <2>7
  <2>9. al[a].payout = (al[a].stake * PPM) \div EffectivePpm(leg, 1) /\ al[a].stake <= c.size
    <3> HIDE DEF leg
    <3> QED BY <2>3, <2>8
  <2>10. EffectivePpm(leg, 1) = Effective(VenueFees[c.venue], c.price)
    BY <2>7, <2>8 DEF EffectivePpm
  <2>11. /\ c.outcome \in 1 .. OutcomeCount /\ c.venue \in 1 .. VenueCount
         /\ c.price \in Probs /\ c.raw_size \in Int
         /\ c.size = Discounted(VenueSurvival[c.venue], c.raw_size)
    <3> HIDE DEF c
    <3> QED BY <2>4 DEF CandidateTypes
  <2> HIDE DEF plan, c, leg
  <2>12. Executes(plan[a], al[a].stake)
    BY <2>3, <2>6, <2>9, <2>11 DEF Executes
  <2> QED BY <2>12, <2>3, <2>6, <2>7, <2>9, <2>10 DEF leg
<1>6. CostOf(r) = SumFunctionOnSet(StakeOf(signal), DOMAIN al)
  <2> DEFINE f == [a \in DOMAIN plan |-> al[a].stake]
  <2>1. CostOf(r) = SumFunction(f)
    <3> HIDE DEF plan
    <3> QED BY <1>2 DEF CostOf
  <2>2. f = StakeOf(signal)
    BY DEF StakeOf
  <2>3. SumFunction(f) = SumFunctionOnSet(f, DOMAIN al)
    BY <1>4 DEF SumFunction
  <2> HIDE DEF f
  <2> QED BY <2>1, <2>2, <2>3
<1>7. \A o \in 1 .. OutcomeCount :
        PaysOn(r, o) = SumFunctionOnSet(PayoutOf(signal), AllocatedTo(legs, signal, o))
  <2>1. TAKE o \in 1 .. OutcomeCount
  <2> DEFINE A == {a \in DOMAIN plan : plan[a].outcome = o}
             f == [a \in A |-> (al[a].stake * PPM) \div Effective(plan[a].fee, plan[a].quoted)]
  <2>2. PaysOn(r, o) = SumFunction(f)
    <3> HIDE DEF plan
    <3> QED BY <1>2 DEF PaysOn
  <2>3. A = AllocatedTo(legs, signal, o)
    <3> HIDE DEF plan
    <3> QED BY <1>4, <1>5 DEF AllocatedTo
  <2>4. SumFunction(f) = SumFunctionOnSet(f, A)
    BY DEF SumFunction
  <2>5. \A a \in A : f[a] = PayoutOf(signal)[a]
    <3> HIDE DEF plan
    <3> QED BY <1>4, <1>5 DEF PayoutOf
  <2>6. IsFiniteSet(A)
    <3>1. A \subseteq DOMAIN al
      OBVIOUS
    <3> HIDE DEF A
    <3> QED BY <1>3, <3>1, FS_Subset
  <2>7. SumFunctionOnSet(f, A) = SumFunctionOnSet(PayoutOf(signal), A)
    <3> HIDE DEF A, f
    <3> QED BY <2>5, <2>6, SumOfEqual
  <2> HIDE DEF A, f
  <2> QED BY <2>2, <2>3, <2>4, <2>7
<1>8. \A o \in 1 .. OutcomeCount : o \in DOMAIN legs /\ legs[o].outcome = o
  BY DEF LegsOf
<1>9. \A o \in 1 .. OutcomeCount :
        SumFunctionOnSet(PayoutOf(signal), AllocatedTo(legs, signal, o)) >=
            SumFunctionOnSet(StakeOf(signal), DOMAIN al) + signal.worst_case_profit
  <2>1. TAKE o \in 1 .. OutcomeCount
  <2>2. SumFunctionOnSet(PayoutOf(signal), AllocatedTo(legs, signal, legs[o].outcome)) >=
            SumFunctionOnSet(StakeOf(signal), DOMAIN al) + signal.worst_case_profit
    BY <1>8 DEF Promises
  <2> QED BY <1>8, <2>2
<1>10. signal.worst_case_profit \in Nat \ {0}
  BY DEF Promises
<1>11. /\ \E k \in Nat : DOMAIN plan = 1 .. k
       /\ \A a \in DOMAIN plan : Executes(plan[a], al[a].stake)
  <2> HIDE DEF plan, al
  <2> QED BY <1>3, <1>4, <1>5
<1>12. Sound(r)
  <2> HIDE DEF plan
  <2>1. \A o \in 1 .. OutcomeCount : PaysOn(r, o) >= CostOf(r) + signal.worst_case_profit
    <3> HIDE DEF al
    <3> QED BY <1>6, <1>7, <1>9
  <2> QED BY <1>2, <1>4, <1>10, <1>11, <2>1 DEF Sound
<1> QED BY <1>12 DEF r

\* So can no plan,
LEMMA NoPlanSound == Sound(NoPlan)
BY DEF Sound

\* and so can what the engine makes of any books.
LEMMA EvaluationSound ==
    ASSUME NEW bs \in [Sides -> Seq(Quotes)]
    PROVE  Sound(Evaluation(bs))
<1> DEFINE cands == Candidates(bs)
           chosen == Selection(cands)
           legs == [i \in DOMAIN chosen |-> BookLegFromCandidate(cands[chosen[i]])]
           single == SubSeq(legs, 1, OutcomeCount)
           a == DetectBook(legs, Budget)
           b == DetectBook(single, Budget)
<1>1. CASE \E o \in 1 .. OutcomeCount : Of(cands, o) = {}
  BY <1>1, NoPlanSound DEF Evaluation
<1>2. CASE \A o \in 1 .. OutcomeCount : Of(cands, o) # {}
  <2>1. Evaluation(bs) = Decide(cands, chosen, a, b)
    BY <1>2 DEF Evaluation, Shop
  <2>2. cands \in Seq(CandidateTypes)
    BY CandidatesType
  <2> HIDE DEF cands
  <2>3. /\ chosen \in Seq(DOMAIN cands) /\ OutcomeCount <= Len(chosen)
        /\ Len(chosen) <= MAX_CHUNKS
        /\ \A o \in 1 .. OutcomeCount : chosen[o] \in Of(cands, o)
    BY <1>2, <2>2, SelectionType
  <2> HIDE DEF chosen
  <2>4. /\ LegsOf(cands, chosen, legs) /\ LegsOf(cands, chosen, single)
        /\ Len(legs) <= MAX_CHUNKS /\ Len(single) <= MAX_CHUNKS
    BY <2>2, <2>3, ShoppedLegs, MarketIsRegistered
  <2>5. legs \in Seq(BookLegs) /\ single \in Seq(BookLegs) /\ Budget \in Int
    BY <2>4, MarketIsRegistered DEF LegsOf
  <2> HIDE DEF legs, single
  <2>6. /\ a \in {Malformed, NoSignal} \/ (a.kind = "signal" /\ Promises(legs, a))
        /\ b \in {Malformed, NoSignal} \/ (b.kind = "signal" /\ Promises(single, b))
    BY <2>5, DetectPromises
  <2> HIDE DEF a, b
  <2>7. Malformed \notin {a, b}
    <3>1. a # Malformed /\ b # Malformed
      BY <2>4, ShoppedWellFormed DEF a, b
    <3> QED BY <3>1
  <2>8. Sound(Decide(cands, chosen, a, b))
    <3> DEFINE s == BetterOf(a, b)
    <3>1. Decide(cands, chosen, a, b) = Executable(cands, chosen, s)
      BY <2>7 DEF Decide
    <3>2. s \in {a, b}
      BY DEF BetterOf
    <3> HIDE DEF s
    <3>3. CASE s = NoSignal
      <4>1. Executable(cands, chosen, s) = NoPlan
        BY <3>3 DEF Executable
      <4> QED BY <2>1, <3>1, <4>1, NoPlanSound
    <3>4. CASE s # NoSignal
      <4>1. s.kind = "signal" /\ (Promises(legs, s) \/ Promises(single, s))
        BY <2>6, <2>7, <3>2, <3>4
      <4>2. CASE Promises(legs, s)
        <5>1. Sound(Executable(cands, chosen, s))
          BY <2>4, <4>1, <4>2, ExecutableSound
        <5> QED BY <2>1, <3>1, <5>1
      <4>3. CASE Promises(single, s)
        <5>1. Sound(Executable(cands, chosen, s))
          BY <2>4, <4>1, <4>3, ExecutableSound
        <5> QED BY <2>1, <3>1, <5>1
      <4> QED BY <4>1, <4>2, <4>3
    <3> QED BY <3>3, <3>4
  <2> QED BY <2>1, <2>8
<1> QED BY <1>1, <1>2

\* Whatever the books held, executing the legs as planned earns the profit that
\* the signal reports, and that is positive, whichever outcome settles (arb.rs
\* worst_case_profit).
THEOREM Guarantee == EngineSpec => []GuaranteedWhateverSettles
<1>1. EngineInit => books \in [Sides -> Seq(Quotes)] /\ Sound(result)
  BY NoPlanSound DEF EngineInit
<1>2. ASSUME books \in [Sides -> Seq(Quotes)] /\ Sound(result), [EngineNext]_engineVars
      PROVE  (books \in [Sides -> Seq(Quotes)] /\ Sound(result))'
  <2>1. CASE UNCHANGED engineVars
    BY <1>2, <2>1 DEF engineVars, Sound, PaysOn, CostOf
  <2>2. ASSUME NEW s \in Sides, NEW b \in Books, ApplyEvent(s, b)
        PROVE  (books \in [Sides -> Seq(Quotes)] /\ Sound(result))'
    <3>1. b \in Seq(Quotes)
      BY BooksAreLevels
    <3>2. books' \in [Sides -> Seq(Quotes)] /\ result' = NoPlan
      BY <1>2, <2>2, <3>1 DEF ApplyEvent
    <3> QED BY <3>2, NoPlanSound DEF Sound, PaysOn, CostOf, Executes
  <2>3. CASE EvaluateMarket
    <3>1. books' = books /\ result' = Evaluation(books)
      BY <2>3 DEF EvaluateMarket
    <3>2. Sound(Evaluation(books))
      BY <1>2, EvaluationSound
    <3>3. Sound(result')
      BY <3>1, <3>2
    <3> QED BY <1>2, <3>1, <3>3 DEF Sound, PaysOn, CostOf, Executes
  <2> QED BY <1>2, <2>1, <2>2, <2>3 DEF EngineNext
<1>3. Sound(result) => GuaranteedWhateverSettles
  <2> SUFFICES ASSUME Sound(result), Signalled PROVE GuaranteedWhateverSettles
    BY DEF GuaranteedWhateverSettles
  <2>1. \A o \in 1 .. OutcomeCount :
          Paid({a \in DOMAIN result.plan : result.plan[a].outcome = o}) = PaysOn(result, o)
    BY DEF Paid, PaysOn
  <2>2. Staked(DOMAIN result.plan) = CostOf(result)
    BY DEF Staked, CostOf
  <2>3. /\ result.signal.worst_case_profit \in Nat \ {0}
        /\ \A o \in 1 .. OutcomeCount : PaysOn(result, o) >= CostOf(result) + result.signal.worst_case_profit
    BY DEF Sound, Signalled, NoPlan, NoSignal
  <2>4. result.signal.worst_case_profit > 0
    BY <2>3
  <2> QED BY <2>1, <2>2, <2>3, <2>4 DEF GuaranteedWhateverSettles
<1> QED BY <1>1, <1>2, <1>3, PTL DEF EngineSpec

(***************************************************************************)
(* Books of one level per outcome, on which the single-quote plan is sized *)
(***************************************************************************)

\* The numbers up to k in ascending order.
LEMMA Counted ==
    ASSUME NEW k \in Nat
    PROVE  /\ Cardinality(1 .. k) = k
           /\ DOMAIN Ordered(1 .. k, <) = 1 .. k
           /\ \A n \in 1 .. k : Ordered(1 .. k, <)[n] = n
<1> DEFINE S == 1 .. k
           s == Ordered(S, <)
<1>1. IsFiniteSet(S) /\ Cardinality(S) = k
  BY FS_Interval
<1>2. \A x \in S : Cardinality({y \in S : y < x}) = x - 1
  <2>1. TAKE x \in S
  <2>2. {y \in S : y < x} = 1 .. x - 1
    OBVIOUS
  <2>3. x - 1 \in Int /\ Cardinality(1 .. x - 1) = IF 1 > x - 1 THEN 0 ELSE (x - 1) - 1 + 1
    BY FS_Interval
  <2>4. Cardinality(1 .. x - 1) = x - 1
    <3> HIDE DEF s
    <3> QED BY <2>3
  <2> HIDE DEF s, S
  <2> QED BY <2>2, <2>4
<1>3. s = [n \in 1 .. Cardinality(S) |-> CHOOSE x \in S : Cardinality({y \in S : y < x}) = n - 1]
  BY DEF Ordered
<1>4. s = [n \in S |-> CHOOSE x \in S : Cardinality({y \in S : y < x}) = n - 1]
  <2> HIDE DEF s
  <2> QED BY <1>1, <1>3
<1>5. \A n \in S : s[n] = n
  <2>1. TAKE n \in S
  <2>2. \E x \in S : Cardinality({y \in S : y < x}) = n - 1
    <3> HIDE DEF S
    <3> QED BY <1>2
  <2> HIDE DEF s
  <2>4. s[n] \in S /\ Cardinality({y \in S : y < s[n]}) = n - 1
    <3> HIDE DEF S
    <3> QED BY <1>4, <2>2
  <2>3. s[n] - 1 = n - 1
    BY <1>2, <2>4
  <2> QED BY <2>3, <2>4
<1>6. DOMAIN s = S
  <2> HIDE DEF s, S
  <2> QED BY <1>4
<1> QED BY <1>1, <1>5, <1>6

\* One leg of one level for each of k outcomes, each worth an increment.
Single(legs, k) ==
    /\ legs \in Seq(BookLegs) /\ k \in Nat /\ DOMAIN legs = 1 .. k
    /\ \A o \in 1 .. k : /\ legs[o].outcome = o /\ DOMAIN legs[o].levels = {1}
                         /\ UsableCapacity(legs[o], 1) >= legs[o].increment

\* The outcomes of such a book are numbered as its legs are.
LEMMA SingleOutcomes ==
    ASSUME NEW legs, NEW k, Single(legs, k)
    PROVE  Outcomes(legs) = [g \in 1 .. k |-> g]
<1> DEFINE first == {i \in DOMAIN legs : \A j \in 1 .. i - 1 : legs[j].outcome # legs[i].outcome}
           order == Ordered(first, <)
<1>1. k \in Nat /\ DOMAIN legs = 1 .. k /\ \A o \in 1 .. k : legs[o].outcome = o
  BY DEF Single
<1>2. first = 1 .. k
  BY <1>1
<1>3. Outcomes(legs) = [g \in 1 .. Cardinality(first) |-> legs[order[g]].outcome]
  BY DEF Outcomes
<1>4. Cardinality(first) = k /\ \A g \in 1 .. k : order[g] = g
  <2> HIDE DEF first, order
  <2> QED BY <1>1, <1>2, Counted DEF order
<1> HIDE DEF first, order
<1> QED BY <1>1, <1>3, <1>4

\* Every outcome has its one level to choose.
LEMMA SingleLevels ==
    ASSUME NEW legs, NEW k, Single(legs, k)
    PROVE  /\ {legs[il[1]].outcome : il \in Usable(legs)} = 1 .. k
           /\ \A o \in 1 .. k : BestLevel(legs, o) = <<o, 1>>
<1>1. /\ legs \in Seq(BookLegs) /\ k \in Nat /\ DOMAIN legs = 1 .. k
      /\ \A o \in 1 .. k : /\ legs[o].outcome = o /\ DOMAIN legs[o].levels = {1}
                           /\ UsableCapacity(legs[o], 1) >= legs[o].increment
  BY DEF Single
<1>2. \A o \in 1 .. k : <<o, 1>> \in Usable(legs)
  <2>1. TAKE o \in 1 .. k
  <2>2. <<o, 1>> \in {o} \X DOMAIN legs[o].levels
    BY <1>1
  <2>3. <<o, 1>> \in UNION {{i} \X DOMAIN legs[i].levels : i \in DOMAIN legs}
    BY <1>1, <2>2
  <2> QED BY <1>1, <2>3 DEF Usable
<1>3. \A il \in Usable(legs) : il[1] \in 1 .. k /\ il = <<il[1], 1>>
  <2>1. TAKE il \in Usable(legs)
  <2>2. il \in Int \X Int /\ il[1] \in DOMAIN legs /\ il[2] \in DOMAIN legs[il[1]].levels
    BY <1>1, UsableLevels
  <2> QED BY <1>1, <2>2
<1>4. {legs[il[1]].outcome : il \in Usable(legs)} = 1 .. k
  <2>1. \A il \in Usable(legs) : legs[il[1]].outcome \in 1 .. k
    BY <1>1, <1>3
  <2>2. \A o \in 1 .. k : \E il \in Usable(legs) : legs[il[1]].outcome = o
    <3>1. TAKE o \in 1 .. k
    <3>2. <<o, 1>> \in Usable(legs) /\ legs[<<o, 1>>[1]].outcome = o
      BY <1>1, <1>2
    <3> QED BY <3>2
  <2> QED BY <2>1, <2>2
<1>5. \A o \in 1 .. k : BestLevel(legs, o) = <<o, 1>>
  <2>1. TAKE o \in 1 .. k
  <2>2. o \in {legs[il[1]].outcome : il \in Usable(legs)}
    BY <1>4
  <2>3. BestLevel(legs, o) \in Usable(legs) /\ legs[BestLevel(legs, o)[1]].outcome = o
    BY <1>1, <2>2, BestUsable
  <2> DEFINE il == BestLevel(legs, o)
  <2> HIDE DEF il
  <2>4. il \in Usable(legs) /\ legs[il[1]].outcome = o
    BY <2>3 DEF il
  <2>5. il[1] = o /\ il = <<il[1], 1>>
    BY <1>1, <1>3, <2>4
  <2> QED BY <2>5 DEF il
<1> QED BY <1>4, <1>5

\* The chunk of the level of an outcome's leg.
SingleChunk(legs, g, c) ==
    /\ c.group = g /\ c.price = EffectivePpm(legs[g], 1)
    /\ c.increment = legs[g].increment /\ c.resting = legs[g].levels[1].size

\* There is one chunk for each outcome, priced from its one level.
LEMMA SingleChunks ==
    ASSUME NEW legs, NEW k, Single(legs, k), k \in 1 .. MAX_CHUNKS
    PROVE  /\ Len(Outcomes(legs)) = k
           /\ Range(Outcomes(legs)) = {legs[il[1]].outcome : il \in Usable(legs)}
           /\ Sized(legs, Outcomes(legs), Flatten(legs, Outcomes(legs)))
           /\ \A g \in 1 .. k : SingleChunk(legs, g, Flatten(legs, Outcomes(legs))[g])
<1> DEFINE groups == Outcomes(legs)
           chunks == Flatten(legs, groups)
<1>1. legs \in Seq(BookLegs) /\ k \in Nat /\ \A o \in 1 .. k : legs[o].outcome = o
  BY DEF Single
<1>2. groups = [g \in 1 .. k |-> g]
  BY SingleOutcomes
<1> HIDE DEF groups
<1>3. Len(groups) = k /\ DOMAIN groups = 1 .. k /\ \A g \in 1 .. k : groups[g] = g
  BY <1>1, <1>2
<1>4. Range(groups) = 1 .. k
  BY <1>3 DEF Range
<1>5. Range(groups) = {legs[il[1]].outcome : il \in Usable(legs)}
  BY <1>4, SingleLevels
<1>6. /\ Sized(legs, groups, chunks)
      /\ \A g \in DOMAIN groups : chunks[g] = ChunkOf(legs, groups, BestLevel(legs, groups[g]))
  <2>1. Len(groups) <= MAX_CHUNKS
    BY <1>3
  <2> HIDE DEF chunks
  <2> QED BY <1>1, <1>5, <2>1, Flattened DEF groups, chunks
<1>7. \A g \in 1 .. k : SingleChunk(legs, g, chunks[g])
  <2>1. TAKE g \in 1 .. k
  <2> DEFINE c == ChunkOf(legs, groups, <<g, 1>>)
  <2>2. chunks[g] = c
    <3>1. BestLevel(legs, groups[g]) = <<g, 1>>
      BY <1>3, SingleLevels
    <3> HIDE DEF chunks
    <3> QED BY <1>3, <1>6, <3>1
  <2>3. (CHOOSE h \in DOMAIN groups : groups[h] = legs[g].outcome) = g
    BY <1>1, <1>3
  <2>4. c = [leg |-> g, group |-> CHOOSE h \in DOMAIN groups : groups[h] = legs[g].outcome,
             price |-> EffectivePpm(legs[g], 1), increment |-> legs[g].increment,
             capacity |-> UsableCapacity(legs[g], 1), resting |-> legs[g].levels[1].size]
    BY DEF ChunkOf
  <2> HIDE DEF c, chunks
  <2> QED BY <2>2, <2>3, <2>4 DEF SingleChunk
<1> HIDE DEF chunks
<1> QED BY <1>3, <1>5, <1>6, <1>7 DEF chunks, groups

\* Stakes that all return more than they cost together buy below parity.
LEMMA BelowParity ==
    ASSUME NEW S, IsFiniteSet(S), NEW stake, NEW price,
           \A x \in S : stake[x] \in Nat /\ price[x] \in Nat \ {0},
           \A x \in S : (stake[x] * PPM) \div price[x] > SumFunctionOnSet(stake, S)
    PROVE  SumFunctionOnSet(price, S) < PPM
<1> DEFINE T == SumFunctionOnSet(stake, S)
           C == SumFunctionOnSet(price, S)
<1>1. T \in Nat /\ C \in Nat /\ PPM \in Nat \ {0}
  BY SumNotNegative, UnitsArePositive
<1> HIDE DEF T, C
<1>2. \A x \in S : stake[x] \in Int /\ price[x] \in Int /\ price[x] * (T + 1) <= stake[x] * PPM
  <2>1. TAKE x \in S
  <2> DEFINE paid == stake[x] * PPM
             q == paid \div price[x]
  <2>2. stake[x] \in Nat /\ price[x] \in Nat \ {0} /\ paid \in Int
    BY <1>1
  <2>3. q > T
    BY DEF T
  <2>4. q \in Int /\ q * price[x] \in Int /\ q * price[x] <= paid
    <3> HIDE DEF paid
    <3> QED BY <2>2, Quotient
  <2> HIDE DEF q
  <2>5. (T + 1) * price[x] <= q * price[x]
    <3>1. T + 1 \in Int /\ T + 1 <= q
      BY <1>1, <2>3, <2>4
    <3> QED BY <2>2, <2>4, <3>1, Monotone
  <2>6. price[x] * (T + 1) = (T + 1) * price[x] /\ (T + 1) * price[x] \in Int
    BY <1>1, <2>2
  <2> DEFINE y == q * price[x]
             z == (T + 1) * price[x]
  <2> HIDE DEF y, z, paid
  <2>7. z <= y /\ y <= paid /\ price[x] * (T + 1) = z /\ z \in Int /\ y \in Int
    BY <2>4, <2>5, <2>6 DEF y, z
  <2>8. price[x] * (T + 1) <= paid
    BY <2>2, <2>7
  <2> QED BY <2>2, <2>8 DEF paid
<1>3. C * (T + 1) <= T * PPM
  <2>1. T + 1 \in Nat /\ PPM \in Nat
    BY <1>1
  <2>2. SumFunctionOnSet(price, S) * (T + 1) <= SumFunctionOnSet(stake, S) * PPM
    <3> DEFINE b == T + 1
    <3>1. b \in Nat /\ \A x \in S : stake[x] \in Int /\ price[x] \in Int /\ price[x] * b <= stake[x] * PPM
      BY <1>2, <2>1
    <3> HIDE DEF b
    <3>2. SumFunctionOnSet(price, S) * b <= SumFunctionOnSet(stake, S) * PPM
      BY <2>1, <3>1, SumScaled
    <3> QED BY <3>2 DEF b
  <2> QED BY <2>2 DEF T, C
<1>4. C < PPM
  <2> SUFFICES ASSUME PPM <= C PROVE FALSE
    BY <1>1
  <2>1. PPM * (T + 1) <= C * (T + 1)
    BY <1>1, Monotone
  <2>2. PPM * (T + 1) = T * PPM + PPM /\ T * PPM \in Int /\ C * (T + 1) \in Int
    BY <1>1
  <2> DEFINE y == T * PPM
             z == C * (T + 1)
  <2> HIDE DEF y, z
  <2>3. y + PPM <= z /\ z <= y /\ y \in Int /\ z \in Int
    BY <1>3, <2>1, <2>2 DEF y, z
  <2> QED BY <1>1, <2>3
<1> QED BY <1>4 DEF C

\* The first chunks are those of the outcomes, in order.
FirstOfEach(chunks, n) == \A g \in 1 .. n : chunks[g].group = g

\* What a plan on only these returns and costs.
LEMMA FirstChunksPlan ==
    ASSUME NEW chunks, NEW n, Priced(chunks, n), FirstOfEach(chunks, n),
           NEW stakes \in Plans(chunks), \A j \in DOMAIN chunks \ 1 .. n : stakes[j] = 0
    PROVE  /\ \A g \in 1 .. n : GroupPayout(chunks, stakes, g) = Payout(chunks[g], stakes[g])
           /\ Total(stakes) = SumFunctionOnSet(stakes, 1 .. n)
<1>1. /\ IsFiniteSet(DOMAIN chunks) /\ 1 .. n \subseteq DOMAIN chunks
      /\ DOMAIN stakes = DOMAIN chunks /\ \A j \in DOMAIN chunks : stakes[j] \in Nat
  BY DEF Priced, Plans
<1>2. Total(stakes) = SumFunctionOnSet(stakes, 1 .. n)
  <2>1. Total(stakes) = SumFunctionOnSet(stakes, DOMAIN chunks)
    BY <1>1 DEF Total, SumFunction
  <2> DEFINE I == 1 .. n
  <2>2. I \subseteq DOMAIN chunks /\ (\A j \in DOMAIN chunks : stakes[j] \in Int)
        /\ \A j \in DOMAIN chunks \ I : stakes[j] = 0
    BY <1>1
  <2> HIDE DEF I
  <2>3. SumFunctionOnSet(stakes, DOMAIN chunks) = SumFunctionOnSet(stakes, I)
    BY <1>1, <2>2, SumWithoutZeros
  <2> QED BY <2>1, <2>3 DEF I
<1>3. \A g \in 1 .. n : GroupPayout(chunks, stakes, g) = Payout(chunks[g], stakes[g])
  <2>1. TAKE g \in 1 .. n
  <2> DEFINE M == Members(chunks, g)
             f == [j \in M |-> Payout(chunks[j], stakes[j])]
  <2>2. GroupPayout(chunks, stakes, g) = SumFunctionOnSet(f, M)
    BY DEF GroupPayout, PaidBy, SumFunction
  <2>3. M \subseteq DOMAIN chunks /\ IsFiniteSet(M) /\ {g} \subseteq M
    BY <1>1, FS_Subset DEF Members, FirstOfEach
  <2>4. \A j \in M : j # g => stakes[j] = 0
    BY <1>1 DEF Members, FirstOfEach
  <2>5. \A j \in M : f[j] \in Int
    <3>1. \A j \in M : Payout(chunks[j], stakes[j]) \in Nat
      <4> HIDE DEF M
      <4> QED BY <1>1, <2>3, PayoutType
    <3> HIDE DEF M
    <3> QED BY <3>1
  <2>6. \A j \in M \ {g} : f[j] = 0
    <3>1. TAKE j \in M \ {g}
    <3>2. j \in DOMAIN chunks /\ stakes[j] = 0 /\ f[j] = Payout(chunks[j], stakes[j])
      <4> HIDE DEF M
      <4> QED BY <2>3, <2>4
    <3>3. f[j] = (0 * PPM) \div chunks[j].price /\ chunks[j].price \in Nat \ {0} /\ PPM \in Nat
      <4> HIDE DEF f, M
      <4> QED BY <3>2, UnitsArePositive DEF Payout, Priced
    <3>4. 0 * PPM = 0 /\ 0 \div chunks[j].price = 0
      BY <3>3
    <3> QED BY <3>3, <3>4
  <2>7. f[g] = Payout(chunks[g], stakes[g]) /\ f[g] \in Int
    <3> HIDE DEF M
    <3> QED BY <2>3, <2>5
  <2> HIDE DEF f, M
  <2>8. SumFunctionOnSet(f, M) = SumFunctionOnSet(f, {g})
    BY <2>3, <2>5, <2>6, SumWithoutZeros
  <2>9. SumFunctionOnSet(f, {g}) = f[g]
    BY <2>7, SumOfOne
  <2> QED BY <2>2, <2>7, <2>8, <2>9
<1> QED BY <1>2, <1>3

\* The closed form, when it stakes on every outcome, is what the search starts from.
LEMMA ClosedFormOffered ==
    ASSUME NEW chunks, NEW n, Priced(chunks, n), FirstOfEach(chunks, n),
           NEW budget \in Nat, NEW overround \in Nat \ {0},
           NEW stakes, stakes = ClosedForm(chunks, n, budget, overround),
           \A g \in 1 .. n : stakes[g] > 0
    PROVE  /\ OfferClosedForm(chunks, n, budget, overround) = Found(chunks, n, stakes)
           /\ stakes \in Plans(chunks)
           /\ \A g \in 1 .. n : GroupPayout(chunks, stakes, g) = Payout(chunks[g], stakes[g])
           /\ Total(stakes) = SumFunctionOnSet(stakes, 1 .. n)
<1>1. stakes \in Plans(chunks)
  BY ClosedFormType
<1>2. \A j \in DOMAIN chunks \ 1 .. n : stakes[j] = 0
  BY DEF ClosedForm
<1>3. /\ \A g \in 1 .. n : GroupPayout(chunks, stakes, g) = Payout(chunks[g], stakes[g])
      /\ Total(stakes) = SumFunctionOnSet(stakes, 1 .. n)
  BY <1>1, <1>2, FirstChunksPlan
<1>4. Total(stakes) > 0
  <2>1. n \in Nat \ {0} /\ 1 .. n \subseteq DOMAIN chunks
    BY DEF Priced
  <2>2. IsFiniteSet(1 .. n) /\ 1 .. n # {} /\ \A g \in 1 .. n : stakes[g] \in Nat \ {0}
    <3>0. 1 \in Int /\ n \in Int /\ 1 \in 1 .. n
      BY <2>1
    <3>1. IsFiniteSet(1 .. n)
      BY <3>0, FS_Interval
    <3>2. \A g \in 1 .. n : stakes[g] \in Nat
      BY <1>1, <2>1 DEF Plans
    <3>3. 1 .. n # {} /\ \A g \in 1 .. n : stakes[g] \in Nat \ {0}
      BY <3>0, <3>2
    <3> QED BY <3>1, <3>3
  <2> DEFINE I == 1 .. n
  <2> HIDE DEF I
  <2>3. SumFunctionOnSet(stakes, I) \in Nat \ {0}
    BY <2>2, PositiveSum DEF I
  <2> QED BY <1>3, <2>3 DEF I
<1>5. OfferClosedForm(chunks, n, budget, overround) = Offer(NothingFound, chunks, n, stakes)
  BY DEF OfferClosedForm
<1>6. NothingFound.found = FALSE
  BY DEF NothingFound
<1>7. Offer(NothingFound, chunks, n, stakes) = Found(chunks, n, stakes)
  BY <1>4, <1>6 DEF Offer, Found
<1> QED BY <1>1, <1>3, <1>5, <1>7

(***************************************************************************)
(* The single-quote plan as the search sees it: the closed form on the     *)
(* cheapest quotes                                                         *)
(***************************************************************************)

\* The sum of the prices of one quote per outcome, and what is spent on them.
QuoteSum(top) == SumFunction([o \in 1 .. OutcomeCount |-> top[o].eff_ppm])

\* What the single-quote plan spends.
QuoteSpend(top) ==
    Min({Budget} \cup {(top[o].size * QuoteSum(top)) \div top[o].eff_ppm : o \in 1 .. OutcomeCount})

\* What the single-quote plan stakes on an outcome.
QuoteStake(top, o) ==
    RoundDownTo((QuoteSpend(top) * top[o].eff_ppm) \div QuoteSum(top), VenueIncrements[top[o].venue])

\* The reference plan in these terms.
LEMMA QuotePlan ==
    ASSUME NEW top
    PROVE  EqualPayoffPlan(top) =
             [o \in 1 .. OutcomeCount |-> [price |-> top[o].eff_ppm, stake |-> QuoteStake(top, o)]]
BY DEF EqualPayoffPlan, QuoteStake, QuoteSpend, QuoteSum

\* The single-quote plan spends no more than any quote holds.
LEMMA QuoteTypes ==
    ASSUME NEW top \in [1 .. OutcomeCount -> CandidateTypes]
    PROVE  /\ QuoteSum(top) \in Nat \ {0} /\ QuoteSpend(top) \in Int /\ QuoteSpend(top) <= Budget
           /\ \A o \in 1 .. OutcomeCount :
                 /\ top[o].eff_ppm \in Nat \ {0} /\ top[o].size \in Nat
                 /\ VenueIncrements[top[o].venue] \in Nat \ {0}
                 /\ QuoteSpend(top) <= (top[o].size * QuoteSum(top)) \div top[o].eff_ppm
<1> DEFINE I == 1 .. OutcomeCount
           sum == QuoteSum(top)
           cap == [o \in I |-> (top[o].size * sum) \div top[o].eff_ppm]
           all == {Budget} \cup Values(cap, I)
<1>1. OutcomeCount \in Nat \ {0} /\ Budget \in Int
  BY MarketIsRegistered
<1>2. IsFiniteSet(I) /\ I # {}
  <2>1. 1 \in I
    BY <1>1
  <2>2. IsFiniteSet(I)
    BY <1>1, FS_Interval
  <2> QED BY <2>1, <2>2
<1>3. \A o \in I : top[o].eff_ppm \in Nat \ {0} /\ top[o].size \in Nat /\ top[o].venue \in 1 .. VenueCount
  <2>1. TAKE o \in I
  <2>2. top[o] \in CandidateTypes
    OBVIOUS
  <2> QED BY <2>2 DEF CandidateTypes
<1>4. \A o \in I : VenueIncrements[top[o].venue] \in Nat \ {0}
  BY <1>3, MarketIsRegistered
<1>5. sum \in Nat \ {0}
  <2> DEFINE f == [o \in I |-> top[o].eff_ppm]
  <2>1. sum = SumFunctionOnSet(f, I)
    BY DEF QuoteSum, SumFunction
  <2>2. \A o \in I : f[o] \in Nat \ {0}
    BY <1>3
  <2> HIDE DEF f, I, sum
  <2> QED BY <1>2, <2>1, <2>2, PositiveSum
<1>6. \A o \in I : cap[o] \in Int /\ cap[o] = (top[o].size * sum) \div top[o].eff_ppm
  <2>1. TAKE o \in I
  <2> DEFINE most == top[o].size * sum
  <2>2. most \in Int /\ top[o].eff_ppm \in Nat \ {0}
    BY <1>3, <1>5
  <2> HIDE DEF most
  <2>3. most \div top[o].eff_ppm \in Int
    BY <2>2, Quotient
  <2> QED BY <2>3 DEF most
<1>7. QuoteSpend(top) = Min(all)
  <2>1. Values(cap, I) = {(top[o].size * sum) \div top[o].eff_ppm : o \in I}
    BY DEF Values
  <2> HIDE DEF sum
  <2> QED BY <2>1 DEF QuoteSpend, sum
<1>8. IsFiniteSet(all) /\ all # {} /\ all \subseteq Int
  <2> HIDE DEF cap, I
  <2>1. IsFiniteSet(Values(cap, I)) /\ IsFiniteSet({Budget})
    BY <1>2, ValuesFinite, FS_Singleton
  <2>2. Values(cap, I) \subseteq Int
    BY <1>6 DEF Values
  <2>3. IsFiniteSet(all)
    BY <2>1, FS_Union
  <2> QED BY <1>1, <2>2, <2>3
<1>9. Min(all) \in all /\ \A x \in all : Min(all) <= x
  <2> HIDE DEF all
  <2> QED BY <1>8, LeastOf
<1>10. Budget \in all /\ \A o \in I : cap[o] \in all
  BY DEF Values
<1> HIDE DEF all, cap
<1>11. Min(all) \in Int /\ Min(all) <= Budget /\ \A o \in I : Min(all) <= cap[o]
  BY <1>8, <1>9, <1>10
<1> QED BY <1>3, <1>4, <1>5, <1>6, <1>7, <1>11

\* One leg per outcome, each holding its quote and nothing else.
QuoteLegs(top, legs) ==
    /\ top \in [1 .. OutcomeCount -> CandidateTypes]
    /\ legs \in Seq(BookLegs) /\ DOMAIN legs = 1 .. OutcomeCount
    /\ \A o \in 1 .. OutcomeCount :
          /\ legs[o] = BookLegFromCandidate(top[o]) /\ top[o].outcome = o
          /\ top[o].eff_ppm = Effective(VenueFees[top[o].venue], top[o].price)

\* The one level of each of its legs.
LEMMA QuoteLevel ==
    ASSUME NEW top, NEW legs, QuoteLegs(top, legs), NEW o \in 1 .. OutcomeCount
    PROVE  /\ legs[o].outcome = o /\ DOMAIN legs[o].levels = {1}
           /\ legs[o].increment = VenueIncrements[top[o].venue]
           /\ legs[o].levels[1].size = top[o].size
           /\ EffectivePpm(legs[o], 1) = top[o].eff_ppm
           /\ UsableCapacity(legs[o], 1) = RoundDownTo(top[o].size, VenueIncrements[top[o].venue])
<1> DEFINE c == top[o]
           leg == legs[o]
<1>1. leg = BookLegFromCandidate(c) /\ c.outcome = o /\ c.eff_ppm = Effective(VenueFees[c.venue], c.price)
  BY DEF QuoteLegs
<1> HIDE DEF c, leg
<1>2. /\ leg.outcome = c.outcome /\ leg.fee = VenueFees[c.venue]
      /\ leg.increment = VenueIncrements[c.venue]
      /\ leg.levels = <<[price |-> c.price, size |-> c.size]>>
  BY <1>1 DEF BookLegFromCandidate
<1>3. DOMAIN leg.levels = {1} /\ leg.levels[1].price = c.price /\ leg.levels[1].size = c.size
  BY <1>2
<1>4. EffectivePpm(leg, 1) = c.eff_ppm
  BY <1>1, <1>2, <1>3 DEF EffectivePpm
<1>5. UsableCapacity(leg, 1) = RoundDownTo(c.size, VenueIncrements[c.venue])
  BY <1>2, <1>3 DEF UsableCapacity
<1> QED BY <1>1, <1>2, <1>3, <1>4, <1>5 DEF c, leg

\* Its chunks are the quotes, and its closed form the equal-payoff plan.
LEMMA QuoteChunks ==
    ASSUME NEW top, NEW legs, QuoteLegs(top, legs), Single(legs, OutcomeCount),
           NEW chunks, chunks = Flatten(legs, Outcomes(legs))
    PROVE  /\ Len(Outcomes(legs)) = OutcomeCount /\ Sized(legs, Outcomes(legs), chunks)
           /\ Priced(chunks, OutcomeCount) /\ FirstOfEach(chunks, OutcomeCount)
           /\ SumFunction([g \in 1 .. OutcomeCount |-> chunks[g].price]) = QuoteSum(top)
           /\ \A o \in 1 .. OutcomeCount :
                 /\ chunks[o].price = top[o].eff_ppm
                 /\ ClosedForm(chunks, OutcomeCount, Budget, QuoteSum(top))[o] = QuoteStake(top, o)
<1> DEFINE n == OutcomeCount
           I == 1 .. n
<1>1. n \in 1 .. MAX_CHUNKS /\ n \in Nat \ {0}
  BY MarketIsRegistered, DetectionBounds
<1>2. /\ Len(Outcomes(legs)) = n /\ Sized(legs, Outcomes(legs), chunks)
      /\ \A g \in I : SingleChunk(legs, g, chunks[g])
  BY <1>1, SingleChunks
<1>3. Priced(chunks, n)
  <2>1. legs \in Seq(BookLegs) /\ Len(Outcomes(legs)) \in Nat \ {0}
    BY <1>1, <1>2 DEF QuoteLegs
  <2> QED BY <1>2, <2>1, SizedIsPriced
<1>4. \A o \in I : /\ chunks[o].group = o /\ chunks[o].price = top[o].eff_ppm
                   /\ chunks[o].increment = VenueIncrements[top[o].venue]
                   /\ chunks[o].resting = top[o].size
  <2>1. TAKE o \in I
  <2>2. SingleChunk(legs, o, chunks[o])
    BY <1>2
  <2> QED BY <2>2, QuoteLevel DEF SingleChunk
<1>5. FirstOfEach(chunks, n)
  BY <1>4 DEF FirstOfEach
<1>6. SumFunction([g \in I |-> chunks[g].price]) = QuoteSum(top)
  <2>1. [g \in I |-> chunks[g].price] = [o \in I |-> top[o].eff_ppm]
    <3> HIDE DEF I
    <3> QED BY <1>4
  <2> QED BY <2>1 DEF QuoteSum
<1>7. \A o \in I : ClosedForm(chunks, n, Budget, QuoteSum(top))[o] = QuoteStake(top, o)
  <2>1. TAKE o \in I
  <2> DEFINE sum == QuoteSum(top)
             caps == {(chunks[g].resting * sum) \div chunks[g].price : g \in I}
             ceiling == Min({Budget} \cup caps)
  <2>2. ClosedForm(chunks, n, Budget, sum) =
          [j \in DOMAIN chunks |->
              IF j \in I THEN RoundDownTo((ceiling * chunks[j].price) \div sum, chunks[j].increment)
              ELSE 0]
    BY DEF ClosedForm
  <2>3. caps = {(top[g].size * sum) \div top[g].eff_ppm : g \in I}
    <3> HIDE DEF I, sum
    <3> QED BY <1>4
  <2>4. ceiling = QuoteSpend(top)
    <3> HIDE DEF caps
    <3> QED BY <2>3 DEF QuoteSpend
  <2>5. o \in DOMAIN chunks
    BY <1>3 DEF Priced
  <2> HIDE DEF ceiling, sum
  <2>6. ClosedForm(chunks, n, Budget, sum)[o] = RoundDownTo((ceiling * chunks[o].price) \div sum, chunks[o].increment)
    BY <2>2, <2>5
  <2> QED BY <1>4, <2>4, <2>6 DEF QuoteStake, sum
<1> QED BY <1>2, <1>3, <1>4, <1>5, <1>6, <1>7

\* The plan on the quotes guarantees what the equal-payoff plan does.
LEMMA QuoteProfit ==
    ASSUME NEW top, NEW ref, ref = EqualPayoffPlan(top),
           NEW chunks, Priced(chunks, OutcomeCount), NEW stakes,
           \A o \in 1 .. OutcomeCount :
              /\ chunks[o].price = top[o].eff_ppm /\ stakes[o] = QuoteStake(top, o)
              /\ GroupPayout(chunks, stakes, o) = Payout(chunks[o], stakes[o]),
           Total(stakes) = SumFunctionOnSet(stakes, 1 .. OutcomeCount)
    PROVE  Profit(chunks, OutcomeCount, stakes) = WorstCase(ref)
<1> DEFINE I == 1 .. OutcomeCount
           f == [o \in I |-> ref[o].stake]
<1>1. ref = [o \in I |-> [price |-> top[o].eff_ppm, stake |-> QuoteStake(top, o)]]
  BY QuotePlan
<1>2. DOMAIN ref = I /\ \A o \in I : ref[o].price = top[o].eff_ppm /\ ref[o].stake = QuoteStake(top, o)
  <2> HIDE DEF I
  <2> QED BY <1>1
<1>3. \A o \in I : GroupPayout(chunks, stakes, o) = (ref[o].stake * PPM) \div ref[o].price
  <2> HIDE DEF I
  <2> QED BY <1>2 DEF Payout, I
<1>4. {GroupPayout(chunks, stakes, g) : g \in I} = {(ref[o].stake * PPM) \div ref[o].price : o \in I}
  <2> HIDE DEF I
  <2> QED BY <1>3
<1>5. SumFunctionOnSet(stakes, I) = SumFunction(f)
  <2>1. SumFunction(f) = SumFunctionOnSet(f, I)
    BY DEF SumFunction
  <2>2. IsFiniteSet(I)
    <3>1. 1 \in Int /\ OutcomeCount \in Int
      BY MarketIsRegistered
    <3> QED BY <3>1, FS_Interval
  <2>3. \A o \in I : stakes[o] = f[o]
    BY <1>2
  <2> HIDE DEF I, f
  <2> QED BY <2>1, <2>2, <2>3, SumOfEqual
<1>6. Profit(chunks, OutcomeCount, stakes) = Min({GroupPayout(chunks, stakes, g) : g \in I}) - Total(stakes)
  BY DEF Profit
<1>7. WorstCase(ref) = Min({(ref[o].stake * PPM) \div ref[o].price : o \in I}) - SumFunction(f)
  <2> HIDE DEF I
  <2> QED BY <1>2 DEF WorstCase
<1> QED BY <1>4, <1>5, <1>6, <1>7

\* A signal that promises at least this much.
AtLeast(signal, profit) ==
    signal.kind = "signal" /\ signal.worst_case_profit \in Int /\ signal.worst_case_profit >= profit

\* A report earns at least what its search found.
LEMMA ReportAtLeast ==
    ASSUME NEW chunks, NEW n, Priced(chunks, n), NEW best \in Bests(chunks, n),
           NEW profit \in Nat \ {0}, best.found, best.profit >= profit
    PROVE  AtLeast(Report(chunks, best), profit)
<1> DEFINE staked == Ordered({j \in DOMAIN chunks : best.stakes[j] > 0}, <)
           al == [a \in DOMAIN staked |->
                    [leg    |-> chunks[staked[a]].leg,
                     stake  |-> best.stakes[staked[a]],
                     payout |-> Payout(chunks[staked[a]], best.stakes[staked[a]])]]
<1>1. best.profit \in Int
  BY BestType
<1>2. Report(chunks, best) =
        IF ~best.found \/ best.profit <= 0 THEN NoSignal
        ELSE [kind |-> "signal", allocations |-> al,
              total_stake |-> Total(best.stakes), worst_case_profit |-> best.profit]
  BY DEF Report
<1> HIDE DEF al
<1>3. ~(~best.found \/ best.profit <= 0)
  BY <1>1
<1> QED BY <1>1, <1>2, <1>3 DEF AtLeast

\* When the equal-payoff plan on the quotes profits, so does the single-quote signal.
LEMMA QuoteIsOffered ==
    ASSUME NEW top, NEW legs, QuoteLegs(top, legs), NEW ref, ref = EqualPayoffPlan(top),
           \A o \in DOMAIN ref : ref[o].stake > 0, WorstCase(ref) > 0
    PROVE  /\ AtLeast(DetectBook(legs, Budget), WorstCase(ref))
           /\ WorstCase(ref) \in Nat \ {0} /\ Budget > 0
<1> DEFINE n == OutcomeCount
           I == 1 .. n
           sum == QuoteSum(top)
           chunks == Flatten(legs, Outcomes(legs))
           stakes == ClosedForm(chunks, n, Budget, sum)
           best == Search(chunks, n, Budget, sum)
<1>1. n \in 2 .. MAX_CHUNKS /\ n \in Nat \ {0} /\ Budget \in Int
  BY MarketIsRegistered, DetectionBounds
<1>2. ref = [o \in I |-> [price |-> top[o].eff_ppm, stake |-> QuoteStake(top, o)]]
  BY QuotePlan
<1>3. \A o \in I : QuoteStake(top, o) > 0
  <2> HIDE DEF I
  <2> QED BY <1>2
<1>4. /\ sum \in Nat \ {0} /\ QuoteSpend(top) \in Int /\ QuoteSpend(top) <= Budget
      /\ \A o \in I : /\ top[o].eff_ppm \in Nat \ {0} /\ top[o].size \in Nat
                      /\ VenueIncrements[top[o].venue] \in Nat \ {0}
                      /\ QuoteSpend(top) <= (top[o].size * sum) \div top[o].eff_ppm
  BY QuoteTypes DEF QuoteLegs
<1> HIDE DEF sum
<1>5. \A o \in I : /\ QuoteSpend(top) > 0
                   /\ VenueIncrements[top[o].venue] <=
                        RoundDownTo(top[o].size, VenueIncrements[top[o].venue])
  <2>1. TAKE o \in I
  <2> DEFINE step == VenueIncrements[top[o].venue]
             size == top[o].size
             price == top[o].eff_ppm
             spend == QuoteSpend(top)
  <2>2. /\ size \in Nat /\ price \in Nat \ {0} /\ step \in Nat \ {0} /\ spend \in Int
        /\ sum \in Nat \ {0} /\ spend <= (size * sum) \div price
    BY <1>4
  <2>3. RoundDownTo((spend * price) \div sum, step) > 0
    BY <1>3 DEF QuoteStake, sum
  <2> HIDE DEF step, size, price, spend
  <2>4. spend > 0 /\ step <= RoundDownTo(size, step)
    BY <2>2, <2>3, StakeNeedsDepth
  <2> QED BY <2>4 DEF step, size, price, spend
<1>6. Budget > 0 /\ Budget \in Nat
  <2>1. 1 \in I
    BY <1>1
  <2>2. QuoteSpend(top) > 0
    <3> HIDE DEF I
    <3> QED BY <1>5, <2>1
  <2> QED BY <1>1, <1>4, <2>2
<1>7. Single(legs, n)
  <2>1. legs \in Seq(BookLegs) /\ DOMAIN legs = I
    BY DEF QuoteLegs
  <2>2. \A o \in I : /\ legs[o].outcome = o /\ DOMAIN legs[o].levels = {1}
                     /\ UsableCapacity(legs[o], 1) >= legs[o].increment
    <3>1. TAKE o \in I
    <3>2. /\ legs[o].outcome = o /\ DOMAIN legs[o].levels = {1}
          /\ legs[o].increment = VenueIncrements[top[o].venue]
          /\ UsableCapacity(legs[o], 1) = RoundDownTo(top[o].size, VenueIncrements[top[o].venue])
      BY QuoteLevel
    <3>3. /\ VenueIncrements[top[o].venue] \in Nat \ {0} /\ top[o].size \in Nat
          /\ VenueIncrements[top[o].venue] <= RoundDownTo(top[o].size, VenueIncrements[top[o].venue])
      BY <1>4, <1>5
    <3>4. RoundDownTo(top[o].size, VenueIncrements[top[o].venue]) \in Int
      BY <3>3, WholeSteps
    <3> QED BY <3>2, <3>3, <3>4
  <2> QED BY <1>1, <2>1, <2>2 DEF Single
<1>8. /\ Len(Outcomes(legs)) = n /\ Sized(legs, Outcomes(legs), chunks)
      /\ Priced(chunks, n) /\ FirstOfEach(chunks, n)
      /\ SumFunction([g \in I |-> chunks[g].price]) = sum
      /\ \A o \in I : chunks[o].price = top[o].eff_ppm /\ stakes[o] = QuoteStake(top, o)
  <2> HIDE DEF chunks
  <2> QED BY <1>7, QuoteChunks DEF chunks, sum
<1> HIDE DEF chunks
<1>9. /\ OfferClosedForm(chunks, n, Budget, sum) = Found(chunks, n, stakes)
      /\ stakes \in Plans(chunks)
      /\ \A g \in I : GroupPayout(chunks, stakes, g) = Payout(chunks[g], stakes[g])
      /\ Total(stakes) = SumFunctionOnSet(stakes, I)
  <2>1. \A g \in I : stakes[g] > 0
    BY <1>3, <1>8
  <2> HIDE DEF stakes
  <2> QED BY <1>4, <1>6, <1>8, <2>1, ClosedFormOffered DEF stakes
<1> HIDE DEF stakes
<1>10. Profit(chunks, n, stakes) = WorstCase(ref)
  BY <1>8, <1>9, QuoteProfit
<1>11. WorstCase(ref) \in Nat \ {0}
  <2>1. Profit(chunks, n, stakes) \in Int
    BY <1>8, <1>9, WorstOutcome
  <2> QED BY <1>10, <2>1
<1>12. sum < PPM
  <2> DEFINE price == [o \in I |-> top[o].eff_ppm]
             T == SumFunctionOnSet(stakes, I)
  <2>1. IsFiniteSet(I)
    BY <1>1, FS_Interval
  <2>2. \A o \in I : stakes[o] \in Nat /\ price[o] \in Nat \ {0} /\ o \in DOMAIN chunks
    <3>1. I \subseteq DOMAIN chunks
      BY <1>8 DEF Priced
    <3> HIDE DEF I
    <3> QED BY <1>4, <1>9, <3>1 DEF Plans
  <2>3. \A o \in I : (stakes[o] * PPM) \div price[o] > T
    <3>1. TAKE o \in I
    <3>2. GroupPayout(chunks, stakes, o) \in Nat /\ GroupPayout(chunks, stakes, o) >= Total(stakes) + Profit(chunks, n, stakes)
          /\ Total(stakes) \in Nat
      BY <1>8, <1>9, WorstOutcome
    <3>3. GroupPayout(chunks, stakes, o) = (stakes[o] * PPM) \div price[o]
      <4> HIDE DEF I
      <4> QED BY <1>8, <1>9 DEF Payout
    <3>4. GroupPayout(chunks, stakes, o) > Total(stakes)
      <4> DEFINE a == GroupPayout(chunks, stakes, o)
                 b == Total(stakes)
                 c == Profit(chunks, n, stakes)
      <4>1. a \in Nat /\ b \in Nat /\ c \in Nat \ {0} /\ a >= b + c
        BY <1>10, <1>11, <3>2
      <4> HIDE DEF a, b, c
      <4>2. a > b
        BY <4>1
      <4> QED BY <4>2 DEF a, b
    <3> QED BY <1>9, <3>3, <3>4
  <2>4. sum = SumFunctionOnSet(price, I)
    BY DEF sum, QuoteSum, SumFunction
  <2> HIDE DEF I, price, T
  <2>5. SumFunctionOnSet(price, I) < PPM
    BY <2>1, <2>2, <2>3, BelowParity DEF T
  <2> QED BY <2>4, <2>5
<1>13. best \in Bests(chunks, n) /\ best.found /\ best.profit >= WorstCase(ref)
  <2>1. best \in Bests(chunks, n) /\ NoWorse(best, OfferClosedForm(chunks, n, Budget, sum))
    BY <1>4, <1>6, <1>8, SearchType
  <2>2. Found(chunks, n, stakes).found = TRUE /\ Found(chunks, n, stakes).profit = WorstCase(ref)
    BY <1>10 DEF Found
  <2> HIDE DEF best
  <2> QED BY <1>9, <2>1, <2>2 DEF NoWorse
<1> HIDE DEF best
<1>14. DetectBook(legs, Budget) = Report(chunks, best)
  <2>1. legs \in Seq(BookLegs) /\ DOMAIN legs = 1 .. n
    BY DEF QuoteLegs
  <2>2. Len(legs) = n
    BY <1>1, <2>1, LenProperties
  <2>3. \A i \in DOMAIN legs : ~(legs[i].increment <= 0)
    <3>1. TAKE i \in DOMAIN legs
    <3>2. legs[i] \in BookLegs
      BY <2>1, <2>2, ElementOfSeq
    <3>3. legs[i].increment \in Nat \ {0}
      BY <3>2 DEF BookLegs
    <3> QED BY <3>3
  <2>4. Range(Outcomes(legs)) = {legs[il[1]].outcome : il \in Usable(legs)}
    BY <1>1, <1>7, SingleChunks
  <2>5. DetectBook(legs, Budget) = Plan(legs, Outcomes(legs), Budget)
    BY <1>1, <1>8, <2>2 DEF DetectBook
  <2>6. Plan(legs, Outcomes(legs), Budget) = SizeUp(chunks, n, Budget)
    BY <1>6, <1>8, <2>3, <2>4 DEF Plan, chunks
  <2>7. SizeUp(chunks, n, Budget) = Report(chunks, best)
    <3> DEFINE over == SumFunction([g \in I |-> chunks[g].price])
    <3>1. SizeUp(chunks, n, Budget) =
            IF over >= PPM THEN NoSignal ELSE Report(chunks, Search(chunks, n, Budget, over))
      BY DEF SizeUp
    <3>2. over = sum
      BY <1>8
    <3> HIDE DEF over
    <3>3. ~(over >= PPM)
      BY <1>4, <1>12, <3>2, UnitsArePositive
    <3> QED BY <3>1, <3>2, <3>3 DEF best
  <2> QED BY <2>5, <2>6, <2>7
<1>15. AtLeast(Report(chunks, best), WorstCase(ref))
  BY <1>8, <1>11, <1>13, ReportAtLeast
<1> QED BY <1>6, <1>11, <1>14, <1>15

(***************************************************************************)
(* The engine never does worse than the single-quote plan                  *)
(***************************************************************************)

\* The legs of the single-quote plan hold the cheapest quotes.
LEMMA CheapestLegs ==
    ASSUME NEW bs \in [Sides -> Seq(Quotes)], NEW cands, cands = Candidates(bs),
           NEW chosen, chosen = Selection(cands), \A o \in 1 .. OutcomeCount : Of(cands, o) # {},
           NEW legs, LegsOf(cands, chosen, legs), Len(legs) = OutcomeCount
    PROVE  QuoteLegs(Cheapest(cands), legs)
<1> DEFINE I == 1 .. OutcomeCount
           top == Cheapest(cands)
<1>1. cands \in Seq(CandidateTypes)
      /\ \A i \in DOMAIN cands : cands[i].eff_ppm = Effective(VenueFees[cands[i].venue], cands[i].price)
  BY CandidatesType
<1>2. \A o \in I : chosen[o] = Coverage(cands)[o] /\ chosen[o] \in Of(cands, o)
  BY <1>1, SelectionType
<1>3. \A o \in I : top[o] = cands[chosen[o]]
  BY <1>2 DEF Cheapest
<1>4. /\ legs \in Seq(BookLegs) /\ I \subseteq DOMAIN legs
      /\ \A i \in DOMAIN legs : /\ legs[i] = BookLegFromCandidate(cands[chosen[i]])
                                /\ cands[chosen[i]] \in CandidateTypes
  BY DEF LegsOf
<1>5. DOMAIN legs = I
  BY <1>4, LenProperties
<1>6. top \in [I -> CandidateTypes]
  <2>1. top = [o \in I |-> cands[Coverage(cands)[o]]]
    BY DEF Cheapest
  <2>2. \A o \in I : cands[Coverage(cands)[o]] \in CandidateTypes
    BY <1>2, <1>4
  <2> HIDE DEF top, I
  <2> QED BY <2>1, <2>2
<1> HIDE DEF top
<1>7. \A o \in I : /\ legs[o] = BookLegFromCandidate(top[o]) /\ top[o].outcome = o
                   /\ top[o].eff_ppm = Effective(VenueFees[top[o].venue], top[o].price)
  <2>1. TAKE o \in I
  <2>2. chosen[o] \in DOMAIN cands /\ cands[chosen[o]].outcome = o
    BY <1>2 DEF Of
  <2> QED BY <1>1, <1>3, <1>4, <2>2
<1> QED BY <1>4, <1>5, <1>6, <1>7 DEF QuoteLegs, top

\* Whenever the single-quote plan earns, the evaluation earns as much.
LEMMA EvaluationAtLeast ==
    ASSUME NEW bs \in [Sides -> Seq(Quotes)], \A o \in 1 .. OutcomeCount : Of(Candidates(bs), o) # {},
           NEW ref, ref = EqualPayoffPlan(Cheapest(Candidates(bs))),
           \A o \in DOMAIN ref : ref[o].stake > 0, WorstCase(ref) > 0
    PROVE  AtLeast(Evaluation(bs).signal, WorstCase(ref))
<1> DEFINE cands == Candidates(bs)
           chosen == Selection(cands)
           legs == [i \in DOMAIN chosen |-> BookLegFromCandidate(cands[chosen[i]])]
           single == SubSeq(legs, 1, OutcomeCount)
           a == DetectBook(legs, Budget)
           b == DetectBook(single, Budget)
<1>1. Evaluation(bs) = Decide(cands, chosen, a, b)
  BY DEF Evaluation, Shop
<1>2. cands \in Seq(CandidateTypes)
  BY CandidatesType
<1> HIDE DEF cands
<1>3. /\ chosen \in Seq(DOMAIN cands) /\ OutcomeCount <= Len(chosen) /\ Len(chosen) <= MAX_CHUNKS
      /\ \A o \in 1 .. OutcomeCount : chosen[o] \in Of(cands, o)
  BY <1>2, SelectionType DEF cands
<1> HIDE DEF chosen
<1>4. /\ LegsOf(cands, chosen, legs) /\ Len(legs) = Len(chosen)
      /\ LegsOf(cands, chosen, single) /\ Len(single) = OutcomeCount
  BY <1>2, <1>3, ShoppedLegs
<1> HIDE DEF legs, single
<1>5. legs \in Seq(BookLegs) /\ single \in Seq(BookLegs) /\ Budget \in Int
  BY <1>4, MarketIsRegistered DEF LegsOf
<1>6. QuoteLegs(Cheapest(cands), single)
  BY <1>4, CheapestLegs DEF cands, chosen
<1>7. AtLeast(b, WorstCase(ref)) /\ WorstCase(ref) \in Nat \ {0}
  BY <1>6, QuoteIsOffered DEF cands
<1>8. a # Malformed
  BY <1>3, <1>4, ShoppedWellFormed
<1>9. a = NoSignal \/ (a.kind = "signal" /\ Promises(legs, a))
  BY <1>5, <1>8, DetectPromises
<1> HIDE DEF a, b
<1>10. b # Malformed
  BY <1>7 DEF AtLeast, Malformed
<1>11. Decide(cands, chosen, a, b) = Executable(cands, chosen, BetterOf(a, b))
  BY <1>8, <1>10 DEF Decide
<1>12. AtLeast(BetterOf(a, b), WorstCase(ref))
  <2>1. CASE a = NoSignal
    <3>1. a.kind # "signal"
      BY <2>1 DEF NoSignal
    <3> QED BY <1>7, <3>1 DEF BetterOf, AtLeast
  <2>2. CASE a.kind = "signal" /\ Promises(legs, a)
    <3>1. a.worst_case_profit \in Int
      BY <2>2 DEF Promises
    <3> DEFINE p == WorstCase(ref)
    <3>2. p \in Int /\ AtLeast(b, p)
      BY <1>7
    <3> HIDE DEF p
    <3>3. CASE b.worst_case_profit > a.worst_case_profit
      <4>1. BetterOf(a, b) = b
        BY <2>2, <3>2, <3>3 DEF BetterOf, AtLeast
      <4> QED BY <3>2, <4>1 DEF p
    <3>4. CASE ~(b.worst_case_profit > a.worst_case_profit)
      <4>1. BetterOf(a, b) = a
        BY <2>2, <3>4 DEF BetterOf
      <4>2. AtLeast(a, p)
        BY <2>2, <3>1, <3>2, <3>4 DEF AtLeast
      <4> QED BY <4>1, <4>2 DEF p
    <3> QED BY <3>3, <3>4
  <2> QED BY <1>9, <2>1, <2>2
<1> DEFINE s == BetterOf(a, b)
<1> HIDE DEF s
<1>13. s # NoSignal
  BY <1>12 DEF AtLeast, NoSignal, s
<1>14. Executable(cands, chosen, s).signal = s
  <2> DEFINE plan == [x \in DOMAIN s.allocations |-> ExecutionLeg(cands[chosen[s.allocations[x].leg]])]
  <2>1. Executable(cands, chosen, s) = [signal |-> s, plan |-> plan]
    BY <1>13 DEF Executable
  <2> HIDE DEF plan
  <2> QED BY <2>1
<1> QED BY <1>1, <1>11, <1>12, <1>14 DEF s

\* Empty books have no candidates.
LEMMA NothingToEvaluate ==
    ASSUME NEW bs, bs = [s \in Sides |-> <<>>]
    PROVE  Evaluation(bs) = NoPlan
<1> DEFINE quoted(at) == bs[at[1]][at[2]]
           all == UNION {{s} \X DOMAIN bs[s] : s \in Sides}
           levels == {at \in all : Discounted(VenueSurvival[at[1][2]], quoted(at).size) > 0}
           places == Ordered(levels, BookOrder)
<1>1. all = {}
  OBVIOUS
<1>2. levels = {}
  BY <1>1
<1>3. DOMAIN places = 1 .. Cardinality(levels)
  BY DEF Ordered
<1>4. DOMAIN Candidates(bs) = DOMAIN places
  BY DEF Candidates
<1> HIDE DEF places, levels
<1>5. DOMAIN Candidates(bs) = {}
  BY <1>2, <1>3, <1>4, FS_EmptySet
<1>6. Of(Candidates(bs), 1) = {}
  BY <1>5 DEF Of
<1>7. 1 \in 1 .. OutcomeCount
  BY MarketIsRegistered
<1> QED BY <1>6, <1>7 DEF Evaluation

\* Depth, line shopping and the payout search never earn less than the
\* single-quote plan (arb.rs: "so the answer can never be worse than the one
\* this module produced before").
THEOREM NeverWorse == EngineSpec => []NeverWorseThanSingleQuote
<1> DEFINE Inv == books \in [Sides -> Seq(Quotes)] /\ (fresh => result = Evaluation(books))
<1>1. EngineInit => Inv
  <2> SUFFICES ASSUME EngineInit PROVE Inv
    OBVIOUS
  <2>1. books = [s \in Sides |-> <<>>] /\ result = NoPlan
    BY DEF EngineInit
  <2>2. Evaluation(books) = NoPlan
    BY <2>1, NothingToEvaluate
  <2>3. books \in [Sides -> Seq(Quotes)]
    BY <2>1
  <2> QED BY <2>1, <2>2, <2>3
<1>2. ASSUME Inv, [EngineNext]_engineVars PROVE Inv'
  <2>1. CASE UNCHANGED engineVars
    BY <1>2, <2>1 DEF engineVars
  <2>2. ASSUME NEW s \in Sides, NEW b \in Books, ApplyEvent(s, b) PROVE Inv'
    <3>1. b \in Seq(Quotes)
      BY BooksAreLevels
    <3> QED BY <1>2, <2>2, <3>1 DEF ApplyEvent
  <2>3. CASE EvaluateMarket
    BY <1>2, <2>3 DEF EvaluateMarket
  <2> QED BY <1>2, <2>1, <2>2, <2>3 DEF EngineNext
<1>3. Inv => NeverWorseThanSingleQuote
  <2> SUFFICES ASSUME Inv, fresh, \A o \in 1 .. OutcomeCount : Of(Candidates(books), o) # {},
                      NEW ref, ref = EqualPayoffPlan(Cheapest(Candidates(books))),
                      \A o \in DOMAIN ref : ref[o].stake > 0, WorstCase(ref) > 0
               PROVE  Signalled /\ result.signal.worst_case_profit >= WorstCase(ref)
    BY DEF NeverWorseThanSingleQuote
  <2>1. AtLeast(Evaluation(books).signal, WorstCase(ref))
    BY EvaluationAtLeast
  <2> QED BY <2>1 DEF AtLeast, Signalled
<1> HIDE DEF Inv
<1> QED BY <1>1, <1>2, <1>3, PTL DEF EngineSpec

(***************************************************************************)
(* Prices with their fee, and depth on arrival                             *)
(***************************************************************************)

\* A larger divisor gives no larger quotient when it is rounded up.
LEMMA CeilingMonotone ==
    ASSUME NEW n \in Nat, NEW d \in Nat \ {0}, NEW e \in Nat \ {0}, d <= e
    PROVE  CeilDiv(n, e) <= CeilDiv(n, d)
<1> DEFINE c == CeilDiv(n, d)
<1>1. c \in Nat
  BY Ceiling
<1>2. n <= c * d
  <2>1. n + d - 1 \in Nat /\ n + d - 1 < c * d + d /\ c * d \in Int
    BY Quotient DEF CeilDiv
  <2> HIDE DEF c
  <2> QED BY <2>1
<1> HIDE DEF c
<1>3. d * c <= e * c /\ d * c \in Int /\ e * c \in Int
  BY <1>1, Monotone
<1> DEFINE above == (c + 1) * e
<1>4. n + e - 1 < above /\ above \in Int
  <2>1. (c + 1) * e = e * c + e
    BY <1>1, SMT
  <2>2. d * c = c * d
    BY <1>1, SMT
  <2> DEFINE whole == e * c
  <2>3. n <= whole /\ whole \in Int
    BY <1>2, <1>3, <2>2
  <2>4. above = whole + e
    BY <2>1
  <2> HIDE DEF whole, above
  <2> QED BY <2>3, <2>4
<1> DEFINE m == n + e - 1
           q == m \div e
<1>5. q \in Int /\ q * e <= m /\ q * e \in Int /\ m \in Int
  BY Quotient
<1>6. q * e < above
  <2> DEFINE part == q * e
  <2>1. part <= m /\ part \in Int /\ m < above
    BY <1>4, <1>5
  <2> HIDE DEF above, part, q, m
  <2>2. part < above
    BY <1>4, <1>5, <2>1
  <2> QED BY <2>2 DEF part
<1>7. CeilDiv(n, e) = q
  BY DEF CeilDiv
<1> HIDE DEF q, m
<1>8. q <= c
  <2> SUFFICES ASSUME c + 1 <= q PROVE FALSE
    BY <1>1, <1>5
  <2>1. above <= q * e
    BY <1>1, <1>5, Monotone
  <2> HIDE DEF above
  <2> QED BY <1>4, <1>5, <1>6, <2>1
<1> QED BY <1>7, <1>8 DEF c

\* A higher price has no higher odds, though both are rounded to nearest.
LEMMA OddsAntitone ==
    ASSUME NEW p \in Probs, NEW r \in Probs, p <= r
    PROVE  ToOdds(r) <= ToOdds(p)
<1> DEFINE k == ToOdds(r)
           more == r - p
           a == RECIPROCAL + r \div 2
           b == RECIPROCAL + p \div 2
<1>1. /\ p \in Nat \ {0} /\ r \in Nat \ {0} /\ RECIPROCAL \in Nat /\ more \in Nat
      /\ k \in Nat /\ k >= 1
  BY OddsAboveOne, UnitsArePositive DEF Probs
<1>2. r \div 2 \in Nat /\ p \div 2 \in Nat /\ r \div 2 <= p \div 2 + more
  BY <1>1
<1>3. a \in Nat /\ b \in Nat /\ a <= b + more
  BY <1>1, <1>2
<1>4. k = a \div r /\ ToOdds(p) = b \div p
  BY DEF ToOdds, DivRound
<1> HIDE DEF a, b
<1>5. k * r <= a /\ k * r \in Int
  BY <1>1, <1>3, <1>4, Quotient
<1> HIDE DEF k
<1>6. k * r = k * p + k * more /\ k * p \in Int /\ k * more \in Int
  BY <1>1, SMT
<1>7. more <= k * more
  <2> HIDE DEF more
  <2>1. 1 * more <= k * more /\ 1 * more = more
    BY <1>1, Monotone
  <2> QED BY <2>1
<1>8. k * p <= b
  <2> DEFINE x == k * p
             y == k * more
             z == k * r
  <2>1. z = x + y /\ x \in Int /\ y \in Int /\ z <= a /\ more <= y
    BY <1>5, <1>6, <1>7
  <2> HIDE DEF x, y, z, more
  <2>2. x <= b
    BY <1>1, <1>3, <2>1
  <2> QED BY <2>2 DEF x
<1>9. b \div p \in Int /\ k <= b \div p
  BY <1>1, <1>3, <1>8, QuotientAtLeast
<1> QED BY <1>4, <1>9 DEF k

\* The fee keeps the order of prices: a better quote costs no more.
LEMMA EffectiveMonotone ==
    ASSUME NEW fee \in FeeTypes, NEW p \in Probs, NEW r \in Probs, p <= r
    PROVE  Effective(fee, p) <= Effective(fee, r)
<1> DEFINE bps == fee.bps
           cut == BPS - Lesser(bps, BPS)
<1>1. /\ PPM \in Nat \ {0} /\ ODDS_ONE \in Nat \ {0} /\ BPS \in Nat \ {0}
      /\ bps \in Nat /\ p \in Nat \ {0} /\ r \in Nat \ {0}
      /\ fee.kind \in {"none", "commission", "stake", "rebate"}
  BY UnitsArePositive DEF FeeTypes, Probs
<1>2. cut \in Nat /\ BPS + bps \in Nat
  BY <1>1 DEF Lesser
<1> HIDE DEF bps
<1>3. CommissionPrice(bps, p) <= CommissionPrice(bps, r)
  <2> DEFINE x == ToOdds(p) - ODDS_ONE
             y == ToOdds(r) - ODDS_ONE
             a == x * cut
             b == y * cut
             high == ODDS_ONE + a \div BPS
             low  == ODDS_ONE + b \div BPS
  <2>1. x \in Nat /\ y \in Nat /\ y <= x
    BY <1>1, OddsAboveOne, OddsAntitone
  <2>2. a \in Nat /\ b \in Nat /\ b <= a
    <3> HIDE DEF x, y, cut
    <3> QED BY <1>2, <2>1, Monotone, ProductNat
  <2>3. /\ CommissionPrice(bps, p) = Lesser(CeilDiv(RECIPROCAL, high), PPM)
        /\ CommissionPrice(bps, r) = Lesser(CeilDiv(RECIPROCAL, low), PPM)
    BY DEF CommissionPrice
  <2> HIDE DEF a, b
  <2>4. high \in Nat \ {0} /\ low \in Nat \ {0} /\ low <= high
    <3>1. a \div BPS \in Nat /\ b \div BPS \in Nat /\ b \div BPS <= a \div BPS
      BY <1>1, <2>2, QuotientNat, QuotientMonotone
    <3> QED BY <1>1, <3>1
  <2> HIDE DEF high, low
  <2>5. /\ CeilDiv(RECIPROCAL, high) \in Nat /\ CeilDiv(RECIPROCAL, low) \in Nat
        /\ CeilDiv(RECIPROCAL, high) <= CeilDiv(RECIPROCAL, low)
    BY <2>4, OddsAboveOne, Ceiling, CeilingMonotone
  <2> QED BY <1>1, <2>3, <2>5 DEF Lesser
<1>4. StakeFeePrice(bps, p) <= StakeFeePrice(bps, r)
  <2> DEFINE a == p * (BPS + bps)
             b == r * (BPS + bps)
  <2>1. a <= b /\ a \in Int /\ b \in Int
    BY <1>1, <1>2, Monotone
  <2> HIDE DEF a, b
  <2>2. a \div BPS <= b \div BPS /\ a \div BPS \in Int /\ b \div BPS \in Int
    BY <1>1, <2>1, QuotientMonotone
  <2> QED BY <1>1, <2>2 DEF StakeFeePrice, Lesser, a, b
<1>5. MakerRebatePrice(bps, p) <= MakerRebatePrice(bps, r)
  <2> DEFINE a == p * cut
             b == r * cut
  <2>1. a <= b /\ a \in Int /\ b \in Int
    <3> HIDE DEF cut
    <3> QED BY <1>1, <1>2, Monotone
  <2> HIDE DEF a, b
  <2>2. a \div BPS <= b \div BPS /\ a \div BPS \in Int /\ b \div BPS \in Int
    BY <1>1, <2>1, QuotientMonotone
  <2> QED BY <1>1, <2>2 DEF MakerRebatePrice, Greater, a, b
<1> QED BY <1>1, <1>3, <1>4, <1>5 DEF Effective, bps

\* A venue whose queue takes no more than the sizing expected keeps the depth
\* that the sizing counted on.
LEMMA DepthKept ==
    ASSUME NEW venue \in 1 .. VenueCount, FrontRun[venue] + VenueSurvival[venue] <= BPS, NEW depth \in Int
    PROVE  /\ EffectiveDepth(venue, depth) \in Nat
           /\ Discounted(VenueSurvival[venue], depth) <= EffectiveDepth(venue, depth)
<1> DEFINE keeps == VenueSurvival[venue]
           takes == FrontRun[venue]
           a == Lesser(keeps, BPS)
           b == BPS - Lesser(takes, BPS)
<1>1. BPS \in Nat \ {0} /\ keeps \in Nat /\ takes \in Nat
  BY UnitsArePositive, MarketIsRegistered, ArrivalsArePriced
<1>2. a \in Nat /\ b \in Nat /\ a <= b
  <2> HIDE DEF keeps, takes
  <2> QED BY <1>1 DEF Lesser, keeps, takes
<1>3. CASE depth <= 0
  BY <1>3 DEF EffectiveDepth, Discounted
<1>4. CASE ~(depth <= 0)
  <2>1. depth \in Nat
    BY <1>4
  <2>2. Discounted(keeps, depth) = (depth * a) \div BPS /\ EffectiveDepth(venue, depth) = (depth * b) \div BPS
    BY <1>4 DEF EffectiveDepth, Discounted
  <2> HIDE DEF a, b
  <2>3. a * depth <= b * depth /\ a * depth \in Nat /\ b * depth \in Int
    BY <1>2, <2>1, Monotone, ProductNat
  <2>4. depth * a = a * depth /\ depth * b = b * depth
    BY <1>2, <2>1, SMT
  <2> DEFINE m == depth * a
             n == depth * b
  <2>5. m <= n /\ m \in Nat /\ n \in Nat
    <3>1. m \in Nat /\ n \in Nat
      BY <1>2, <2>1, ProductNat
    <3>2. m = a * depth /\ n = b * depth
      BY <2>4
    <3> HIDE DEF m, n
    <3> QED BY <2>3, <3>1, <3>2
  <2> HIDE DEF m, n
  <2>6. m \div BPS <= n \div BPS
    <3>1. BPS \in Nat \ {0} /\ m \in Int /\ n \in Int /\ m <= n
      BY <1>1, <2>5
    <3> HIDE DEF keeps, takes
    <3> QED BY <3>1, QuotientMonotone
  <2>7. n \div BPS \in Nat
    BY <1>1, <2>5, QuotientNat
  <2> QED BY <2>2, <2>6, <2>7 DEF m, n
<1> QED BY <1>3, <1>4

(***************************************************************************)
(* One leg on arrival                                                      *)
(***************************************************************************)
\* What the result of a leg says of a stake on it, whether it filled or not.
Reports(leg, stake, r) ==
    /\ r.outcome = leg.outcome /\ r.venue = leg.venue /\ r.requested = stake
    /\ r.filled \in Nat /\ r.filled <= stake /\ r.net_payout \in Nat
    /\ r.status \in {"filled", "partial", "price_moved", "depth_exhausted", "increment"}
    /\ r.status = "filled" => r.filled = stake
    /\ r.filled = 0 => r.status \notin {"filled", "partial"}

\* The depth that is left on arrival is an amount.
LEMMA DepthOnArrival ==
    ASSUME NEW venue \in 1 .. VenueCount, NEW raw \in Int
    PROVE  EffectiveDepth(venue, raw) \in Nat
<1> DEFINE b == BPS - Lesser(FrontRun[venue], BPS)
<1>1. BPS \in Nat \ {0} /\ b \in Nat
  BY UnitsArePositive, ArrivalsArePriced DEF Lesser
<1>2. CASE raw <= 0
  BY <1>2 DEF EffectiveDepth
<1>3. CASE ~(raw <= 0)
  <2>1. EffectiveDepth(venue, raw) = (raw * b) \div BPS
    BY <1>3 DEF EffectiveDepth
  <2> HIDE DEF b
  <2>2. raw * b \in Nat
    BY <1>1, <1>3, ProductNat
  <2> QED BY <1>1, <2>1, <2>2, QuotientNat
<1> QED BY <1>2, <1>3

\* A fill is reported with what it pays,
LEMMA FilledLeg ==
    ASSUME NEW leg, NEW stake, Executes(leg, stake), NEW filled \in 1 .. stake, NEW price \in Probs,
           NEW status \in {"filled", "partial"}, status = "filled" => filled = stake
    PROVE  /\ Reports(leg, stake, ComputeFill(leg, stake, filled, price, status))
           /\ ComputeFill(leg, stake, filled, price, status).status = status
           /\ ComputeFill(leg, stake, filled, price, status).filled = filled
           /\ ComputeFill(leg, stake, filled, price, status).net_payout =
                  (filled * PPM) \div Effective(leg.fee, price)
<1>1. leg.fee \in FeeTypes
  BY MarketIsRegistered DEF Executes
<1>2. Effective(leg.fee, price) \in Nat \ {0} /\ filled * PPM \in Nat
  BY <1>1, EffectivePrice, UnitsArePositive, ProductNat
<1>3. (filled * PPM) \div Effective(leg.fee, price) \in Nat
  BY <1>2, QuotientNat
<1> QED BY <1>3 DEF ComputeFill, Reports

\* and a leg that is not filled with nothing.
LEMMA UnfilledLeg ==
    ASSUME NEW leg, NEW stake \in Nat, NEW reason \in {"price_moved", "depth_exhausted", "increment"}
    PROVE  /\ Reports(leg, stake, Unfilled(leg, stake, reason))
           /\ Unfilled(leg, stake, reason).filled = 0
BY DEF Unfilled, Reports

\* A leg that meets a price reports an outcome of its fill,
LEMMA LegFills ==
    ASSUME NEW leg, NEW stake, Executes(leg, stake), NEW price \in Probs
    PROVE  Reports(leg, stake, FillAt(leg, stake, price, leg.capacity))
<1> DEFINE depth == EffectiveDepth(leg.venue, leg.capacity)
           fillable == RoundDownTo(depth, Greater(leg.increment, 1))
<1>1. /\ depth \in Nat /\ stake \in Nat \ {0} /\ leg.increment \in Nat \ {0}
  BY DepthOnArrival, MarketIsRegistered DEF Executes
<1>2. fillable \in Nat /\ fillable <= depth
  <2> HIDE DEF depth
  <2> DEFINE step == Greater(leg.increment, 1)
  <2>1. step \in Nat \ {0} /\ depth \in Nat /\ depth \in Int
    BY <1>1 DEF Greater
  <2> HIDE DEF step
  <2>2. RoundDownTo(depth, step) \in Nat /\ RoundDownTo(depth, step) <= depth
    BY <2>1, WholeSteps
  <2> QED BY <2>2 DEF step
<1> HIDE DEF depth, fillable
<1>3. FillAt(leg, stake, price, leg.capacity) =
        IF depth <= 0 THEN Unfilled(leg, stake, "depth_exhausted")
        ELSE IF depth >= stake THEN ComputeFill(leg, stake, stake, price, "filled")
        ELSE IF fillable <= 0 THEN Unfilled(leg, stake, "increment")
        ELSE ComputeFill(leg, stake, fillable, price, "partial")
  BY DEF FillAt, depth, fillable
<1>4. /\ Reports(leg, stake, Unfilled(leg, stake, "depth_exhausted"))
      /\ Reports(leg, stake, Unfilled(leg, stake, "increment"))
  BY <1>1, UnfilledLeg
<1>5. Reports(leg, stake, ComputeFill(leg, stake, stake, price, "filled"))
  <2>1. stake \in 1 .. stake
    BY <1>1
  <2> QED BY <2>1, FilledLeg
<1>6. ASSUME ~(depth >= stake), ~(fillable <= 0)
      PROVE  Reports(leg, stake, ComputeFill(leg, stake, fillable, price, "partial"))
  <2>1. fillable \in 1 .. stake
    BY <1>1, <1>2, <1>6
  <2> QED BY <2>1, FilledLeg
<1> QED BY <1>3, <1>4, <1>5, <1>6

\* whether the price has moved or not.
LEMMA LegEvaluates ==
    ASSUME NEW leg, NEW stake, Executes(leg, stake), NEW price \in Probs
    PROVE  Reports(leg, stake, EvaluateLeg(leg, stake, price, leg.capacity))
<1>1. Reports(leg, stake, FillAt(leg, stake, price, leg.capacity))
  BY LegFills
<1>2. Reports(leg, stake, Unfilled(leg, stake, "price_moved"))
  BY UnfilledLeg DEF Executes
<1> QED BY <1>1, <1>2 DEF EvaluateLeg

\* A leg that meets a price no worse than quoted and the depth that the sizing
\* counted on is filled and pays no less than was sized.
LEMMA LegIsFilled ==
    ASSUME NEW leg, NEW stake, Executes(leg, stake), NEW price \in Probs, price <= leg.quoted,
           FrontRun[leg.venue] + VenueSurvival[leg.venue] <= BPS
    PROVE  LET r == EvaluateLeg(leg, stake, price, leg.capacity)
           IN  /\ r.status = "filled" /\ r.filled = stake
               /\ (stake * PPM) \div Effective(leg.fee, leg.quoted) <= r.net_payout
<1> DEFINE depth == EffectiveDepth(leg.venue, leg.capacity)
           r == EvaluateLeg(leg, stake, price, leg.capacity)
<1>1. /\ leg.venue \in 1 .. VenueCount /\ leg.capacity \in Int /\ leg.quoted \in Probs
      /\ stake \in Nat \ {0} /\ stake <= Discounted(VenueSurvival[leg.venue], leg.capacity)
      /\ leg.fee \in FeeTypes /\ VenueSurvival[leg.venue] \in Nat
  BY MarketIsRegistered DEF Executes
<1>2. depth \in Nat /\ stake <= depth
  <2>1. depth \in Nat /\ Discounted(VenueSurvival[leg.venue], leg.capacity) <= depth
    BY <1>1, DepthKept
  <2>2. Discounted(VenueSurvival[leg.venue], leg.capacity) \in Nat
    BY <1>1, DiscountedDepth
  <2> HIDE DEF depth
  <2> QED BY <1>1, <2>1, <2>2
<1>3. r = FillAt(leg, stake, price, leg.capacity)
  <2>1. ~(price = NoQuote \/ price > leg.quoted)
    BY <1>1 DEF Probs, NoQuote
  <2> QED BY <2>1 DEF EvaluateLeg
<1>4. r = ComputeFill(leg, stake, stake, price, "filled")
  <2>1. ~(depth <= 0) /\ depth >= stake
    <3> HIDE DEF depth
    <3> QED BY <1>1, <1>2
  <2> QED BY <1>3, <2>1 DEF FillAt
<1>5. /\ r.status = "filled" /\ r.filled = stake
      /\ r.net_payout = (stake * PPM) \div Effective(leg.fee, price)
  <2> HIDE DEF r
  <2> QED BY <1>1, <1>4, FilledLeg
<1>6. (stake * PPM) \div Effective(leg.fee, leg.quoted) <= (stake * PPM) \div Effective(leg.fee, price)
  <2> DEFINE a == Effective(leg.fee, price)
             b == Effective(leg.fee, leg.quoted)
             n == stake * PPM
  <2>1. a \in Nat \ {0} /\ b \in Nat \ {0} /\ a <= b
    BY <1>1, EffectivePrice, EffectiveMonotone
  <2>2. n \in Nat
    BY <1>1, UnitsArePositive, ProductNat
  <2> HIDE DEF a, b, n
  <2>3. n \div b <= n \div a
    BY <2>1, <2>2, QuotientAntitone
  <2> QED BY <2>3 DEF a, b, n
<1> HIDE DEF r
<1> QED BY <1>5, <1>6 DEF r

(***************************************************************************)
(* The simulated execution of a plan                                       *)
(***************************************************************************)

\* The results of a plan's legs, one for each.
Executed(plan, stakes, results) ==
    DOMAIN results = DOMAIN plan /\ \A i \in DOMAIN plan : Reports(plan[i], stakes[i], results[i])

\* The stakes that the loop takes from a signal.
StakesOf(e) == [i \in DOMAIN e.plan |-> e.signal.allocations[i].stake]

\* The simulator reports one result for each leg, and profit and class of those
\* results.
LEMMA SimulatedLegs ==
    ASSUME NEW plan, NEW stakes, \A i \in DOMAIN plan : Executes(plan[i], stakes[i]),
           NEW prices \in [DOMAIN plan -> Probs], NEW pol
    PROVE  /\ Executed(plan, stakes, Simulate(pol, plan, stakes, prices).results)
           /\ Simulate(pol, plan, stakes, prices).realized =
                  RealizedProfit(Simulate(pol, plan, stakes, prices).results)
           /\ Simulate(pol, plan, stakes, prices).class =
                  Classify(Simulate(pol, plan, stakes, prices).results)
<1> DEFINE direct == [i \in DOMAIN plan |-> EvaluateLeg(plan[i], stakes[i], prices[i], plan[i].capacity)]
           filled == [i \in DOMAIN plan |-> FillAt(plan[i], stakes[i], prices[i], plan[i].capacity)]
           chased == MayChase(pol, plan, prices, direct)
           results == IF chased THEN filled ELSE direct
<1>1. Simulate(pol, plan, stakes, prices) =
        [results |-> results, chased |-> chased,
         realized |-> RealizedProfit(results), class |-> Classify(results)]
  BY DEF Simulate
<1>2. Executed(plan, stakes, direct)
  BY LegEvaluates DEF Executed
<1>3. Executed(plan, stakes, filled)
  BY LegFills DEF Executed
<1> HIDE DEF direct, filled, chased
<1>4. Executed(plan, stakes, results)
  BY <1>2, <1>3
<1> HIDE DEF results
<1> QED BY <1>1, <1>4

\* The least payout of a leg.
LeastPayout(results) == Min({results[i].net_payout : i \in DOMAIN results})

\* Stakes and payouts are amounts, and some leg pays the least.
LEMMA FilledStakeType ==
    ASSUME NEW plan, NEW k \in Nat, DOMAIN plan = 1 .. k, NEW stakes, NEW results, Executed(plan, stakes, results)
    PROVE  /\ FilledStake(results) \in Nat
           /\ k > 0 => /\ LeastPayout(results) \in Nat
                       /\ \E i \in 1 .. k : results[i].net_payout = LeastPayout(results)
                       /\ \A i \in 1 .. k : LeastPayout(results) <= results[i].net_payout
<1> DEFINE f == [i \in DOMAIN results |-> results[i].filled]
           h == [i \in 1 .. k |-> results[i].net_payout]
           P == {results[i].net_payout : i \in DOMAIN results}
<1>1. DOMAIN results = 1 .. k /\ IsFiniteSet(1 .. k)
      /\ \A i \in 1 .. k : results[i].filled \in Nat /\ results[i].net_payout \in Nat
  <2>1. IsFiniteSet(1 .. k)
    BY FS_Interval
  <2> QED BY <2>1 DEF Executed, Reports
<1>2. FilledStake(results) = SumFunctionOnSet(f, 1 .. k)
  <2>1. FilledStake(results) = SumFunctionOnSet(f, DOMAIN f)
    BY DEF FilledStake, SumFunction
  <2>2. DOMAIN f = 1 .. k
    BY <1>1
  <2> HIDE DEF f
  <2> QED BY <2>1, <2>2
<1>3. \A i \in 1 .. k : f[i] \in Nat
  BY <1>1
<1>4. FilledStake(results) \in Nat
  <2> HIDE DEF f
  <2> QED BY <1>1, <1>2, <1>3, SumNotNegative
<1>5. ASSUME k > 0
      PROVE  /\ Min(P) \in Nat /\ (\E i \in 1 .. k : results[i].net_payout = Min(P))
             /\ \A i \in 1 .. k : Min(P) <= results[i].net_payout
  <2>1. P = Values(h, 1 .. k)
    BY <1>1 DEF Values
  <2>2. IsFiniteSet(P)
    <3> HIDE DEF P, h
    <3> QED BY <1>1, <2>1, ValuesFinite
  <2>3. 1 \in 1 .. k
    BY <1>5
  <2>4. P # {} /\ P \subseteq Nat
    BY <1>1, <2>3
  <2> DEFINE m == Min(P)
  <2>5. m \in P /\ \A x \in P : m <= x
    <3>1. P \subseteq Int
      BY <2>4
    <3> HIDE DEF P
    <3> QED BY <2>2, <2>4, <3>1, LeastOf
  <2> HIDE DEF m
  <2>6. \A i \in 1 .. k : results[i].net_payout \in P
    BY <1>1
  <2>7. \E i \in 1 .. k : results[i].net_payout = m
    BY <1>1, <2>5
  <2>8. m \in Nat /\ \A i \in 1 .. k : m <= results[i].net_payout
    <3> HIDE DEF P
    <3> QED BY <2>4, <2>5, <2>6
  <2> QED BY <2>7, <2>8 DEF m
<1> HIDE DEF P
<1> QED BY <1>4, <1>5 DEF P, LeastPayout

\* An execution that counts as a hedge pays in every leg more than it staked.
LEMMA HedgedLegs ==
    ASSUME NEW plan, NEW k \in Nat \ {0}, DOMAIN plan = 1 .. k, NEW stakes, NEW results, Executed(plan, stakes, results),
           Classify(results) \in {"clean", "proportional"}
    PROVE  \A i \in 1 .. k : results[i].net_payout > FilledStake(results)
<1> DEFINE filled == {i \in DOMAIN results : results[i].filled > 0}
           spent == FilledStake(results)
           least == LeastPayout(results)
<1>1. spent \in Nat /\ least \in Nat /\ \A i \in 1 .. k : least <= results[i].net_payout
  BY FilledStakeType
<1>2. \A i \in 1 .. k : results[i].net_payout \in Nat
  BY DEF Executed, Reports
<1>3. RealizedProfit(results) > 0
  <2>1. 1 \in 1 .. k
    OBVIOUS
  <2>2. results[1].status \in {"filled", "partial", "price_moved", "depth_exhausted", "increment"}
    BY <2>1 DEF Executed, Reports
  <2>3. FirstReason(results) \notin {"clean", "proportional"}
    BY <2>2 DEF FirstReason
  <2> HIDE DEF filled
  <2>4. Classify(results) =
          IF \A i \in DOMAIN results : results[i].status = "filled"
          THEN IF RealizedProfit(results) > 0 THEN "clean" ELSE "unprofitable"
          ELSE IF filled = {} THEN FirstReason(results)
          ELSE IF filled # DOMAIN results THEN "broken_leg"
          ELSE IF RealizedProfit(results) > 0 THEN "proportional" ELSE "asymmetric"
    BY DEF Classify, filled
  <2> QED BY <2>3, <2>4
<1>4. RealizedProfit(results) = IF spent <= 0 THEN 0 ELSE least - spent
  BY DEF RealizedProfit, LeastPayout
<1> HIDE DEF spent, least
<1>5. least > spent
  BY <1>1, <1>3, <1>4
<1>6. \A i \in 1 .. k : results[i].net_payout > spent
  BY <1>1, <1>2, <1>5
<1> QED BY <1>6 DEF spent

\* What the legs of an outcome pay.
PaidOut(results, o) ==
    SumFunction([i \in {i \in DOMAIN results : results[i].outcome = o} |-> results[i].net_payout])

\* An outcome pays at least what any of its legs pays.
LEMMA PaidOutAtLeast ==
    ASSUME NEW plan, NEW k \in Nat, DOMAIN plan = 1 .. k, NEW stakes, NEW results, Executed(plan, stakes, results),
           NEW i \in 1 .. k
    PROVE  PaidOut(results, results[i].outcome) \in Nat
           /\ results[i].net_payout <= PaidOut(results, results[i].outcome)
<1> DEFINE A == {j \in DOMAIN results : results[j].outcome = results[i].outcome}
           f == [j \in A |-> results[j].net_payout]
<1>1. DOMAIN results = 1 .. k /\ \A j \in 1 .. k : results[j].net_payout \in Nat
  BY DEF Executed, Reports
<1>2. IsFiniteSet(A)
  <2>1. IsFiniteSet(1 .. k) /\ A \subseteq 1 .. k
    BY <1>1, FS_Interval
  <2> HIDE DEF A
  <2> QED BY <2>1, FS_Subset
<1>3. i \in A /\ (\A j \in A : f[j] \in Nat) /\ f[i] = results[i].net_payout
  BY <1>1
<1>4. PaidOut(results, results[i].outcome) = SumFunctionOnSet(f, A)
  BY DEF PaidOut, SumFunction
<1> HIDE DEF A, f
<1> QED BY <1>2, <1>3, <1>4, SumAtLeast, SumNotNegative

\* A dependable plan has a leg for every outcome.
LEMMA EveryOutcomeHasALeg ==
    ASSUME NEW e, Sound(e), e # NoPlan, NEW o \in 1 .. OutcomeCount
    PROVE  /\ CostOf(e) \in Nat
           /\ \E a \in DOMAIN e.plan : e.plan[a].outcome = o
<1> DEFINE A == {a \in DOMAIN e.plan : e.plan[a].outcome = o}
           f == [a \in DOMAIN e.plan |-> e.signal.allocations[a].stake]
           g == [a \in A |-> (e.signal.allocations[a].stake * PPM)
                               \div Effective(e.plan[a].fee, e.plan[a].quoted)]
<1>1. /\ e.signal.worst_case_profit \in Nat \ {0}
      /\ \E k \in Nat : DOMAIN e.plan = 1 .. k
      /\ \A a \in DOMAIN e.plan : e.signal.allocations[a].stake \in Nat
      /\ PaysOn(e, o) >= CostOf(e) + e.signal.worst_case_profit
  BY DEF Sound, Executes
<1>2. CostOf(e) \in Nat
  <2>1. CostOf(e) = SumFunctionOnSet(f, DOMAIN e.plan)
    BY DEF CostOf, SumFunction
  <2>2. IsFiniteSet(DOMAIN e.plan)
    <3>1. PICK k \in Nat : DOMAIN e.plan = 1 .. k
      BY <1>1
    <3>2. IsFiniteSet(1 .. k)
      BY FS_Interval
    <3> QED BY <3>1, <3>2
  <2>3. \A a \in DOMAIN e.plan : f[a] \in Nat
    BY <1>1
  <2> HIDE DEF f
  <2> QED BY <2>1, <2>2, <2>3, SumNotNegative
<1>3. A # {}
  <2> SUFFICES ASSUME A = {} PROVE FALSE
    OBVIOUS
  <2>1. PaysOn(e, o) = SumFunctionOnSet(g, A)
    BY DEF PaysOn, SumFunction
  <2> HIDE DEF g, A
  <2>2. PaysOn(e, o) = 0
    BY <2>1, SumOfNone
  <2> QED BY <1>1, <1>2, <2>2
<1> QED BY <1>2, <1>3

\* The prices on arrival are prices: as quoted, after the scripted move or from
\* a tape.
LEMMA ArrivalPrices ==
    ASSUME NEW plan, \A a \in DOMAIN plan : plan[a].quoted \in Probs,
           NEW prices \in Arrivals(plan)
    PROVE  prices \in [DOMAIN plan -> Probs]
<1> DEFINE tapes == [{SideOf(plan[i]) : i \in DOMAIN plan} -> TapePrices \cup {NoQuote}]
           shown(tape) == [i \in DOMAIN plan |-> IF tape[SideOf(plan[i])] = NoQuote THEN plan[i].quoted
                                                 ELSE tape[SideOf(plan[i])]]
<1>1. CASE prices = AsQuoted(plan)
  BY <1>1 DEF AsQuoted
<1>2. CASE prices = Decayed(plan)
  <2>1. \A a \in DOMAIN plan : Lesser(plan[a].quoted + DECAY, DECAY_CAP) \in Probs
    BY ArrivalsArePriced, UnitsArePositive DEF Lesser, Probs
  <2> QED BY <1>2, <2>1 DEF Decayed
<1>3. ASSUME NEW tape \in tapes, prices = shown(tape)
      PROVE  prices \in [DOMAIN plan -> Probs]
  <2>1. \A i \in DOMAIN plan : tape[SideOf(plan[i])] \in Probs \cup {NoQuote}
    BY ArrivalsArePriced
  <2> HIDE DEF tapes
  <2> QED BY <1>3, <2>1
<1>4. prices \in {AsQuoted(plan), Decayed(plan)} \/ \E tape \in tapes : prices = shown(tape)
  BY DEF Arrivals, FromTape
<1> HIDE DEF tapes, shown
<1> QED BY <1>1, <1>2, <1>3, <1>4

\* The loop's execution of a dependable plan hedges when it says so.
LEMMA ExecutionHedges ==
    ASSUME NEW e, Sound(e), e # NoPlan, NEW prices \in [DOMAIN e.plan -> Probs], NEW pol,
           NEW x, x = Simulate(pol, e.plan, StakesOf(e), prices), x.class \in {"clean", "proportional"}
    PROVE  \A o \in 1 .. OutcomeCount : PaidOut(x.results, o) > FilledStake(x.results)
<1> DEFINE plan == e.plan
           results == x.results
<1>1. \A i \in DOMAIN plan : Executes(plan[i], StakesOf(e)[i])
  BY DEF Sound, StakesOf
<1>2. Executed(plan, StakesOf(e), results) /\ x.class = Classify(results)
  BY <1>1, SimulatedLegs
<1>3. PICK k \in Nat : DOMAIN plan = 1 .. k
  BY DEF Sound
<1>4. TAKE o \in 1 .. OutcomeCount
<1>5. PICK a \in DOMAIN plan : plan[a].outcome = o
  BY EveryOutcomeHasALeg
<1>6. k \in Nat \ {0} /\ a \in 1 .. k
  BY <1>3, <1>5
<1> HIDE DEF plan, results
<1>7. results[a].net_payout > FilledStake(results) /\ FilledStake(results) \in Nat
  BY <1>2, <1>3, <1>6, HedgedLegs, FilledStakeType
<1>8. results[a].outcome = o /\ results[a].net_payout \in Nat
  BY <1>2, <1>5 DEF Executed, Reports
<1>9. PaidOut(results, o) \in Nat /\ results[a].net_payout <= PaidOut(results, o)
  <2>1. /\ PaidOut(results, results[a].outcome) \in Nat
        /\ results[a].net_payout <= PaidOut(results, results[a].outcome)
    BY <1>2, <1>3, <1>6, PaidOutAtLeast
  <2> QED BY <1>8, <2>1
<1>10. PaidOut(results, o) > FilledStake(results)
  BY <1>7, <1>8, <1>9
<1> QED BY <1>10 DEF results

\* A dependable plan with one leg per outcome that arrives as it was sized
\* earns what it promised.
LEMMA ExecutionKeepsPromise ==
    ASSUME NEW e, Sound(e), e # NoPlan, NEW prices \in [DOMAIN e.plan -> Probs], NEW pol,
           NEW x, x = Simulate(pol, e.plan, StakesOf(e), prices),
           \A i, j \in DOMAIN e.plan : e.plan[i].outcome = e.plan[j].outcome => i = j,
           \A i \in DOMAIN e.plan :
              /\ prices[i] <= e.plan[i].quoted
              /\ FrontRun[e.plan[i].venue] + VenueSurvival[e.plan[i].venue] <= BPS
    PROVE  x.class = "clean" /\ x.realized >= e.signal.worst_case_profit
<1> DEFINE plan == e.plan
           stakes == StakesOf(e)
           profit == e.signal.worst_case_profit
           direct == [i \in DOMAIN plan |-> EvaluateLeg(plan[i], stakes[i], prices[i], plan[i].capacity)]
           sized(i) == (stakes[i] * PPM) \div Effective(plan[i].fee, plan[i].quoted)
           spent == FilledStake(direct)
           least == LeastPayout(direct)
<1>1. /\ \A i \in DOMAIN plan : Executes(plan[i], stakes[i]) /\ stakes[i] = e.signal.allocations[i].stake
      /\ profit \in Nat \ {0}
      /\ \A o \in 1 .. OutcomeCount : PaysOn(e, o) >= CostOf(e) + profit
  BY DEF Sound, StakesOf
<1>2. PICK k \in Nat : DOMAIN plan = 1 .. k
  BY DEF Sound
<1>3. k > 0 /\ CostOf(e) \in Nat
  <2>1. 1 \in 1 .. OutcomeCount
    BY MarketIsRegistered
  <2>2. CostOf(e) \in Nat /\ \E a \in DOMAIN plan : plan[a].outcome = 1
    BY <2>1, EveryOutcomeHasALeg
  <2>3. DOMAIN plan # {}
    BY <2>2
  <2> HIDE DEF plan
  <2> QED BY <1>2, <2>2, <2>3
<1>4. \A i \in DOMAIN plan : /\ direct[i].status = "filled" /\ direct[i].filled = stakes[i]
                             /\ sized(i) <= direct[i].net_payout
  <2>1. TAKE i \in DOMAIN plan
  <2>2. /\ Executes(plan[i], stakes[i]) /\ prices[i] \in Probs /\ prices[i] <= plan[i].quoted
        /\ FrontRun[plan[i].venue] + VenueSurvival[plan[i].venue] <= BPS
    BY <1>1
  <2> DEFINE leg == plan[i]
             r == EvaluateLeg(leg, stakes[i], prices[i], leg.capacity)
  <2>3. direct[i] = r
    OBVIOUS
  <2> HIDE DEF direct, stakes, leg
  <2>4. /\ r.status = "filled" /\ r.filled = stakes[i]
        /\ (stakes[i] * PPM) \div Effective(leg.fee, leg.quoted) <= r.net_payout
    BY <2>2, LegIsFilled DEF leg
  <2> HIDE DEF r
  <2> QED BY <2>3, <2>4 DEF leg
<1>5. Executed(plan, stakes, direct)
  <2>1. \A i \in DOMAIN plan : Reports(plan[i], stakes[i], EvaluateLeg(plan[i], stakes[i], prices[i], plan[i].capacity))
    BY <1>1, LegEvaluates
  <2> HIDE DEF stakes
  <2> QED BY <2>1 DEF Executed
<1>6. \A i \in DOMAIN plan : PaysOn(e, plan[i].outcome) = sized(i)
  <2>1. TAKE i \in DOMAIN plan
  <2> DEFINE A == {a \in DOMAIN plan : plan[a].outcome = plan[i].outcome}
             f == [a \in A |-> (e.signal.allocations[a].stake * PPM)
                                 \div Effective(plan[a].fee, plan[a].quoted)]
  <2>2. A = {i}
    OBVIOUS
  <2>3. PaysOn(e, plan[i].outcome) = SumFunctionOnSet(f, A)
    BY DEF PaysOn, SumFunction
  <2>4. f[i] = sized(i)
    BY <1>1
  <2>5. sized(i) \in Int
    <3>1. stakes[i] \in Nat /\ plan[i].fee \in FeeTypes /\ plan[i].quoted \in Probs
      BY <1>1, MarketIsRegistered DEF Executes
    <3>2. stakes[i] * PPM \in Nat /\ Effective(plan[i].fee, plan[i].quoted) \in Nat \ {0}
      <4> HIDE DEF stakes, plan
      <4> QED BY <3>1, EffectivePrice, UnitsArePositive, ProductNat
    <3> HIDE DEF stakes, plan
    <3> QED BY <3>2, QuotientNat
  <2> HIDE DEF f, A, sized, plan
  <2> QED BY <2>2, <2>3, <2>4, <2>5, SumOfOne
<1>7. spent = CostOf(e)
  <2> DEFINE f == [i \in DOMAIN direct |-> direct[i].filled]
             g == [a \in DOMAIN plan |-> e.signal.allocations[a].stake]
  <2>1. spent = SumFunctionOnSet(f, DOMAIN direct) /\ CostOf(e) = SumFunctionOnSet(g, DOMAIN plan)
    BY DEF FilledStake, CostOf, SumFunction
  <2>2. DOMAIN direct = DOMAIN plan /\ \A i \in DOMAIN plan : f[i] = direct[i].filled /\ g[i] = stakes[i]
    BY <1>1
  <2>3. IsFiniteSet(DOMAIN plan)
    <3>1. IsFiniteSet(1 .. k)
      BY FS_Interval
    <3> HIDE DEF plan
    <3> QED BY <1>2, <3>1
  <2>4. \A i \in DOMAIN plan : f[i] = g[i]
    <3> HIDE DEF direct, stakes, f, g, plan
    <3> QED BY <1>4, <2>2
  <2> HIDE DEF f, g, direct, plan, spent
  <2> QED BY <2>1, <2>2, <2>3, <2>4, SumOfEqual
<1>8. least >= spent + profit
  <2>1. PICK i \in 1 .. k : direct[i].net_payout = least
    <3> HIDE DEF direct, plan
    <3> QED BY <1>2, <1>3, <1>5, FilledStakeType
  <2>2. direct[i].net_payout \in Nat /\ plan[i].outcome \in 1 .. OutcomeCount
    <3> HIDE DEF direct, plan, stakes
    <3> QED BY <1>1, <1>2, <1>5 DEF Executed, Reports, Executes
  <2>3. PaysOn(e, plan[i].outcome) >= CostOf(e) + profit
    <3> HIDE DEF direct, plan, stakes, profit
    <3> QED BY <1>1, <2>2
  <2>4. PaysOn(e, plan[i].outcome) <= direct[i].net_payout
    <3> HIDE DEF direct, plan, stakes, sized
    <3> QED BY <1>2, <1>4, <1>6
  <2>5. PaysOn(e, plan[i].outcome) \in Int
    <3>1. sized(i) \in Int
      <4>1. i \in DOMAIN plan
        BY <1>2
      <4>2. stakes[i] \in Nat /\ plan[i].fee \in FeeTypes /\ plan[i].quoted \in Probs
        BY <1>1, <4>1, MarketIsRegistered DEF Executes
      <4>3. stakes[i] * PPM \in Nat /\ Effective(plan[i].fee, plan[i].quoted) \in Nat \ {0}
        <5> HIDE DEF stakes, plan
        <5> QED BY <4>2, EffectivePrice, UnitsArePositive, ProductNat
      <4> HIDE DEF stakes, plan
      <4> QED BY <4>3, QuotientNat
    <3> HIDE DEF sized, plan
    <3> QED BY <1>2, <1>6, <3>1
  <2> DEFINE pays == PaysOn(e, plan[i].outcome)
             cost == CostOf(e)
             got  == direct[i].net_payout
  <2>6. /\ profit \in Nat /\ cost \in Nat /\ spent = cost /\ got = least /\ got \in Nat
        /\ pays >= cost + profit /\ pays <= got /\ pays \in Int
    <3> HIDE DEF least, spent, profit, direct
    <3> QED BY <1>1, <1>3, <1>7, <2>1, <2>2, <2>3, <2>4, <2>5
  <2> HIDE DEF pays, cost, got, least, spent, profit
  <2> QED BY <2>6
<1>9. RealizedProfit(direct) >= profit
  <2>1. spent \in Nat /\ spent > 0
    <3>1. 1 \in DOMAIN plan
      BY <1>2, <1>3
    <3>2. stakes[1] \in Nat \ {0} /\ direct[1].filled = stakes[1]
      BY <1>1, <1>4, <3>1 DEF Executes
    <3> DEFINE f == [i \in DOMAIN direct |-> direct[i].filled]
    <3>3. DOMAIN direct = 1 .. k /\ \A i \in 1 .. k : direct[i].filled \in Nat
      <4> HIDE DEF direct, plan
      <4> QED BY <1>2, <1>5 DEF Executed, Reports
    <3>4. IsFiniteSet(1 .. k)
      BY FS_Interval
    <3>5. spent = SumFunctionOnSet(f, DOMAIN direct)
      BY DEF FilledStake, SumFunction
    <3> HIDE DEF direct, stakes, plan, spent
    <3>6. (\A i \in 1 .. k : f[i] \in Nat) /\ f[1] = direct[1].filled /\ 1 \in 1 .. k
      BY <1>2, <3>1, <3>3
    <3> HIDE DEF f
    <3>7. f[1] <= SumFunctionOnSet(f, 1 .. k) /\ SumFunctionOnSet(f, 1 .. k) \in Nat
      BY <3>4, <3>6, SumAtLeast, SumNotNegative
    <3> QED BY <3>2, <3>3, <3>5, <3>6, <3>7
  <2>2. RealizedProfit(direct) = IF spent <= 0 THEN 0 ELSE least - spent
    BY DEF RealizedProfit, LeastPayout
  <2>3. least \in Nat
    <3> HIDE DEF direct, plan
    <3> QED BY <1>2, <1>3, <1>5, FilledStakeType
  <2> HIDE DEF spent, least, direct, profit
  <2> QED BY <1>1, <1>8, <2>1, <2>2, <2>3
<1>10. x.realized = RealizedProfit(direct) /\ x.class = Classify(direct)
  <2>1. ~MayChase(pol, plan, prices, direct)
    <3>1. \A i \in DOMAIN direct : direct[i].status = "filled"
      <4>1. DOMAIN direct = DOMAIN plan
        OBVIOUS
      <4> HIDE DEF direct, plan
      <4> QED BY <1>4, <4>1
    <3> HIDE DEF direct
    <3> QED BY <3>1 DEF MayChase
  <2> DEFINE chased == MayChase(pol, plan, prices, direct)
             filled == [i \in DOMAIN plan |-> FillAt(plan[i], stakes[i], prices[i], plan[i].capacity)]
             results == IF chased THEN filled ELSE direct
  <2>2. x = [results |-> results, chased |-> chased,
             realized |-> RealizedProfit(results), class |-> Classify(results)]
    BY DEF Simulate
  <2>3. results = direct
    <3> HIDE DEF direct, filled
    <3> QED BY <2>1
  <2> HIDE DEF results, direct, chased
  <2> QED BY <2>2, <2>3
<1>11. Classify(direct) = "clean"
  <2>1. \A i \in DOMAIN direct : direct[i].status = "filled"
    <3>1. DOMAIN direct = DOMAIN plan
      OBVIOUS
    <3> HIDE DEF direct, plan
    <3> QED BY <1>4, <3>1
  <2>2. RealizedProfit(direct) > 0
    <3>1. RealizedProfit(direct) \in Int
      <4>1. RealizedProfit(direct) = IF spent <= 0 THEN 0 ELSE least - spent
        BY DEF RealizedProfit, LeastPayout
      <4>2. least \in Nat /\ spent \in Nat
        <5> HIDE DEF direct, plan
        <5> QED BY <1>2, <1>3, <1>5, FilledStakeType
      <4> HIDE DEF spent, least
      <4> QED BY <4>1, <4>2
    <3> HIDE DEF direct, profit
    <3> QED BY <1>1, <1>9, <3>1
  <2> HIDE DEF direct
  <2> QED BY <2>1, <2>2 DEF Classify
<1> HIDE DEF direct
<1> QED BY <1>9, <1>10, <1>11

(***************************************************************************)
(* What the paper runner reports                                           *)
(***************************************************************************)

\* What the loop holds are emissions of the engine, and its last report is one
\* of a hedge that hedges and of a promise that is kept.
TradeInv ==
    /\ collected \in Seq(Emissions)
    /\ HedgesAreHedged
    /\ PromiseKept

\* What crosses the ring can be depended on.
LEMMA EmissionsAreSound == \A e \in Emissions : Sound(e) /\ e # NoPlan
<1> TAKE e \in Emissions
<1>1. e # NoPlan /\ \E b \in MarketBooks : e = Evaluation(b)
  BY DEF Emissions
<1>2. PICK b \in MarketBooks : e = Evaluation(b)
  BY <1>1
<1>3. b \in [Sides -> Seq(Quotes)]
  BY MarketsAreBooks
<1> QED BY <1>1, <1>2, <1>3, EvaluationSound

\* Nothing is collected, and nothing reported, at the start.
LEMMA TradeInit == Init => TradeInv
<1> SUFFICES ASSUME Init PROVE TradeInv
  OBVIOUS
<1>1. collected \in Seq(Emissions)
  BY DEF Init
<1>2. report.class = "none"
  BY DEF Init, NoReport
<1> QED BY <1>1, <1>2 DEF TradeInv, HedgesAreHedged, PromiseKept, Traded

\* A step that leaves the report alone leaves what is said of it.
LEMMA ReportKept ==
    HedgesAreHedged /\ PromiseKept /\ UNCHANGED report => HedgesAreHedged' /\ PromiseKept'
<1>1. HedgesAreHedged /\ UNCHANGED report => HedgesAreHedged'
  BY DEF HedgesAreHedged, PaidFor
<1>2. PromiseKept /\ UNCHANGED report => PromiseKept'
  BY DEF PromiseKept, Traded
<1> QED BY <1>1, <1>2

\* One signal: funded and executed, or passed over for want of capital.
LEMMA TradeReports ==
    ASSUME TradeInv, collected # <<>>, NEW prices \in Arrivals(Head(collected).plan), Trade(prices)
    PROVE  HedgesAreHedged' /\ PromiseKept'
<1> DEFINE e == Head(collected)
           x == Simulate(policy, e.plan, StakesOf(e), prices)
           new == [class |-> x.class, chased |-> x.chased, results |-> x.results, realized |-> x.realized,
                   prices |-> prices, plan |-> e.plan, expected |-> e.signal.worst_case_profit]
<1>1. e \in Emissions
  BY HeadTailProperties DEF TradeInv
<1>2. Sound(e) /\ e # NoPlan
  BY <1>1, EmissionsAreSound
<1>3. report' \in {new, NoReport}
  BY DEF Trade, StakesOf
<1> HIDE DEF e, x
<1>4. prices \in [DOMAIN e.plan -> Probs]
  <2>1. \A a \in DOMAIN e.plan : e.plan[a].quoted \in Probs
    BY <1>2 DEF Sound, Executes
  <2> QED BY <2>1, ArrivalPrices DEF e
<1>5. CASE report' = NoReport
  <2>1. report'.class = "none"
    BY <1>5 DEF NoReport
  <2> QED BY <2>1 DEF HedgesAreHedged, PromiseKept, Traded
<1>6. CASE report' = new
  <2>1. /\ report'.class = x.class /\ report'.results = x.results /\ report'.realized = x.realized
        /\ report'.prices = prices /\ report'.plan = e.plan
        /\ report'.expected = e.signal.worst_case_profit
    BY <1>6
  <2> HIDE DEF new
  <2>2. HedgesAreHedged'
    <3> SUFFICES ASSUME report'.class \in {"clean", "proportional"}, NEW o \in 1 .. OutcomeCount
                 PROVE  PaidFor(o)' > FilledStake(report'.results)
      BY DEF HedgesAreHedged, FilledStake
    <3>1. PaidFor(o)' = PaidOut(report'.results, o)
      BY DEF PaidFor, PaidOut
    <3>2. PaidOut(x.results, o) > FilledStake(x.results)
      BY <1>2, <1>4, <2>1, ExecutionHedges DEF x
    <3> QED BY <2>1, <3>1, <3>2
  <2>3. PromiseKept'
    <3> SUFFICES ASSUME \A i, j \in DOMAIN e.plan : e.plan[i].outcome = e.plan[j].outcome => i = j,
                        \A i \in DOMAIN e.plan :
                           /\ prices[i] <= e.plan[i].quoted
                           /\ FrontRun[e.plan[i].venue] + VenueSurvival[e.plan[i].venue] <= BPS
                 PROVE  x.class = "clean" /\ x.realized >= e.signal.worst_case_profit
      BY <2>1 DEF PromiseKept
    <3> QED BY <1>2, <1>4, ExecutionKeepsPromise DEF x
  <2> QED BY <2>2, <2>3
<1> QED BY <1>3, <1>5, <1>6

\* Every step of the loop leaves a report that holds good.
LEMMA TradeStep == TradeInv /\ [Next]_vars => TradeInv'
<1> SUFFICES ASSUME TradeInv, [Next]_vars PROVE TradeInv'
  OBVIOUS
<1>1. collected' \in Seq(Emissions) /\ UNCHANGED report => TradeInv'
  BY ReportKept DEF TradeInv
<1>2. collected \in Seq(Emissions)
  BY DEF TradeInv
<1>3. ASSUME NEW engage \in BOOLEAN, NEW confirm \in BOOLEAN, KillSwitch(engage, confirm)
      PROVE  TradeInv'
  BY <1>1, <1>2, <1>3 DEF KillSwitch
<1>4. CASE SessionEnd \/ OpenWindow \/ EndWindow
  BY <1>1, <1>2, <1>4 DEF SessionEnd, OpenWindow, EndWindow
<1>5. ASSUME NEW e \in Emissions, Collect(e) PROVE TradeInv'
  <2>1. Append(collected, e) \in Seq(Emissions)
    BY <1>2, AppendProperties
  <2> QED BY <1>1, <1>5, <2>1 DEF Collect
<1>6. CASE CloseWindow
  <2>1. <<>> \in Seq(Emissions)
    OBVIOUS
  <2> QED BY <1>1, <1>2, <1>6, <2>1 DEF CloseWindow
<1>7. CASE SkipRepeated
  <2>1. Tail(collected) \in Seq(Emissions)
    BY <1>2, <1>7, HeadTailProperties DEF SkipRepeated
  <2> QED BY <1>1, <1>7, <2>1 DEF SkipRepeated
<1>8. CASE TradeNext
  <2>1. collected # <<>> /\ \E prices \in Arrivals(Head(collected).plan) : Trade(prices)
    BY <1>8 DEF TradeNext
  <2>2. PICK prices \in Arrivals(Head(collected).plan) : Trade(prices)
    BY <2>1
  <2>3. collected' = Tail(collected)
    BY <2>2 DEF Trade
  <2>4. collected' \in Seq(Emissions)
    BY <1>2, <2>1, <2>3, HeadTailProperties
  <2>5. HedgesAreHedged' /\ PromiseKept'
    BY <2>1, <2>2, TradeReports
  <2> QED BY <2>4, <2>5 DEF TradeInv
<1>9. CASE UNCHANGED vars
  BY <1>1, <1>2, <1>9 DEF vars
<1> QED BY <1>3, <1>4, <1>5, <1>6, <1>7, <1>8, <1>9 DEF Next

\* An execution that the paper runner counts as clean or proportional pays,
\* whichever outcome settles, more than all that was filled (simulator.rs
\* classify_execution, accounting.rs).
THEOREM Hedges == Spec => []HedgesAreHedged
<1>1. TradeInv => HedgesAreHedged
  BY DEF TradeInv
<1> QED BY <1>1, TradeInit, TradeStep, PTL DEF Spec

\* A plan with one leg per outcome that arrives at prices no worse than quoted,
\* where the queues take no more than the sizing allowed for, is a clean fill
\* and earns at least what detection promised (aggregator.rs to_execution_leg:
\* the raw size, since the fill model discounts it).
THEOREM Promise == Spec => []PromiseKept
<1>1. TradeInv => PromiseKept
  BY DEF TradeInv
<1> QED BY <1>1, TradeInit, TradeStep, PTL DEF Spec

(***************************************************************************)
(* The money of a session: an execution moves at each venue what its legs  *)
(* there fill, and the venues together lose what was staked and gain what  *)
(* the winner is paid.                                                     *)
(***************************************************************************)
FilledLegs(results) == {i \in DOMAIN results : results[i].filled > 0}

\* The orders that results report on, what they leave unfilled and what they fill.
OrdersOf(results) ==
    [i \in DOMAIN results |-> [venue |-> results[i].venue, amount |-> results[i].requested]]

UnfilledOf(results) ==
    [i \in DOMAIN results |-> [venue |-> results[i].venue,
                               amount |-> results[i].requested - results[i].filled]]

FilledOf(results) ==
    [i \in FilledLegs(results) |-> [venue |-> results[i].venue, amount |-> results[i].filled]]

\* Results of orders at venues that have capital.
Funded(results, k) ==
    /\ DOMAIN results = 1 .. k
    /\ \A i \in 1 .. k :
          /\ results[i].venue \in InRange /\ results[i].net_payout \in Nat
          /\ results[i].requested \in Nat \ {0} /\ results[i].filled \in 0 .. results[i].requested
          /\ results[i].status = "filled" => results[i].filled = results[i].requested

\* Moves of amounts f of legs D at venues g,
Moves(D, f, g) == [i \in D |-> [venue |-> g[i], amount |-> f[i]]]

\* amount at a venue to the sum over its legs.
LEMMA MovedIs ==
    ASSUME NEW D, IsFiniteSet(D), NEW f, NEW g, \A i \in D : f[i] \in Nat, NEW v
    PROVE  /\ MovedAt(Moves(D, f, g), v) = SumFunctionOnSet(f, SentTo(g, D, v))
           /\ MovedAt(Moves(D, f, g), v) \in Nat
<1> DEFINE A == SentTo(g, D, v)
           m == Moves(D, f, g)
           h == [i \in {i \in DOMAIN m : m[i].venue = v} |-> Greater(m[i].amount, 0)]
<1>1. A \subseteq D /\ IsFiniteSet(A)
  BY FS_Subset DEF SentTo
<1>2. DOMAIN m = D /\ \A i \in D : m[i].venue = g[i] /\ m[i].amount = f[i]
  BY DEF Moves
<1> HIDE DEF m
<1>3. {i \in DOMAIN m : m[i].venue = v} = A
  BY <1>2 DEF SentTo
<1>4. MovedAt(m, v) = SumFunctionOnSet(h, A)
  BY <1>3 DEF MovedAt, SumFunction
<1>5. \A i \in A : h[i] = f[i] /\ f[i] \in Nat
  BY <1>1, <1>2, <1>3 DEF Greater
<1> HIDE DEF A, h
<1>6. SumFunctionOnSet(h, A) = SumFunctionOnSet(f, A)
  BY <1>1, <1>5, SumOfEqual
<1>7. SumFunctionOnSet(f, A) \in Nat
  BY <1>1, <1>5, SumNotNegative
<1> QED BY <1>4, <1>6, <1>7 DEF A, m

\* What is ordered at a venue is what is filled there and what is not.
LEMMA VenueMoves ==
    ASSUME NEW results, NEW k \in Nat, Funded(results, k), NEW v
    PROVE  /\ MovedAt(OrdersOf(results), v) \in Nat
           /\ MovedAt(UnfilledOf(results), v) \in Nat
           /\ MovedAt(FilledOf(results), v) \in Nat
           /\ MovedAt(OrdersOf(results), v) =
                 MovedAt(UnfilledOf(results), v) + MovedAt(FilledOf(results), v)
           /\ MovedAt(FilledOf(results), v) =
                 SumFunctionOnSet([i \in 1 .. k |-> results[i].filled],
                                  SentTo([i \in 1 .. k |-> results[i].venue], 1 .. k, v))
<1> DEFINE L == 1 .. k
           g == [i \in 1 .. k |-> results[i].venue]
           asked == [i \in 1 .. k |-> results[i].requested]
           got == [i \in 1 .. k |-> results[i].filled]
           rest == [i \in 1 .. k |-> results[i].requested - results[i].filled]
           A == SentTo(g, L, v)
           F == FilledLegs(results)
           B == SentTo(g, F, v)
<1>1. /\ IsFiniteSet(L) /\ A \subseteq L /\ B \subseteq A /\ F \subseteq L
  <2>1. IsFiniteSet(1 .. k)
    BY FS_Interval
  <2> QED BY <2>1 DEF SentTo, FilledLegs, Funded
<1>2. IsFiniteSet(A) /\ IsFiniteSet(F)
  BY <1>1, FS_Subset
<1>3. \A i \in L : /\ asked[i] \in Nat /\ got[i] \in Nat /\ rest[i] \in Nat
                        /\ asked[i] = rest[i] + got[i]
  BY DEF Funded
<1>4. \A i \in A \ B : got[i] = 0
  BY DEF SentTo, FilledLegs, Funded
<1>5. /\ OrdersOf(results) = Moves(L, asked, g)
      /\ UnfilledOf(results) = Moves(L, rest, g)
  BY DEF OrdersOf, UnfilledOf, Moves, Funded
<1>6. FilledOf(results) = Moves(F, got, g)
  BY <1>1 DEF FilledOf, Moves
<1> HIDE DEF g, asked, got, rest, L, F
<1>7. /\ MovedAt(OrdersOf(results), v) = SumFunctionOnSet(asked, A)
      /\ MovedAt(OrdersOf(results), v) \in Nat
      /\ MovedAt(UnfilledOf(results), v) = SumFunctionOnSet(rest, A)
      /\ MovedAt(UnfilledOf(results), v) \in Nat
      /\ MovedAt(FilledOf(results), v) = SumFunctionOnSet(got, B)
      /\ MovedAt(FilledOf(results), v) \in Nat
  BY <1>1, <1>2, <1>3, <1>5, <1>6, MovedIs
<1> HIDE DEF A, B
<1>8. SumFunctionOnSet(asked, A) = SumFunctionOnSet(rest, A) + SumFunctionOnSet(got, A)
  <2>1. \A i \in A : rest[i] \in Int /\ got[i] \in Int /\ asked[i] = rest[i] + got[i]
    BY <1>1, <1>3
  <2> QED BY <1>2, <2>1, SumOfTerms
<1>9. SumFunctionOnSet(got, A) = SumFunctionOnSet(got, B)
  <2>1. \A i \in A : got[i] \in Int
    BY <1>1, <1>3
  <2> QED BY <1>1, <1>2, <1>4, <2>1, SumWithoutZeros
<1> QED BY <1>7, <1>8, <1>9 DEF A, L, got, g

\* The filled leg that pays the least is there when any leg is filled.
LEMMA WinnerPaysLeast ==
    ASSUME NEW results, NEW k \in Nat, Funded(results, k), FilledLegs(results) # {}
    PROVE  /\ Winner(results, FilledLegs(results)) \in FilledLegs(results)
           /\ \A i \in FilledLegs(results) :
                 results[Winner(results, FilledLegs(results))].net_payout <= results[i].net_payout
<1> DEFINE F == FilledLegs(results)
           h == [i \in 1 .. k |-> results[i].net_payout]
           W == {i \in F : \A j \in F : results[i].net_payout <= results[j].net_payout}
           least == Min(Values(h, F))
<1>1. F \subseteq 1 .. k /\ IsFiniteSet(F) /\ \A i \in F : h[i] = results[i].net_payout /\ h[i] \in Int
  <2>1. IsFiniteSet(1 .. k)
    BY FS_Interval
  <2>2. F \subseteq 1 .. k
    BY DEF FilledLegs, Funded
  <2>3. IsFiniteSet(F)
    BY <2>1, <2>2, FS_Subset
  <2> QED BY <2>2, <2>3 DEF Funded
<1> HIDE DEF h, F
<1>2. least \in Values(h, F) /\ \A x \in Values(h, F) : least <= x
  <2>1. IsFiniteSet(Values(h, F))
    BY <1>1, ValuesFinite
  <2>2. Values(h, F) # {} /\ Values(h, F) \subseteq Int
    BY <1>1 DEF Values, F
  <2> QED BY <2>1, <2>2, LeastOf
<1> HIDE DEF least
<1>3. PICK i \in F : h[i] = least
  BY <1>2 DEF Values
<1>4. \A j \in F : h[i] <= h[j]
  BY <1>2, <1>3 DEF Values
<1>5. i \in W
  BY <1>1, <1>3, <1>4
<1>6. W \subseteq F /\ IsFiniteSet(W) /\ W \subseteq Int /\ W # {}
  <2>1. W \subseteq F
    OBVIOUS
  <2> HIDE DEF W
  <2>2. IsFiniteSet(W)
    BY <1>1, <2>1, FS_Subset
  <2> QED BY <1>1, <1>5, <2>1, <2>2
<1>7. Min(W) \in W
  <2> HIDE DEF W
  <2> QED BY <1>6, LeastOf
<1>8. Winner(results, F) = Min(W)
  BY DEF Winner
<1> QED BY <1>7, <1>8 DEF F

\* A bankroll with nothing reserved.
Balanced(b) == b \in [available : [InRange -> Nat], locked : [InRange -> {0}]]

\* Orders that are all reserved take no more at a venue than is there.
LEMMA ReservedWithin ==
    ASSUME NEW b, Balanced(b), NEW k \in Nat, NEW f, NEW g, \A i \in 1 .. k : f[i] \in Nat \ {0},
           Reserved(b, Moves(1 .. k, f, g)) = Moves(1 .. k, f, g)
    PROVE  /\ \A i \in 1 .. k : g[i] \in InRange
           /\ \A v \in InRange : MovedAt(Moves(1 .. k, f, g), v) <= b.available[v]
<1> DEFINE orders == Moves(1 .. k, f, g)
<1>1. DOMAIN orders = 1 .. k /\ \A i \in 1 .. k : orders[i] = [venue |-> g[i], amount |-> f[i]]
  BY DEF Moves
<1>2. \A n \in 1 .. k : CanReserve(b, orders, n)
  <2>1. DOMAIN Reserved(b, orders) = {n \in DOMAIN orders : \A j \in 1 .. n : CanReserve(b, orders, j)}
    BY DEF Reserved
  <2>2. {n \in DOMAIN orders : \A j \in 1 .. n : CanReserve(b, orders, j)} = 1 .. k
    BY <1>1, <2>1
  <2> HIDE DEF orders
  <2>3. TAKE n \in 1 .. k
  <2>4. n \in {m \in DOMAIN orders : \A j \in 1 .. m : CanReserve(b, orders, j)}
    BY <2>2
  <2>5. n \in 1 .. n /\ \A j \in 1 .. n : CanReserve(b, orders, j)
    BY <2>4
  <2> QED BY <2>5
<1>3. \A n \in 1 .. k : [i \in 1 .. n |-> orders[i]] = Moves(1 .. n, f, g)
  <2>1. TAKE n \in 1 .. k
  <2>2. \A i \in 1 .. n : orders[i] = [venue |-> g[i], amount |-> f[i]]
    <3>1. 1 .. n \subseteq 1 .. k
      OBVIOUS
    <3> HIDE DEF orders
    <3> QED BY <1>1, <3>1
  <2> HIDE DEF orders
  <2> QED BY <2>2 DEF Moves
<1>4. \A n \in 1 .. k : /\ g[n] \in InRange
                        /\ MovedAt(Moves(1 .. n, f, g), g[n]) <= b.available[g[n]]
  <2>1. TAKE n \in 1 .. k
  <2>2. CanReserve(b, orders, n) /\ orders[n].venue = g[n] /\ orders[n].amount = f[n]
    <3> HIDE DEF orders
    <3>1. orders[n] = [venue |-> g[n], amount |-> f[n]]
      BY <1>1
    <3> QED BY <1>2, <3>1
  <2>3. [i \in 1 .. n |-> orders[i]] = Moves(1 .. n, f, g)
    BY <1>3
  <2> HIDE DEF orders
  <2>4. f[n] \in Nat \ {0}
    OBVIOUS
  <2>5. /\ orders[n].venue \in InRange
        /\ \/ orders[n].amount <= 0
           \/ MovedAt([i \in 1 .. n |-> orders[i]], orders[n].venue) <= b.available[orders[n].venue]
    BY <2>2 DEF CanReserve
  <2> QED BY <2>2, <2>3, <2>4, <2>5
<1>5. ASSUME NEW v \in InRange PROVE MovedAt(orders, v) <= b.available[v]
  <2> DEFINE A == SentTo(g, 1 .. k, v)
             T == {m \in 0 .. k : \A i \in A : i <= m}
  <2>1. T \subseteq Nat /\ k \in T
    BY DEF SentTo
  <2>2. PICK m \in T : \A j \in T : m <= j
    <3> HIDE DEF T
    <3> QED BY <2>1, LeastNumber
  <2>3. m \in 0 .. k /\ \A i \in A : i <= m
    OBVIOUS
  <2>4. A = SentTo(g, 1 .. m, v)
    BY <2>3 DEF SentTo
  <2>5. MovedAt(orders, v) = SumFunctionOnSet(f, A)
    <3>1. IsFiniteSet(1 .. k) /\ \A i \in 1 .. k : f[i] \in Nat
      BY FS_Interval
    <3> HIDE DEF A, T
    <3>2. MovedAt(Moves(1 .. k, f, g), v) = SumFunctionOnSet(f, SentTo(g, 1 .. k, v))
      BY <3>1, MovedIs
    <3> QED BY <3>2 DEF A
  <2>6. MovedAt(Moves(1 .. m, f, g), v) = SumFunctionOnSet(f, A)
    <3> DEFINE D == 1 .. m
    <3>1. IsFiniteSet(D)
      BY <2>3, FS_Interval
    <3>2. \A i \in D : f[i] \in Nat
      BY <2>3
    <3> HIDE DEF A, T, D
    <3>3. MovedAt(Moves(D, f, g), v) = SumFunctionOnSet(f, SentTo(g, D, v))
      BY <3>1, <3>2, MovedIs
    <3> QED BY <2>4, <3>3 DEF D
  <2>7. CASE m = 0
    <3>1. A = {}
      BY <2>4, <2>7 DEF SentTo
    <3>2. SumFunctionOnSet(f, {}) = 0 /\ b.available[v] \in Nat
      BY SumOfNone DEF Balanced
    <3> HIDE DEF A, orders, T
    <3> QED BY <2>5, <3>1, <3>2
  <2>8. CASE m # 0
    <3>1. m \in 1 .. k /\ m - 1 \in 0 .. k /\ m - 1 \notin T
      <4>1. m \in 1 .. k /\ m - 1 \in 0 .. k /\ ~(m <= m - 1)
        BY <2>3, <2>8
      <4> HIDE DEF T
      <4> QED BY <2>2, <4>1
    <3>2. PICK i \in A : ~(i <= m - 1)
      BY <3>1
    <3>3. i = m /\ g[i] = v
      BY <2>3, <3>1, <3>2 DEF SentTo
    <3> HIDE DEF A, T, orders
    <3>4. MovedAt(Moves(1 .. m, f, g), v) <= b.available[v]
      BY <1>4, <3>1, <3>3
    <3> QED BY <2>5, <2>6, <3>4
  <2> QED BY <2>7, <2>8
<1> HIDE DEF orders
<1> QED BY <1>4, <1>5 DEF orders

\* What a gate reserved before it failed is all given back.
LEMMA GivenBack ==
    ASSUME NEW b, Balanced(b), NEW moves, \A v \in InRange : MovedAt(moves, v) \in Nat
    PROVE  CommitFill(Reserve(b, moves), moves) = b
<1> DEFINE gate == Reserve(b, moves)
           c == CommitFill(gate, moves)
<1>1. /\ b.available \in [InRange -> Nat] /\ b.locked \in [InRange -> {0}]
      /\ b = [available |-> b.available, locked |-> b.locked]
  BY DEF Balanced
<1>2. \A v \in InRange : gate.available[v] = b.available[v] - MovedAt(moves, v) /\ gate.locked[v] = MovedAt(moves, v)
  BY <1>1 DEF Reserve
<1> HIDE DEF gate
<1>3. \A v \in InRange : FromLocked(gate, moves, v) = MovedAt(moves, v)
  BY <1>2 DEF FromLocked, Lesser
<1>4. c = [available |-> [v \in InRange |-> gate.available[v] + FromLocked(gate, moves, v)],
           locked |-> [v \in InRange |-> gate.locked[v] - FromLocked(gate, moves, v)]]
  BY DEF CommitFill
<1>5. [v \in InRange |-> gate.available[v] + FromLocked(gate, moves, v)] = b.available
  <2>1. \A v \in InRange : gate.available[v] + FromLocked(gate, moves, v) = b.available[v]
    BY <1>1, <1>2, <1>3
  <2> QED BY <1>1, <2>1
<1>6. [v \in InRange |-> gate.locked[v] - FromLocked(gate, moves, v)] = b.locked
  <2>1. \A v \in InRange : gate.locked[v] - FromLocked(gate, moves, v) = b.locked[v]
    BY <1>1, <1>2, <1>3
  <2> QED BY <1>1, <2>1
<1> HIDE DEF c
<1> QED BY <1>1, <1>4, <1>5, <1>6 DEF c, gate

\* What the winner of filled legs is paid at a venue.
WonAt(results, v) ==
    LET w == Winner(results, FilledLegs(results))
    IN  IF FilledLegs(results) # {} /\ results[w].venue = v THEN results[w].net_payout ELSE 0

Settled(b, results) == Settle(Reconcile(Reserve(b, OrdersOf(results)), results), results)

\* Settling funded orders unlocks everything, takes what was filled and pays
\* the winner.
LEMMA SettledAt ==
    ASSUME NEW b, Balanced(b), NEW results, NEW k \in Nat, Funded(results, k),
           \A v \in InRange : MovedAt(OrdersOf(results), v) <= b.available[v]
    PROVE  /\ Balanced(Settled(b, results))
           /\ \A v \in InRange :
                 /\ WonAt(results, v) \in Nat /\ MovedAt(FilledOf(results), v) \in Nat
                 /\ Settled(b, results).available[v] + MovedAt(FilledOf(results), v) =
                       b.available[v] + WonAt(results, v)
<1> DEFINE F == FilledLegs(results)
           w == Winner(results, F)
           asked(v) == MovedAt(OrdersOf(results), v)
           rest(v) == MovedAt(UnfilledOf(results), v)
           got(v) == MovedAt(FilledOf(results), v)
           gate == Reserve(b, OrdersOf(results))
           r == Reconcile(gate, results)
           c == Settled(b, results)
<1>1. b.available \in [InRange -> Nat] /\ \A v \in InRange : b.locked[v] = 0
  BY DEF Balanced
<1>2. \A v \in InRange : /\ asked(v) \in Nat /\ rest(v) \in Nat /\ got(v) \in Nat
                         /\ asked(v) = rest(v) + got(v) /\ asked(v) <= b.available[v]
  BY VenueMoves
<1>3. \A v \in InRange : gate.available[v] = b.available[v] - asked(v) /\ gate.locked[v] = asked(v)
  <2> HIDE DEF asked
  <2>1. \A v \in InRange : b.locked[v] + asked(v) = asked(v)
    BY <1>1, <1>2
  <2> QED BY <2>1 DEF Reserve, asked
<1> HIDE DEF gate
<1>4. r = CommitFill(gate, UnfilledOf(results))
  BY DEF Reconcile, UnfilledOf
<1> HIDE DEF asked, rest, got
<1>5. \A v \in InRange : FromLocked(gate, UnfilledOf(results), v) = rest(v)
  BY <1>2, <1>3 DEF FromLocked, Lesser, rest
<1>6. /\ r = [available |-> [v \in InRange |-> r.available[v]], locked |-> [v \in InRange |-> r.locked[v]]]
      /\ \A v \in InRange : r.available[v] = b.available[v] - got(v) /\ r.locked[v] = got(v)
  <2>1. /\ r = [available |-> [v \in InRange |-> r.available[v]], locked |-> [v \in InRange |-> r.locked[v]]]
        /\ \A v \in InRange : /\ r.available[v] = gate.available[v] + FromLocked(gate, UnfilledOf(results), v)
                              /\ r.locked[v] = gate.locked[v] - FromLocked(gate, UnfilledOf(results), v)
    BY <1>4 DEF CommitFill
  <2> HIDE DEF r
  <2> QED BY <1>1, <1>2, <1>3, <1>5, <2>1
<1> HIDE DEF r
<1>7. c = IF F = {} THEN r ELSE SettleLegs(r, FilledOf(results), w, results[w].net_payout)
  BY DEF Settled, Settle, FilledOf, FilledLegs, r, gate
<1>8. ASSUME F # {}
      PROVE  /\ w \in F /\ results[w].net_payout \in Nat
             /\ FilledOf(results)[w].venue = results[w].venue
  <2>1. w \in F
    BY <1>8, WinnerPaysLeast
  <2> HIDE DEF w
  <2>2. w \in 1 .. k
    BY <2>1 DEF FilledLegs, Funded
  <2> QED BY <2>1, <2>2 DEF FilledOf, Funded
<1> HIDE DEF w, F
<1>9. ASSUME NEW v \in InRange
      PROVE  WonAt(results, v) = IF F # {} /\ results[w].venue = v THEN results[w].net_payout ELSE 0
  BY DEF WonAt, w, F
<1>10. \A v \in InRange : WonAt(results, v) \in Nat
  BY <1>8, <1>9
<1>11. CASE F = {}
  <2>1. \A v \in InRange : got(v) = 0
    <3>1. TAKE v \in InRange
    <3>2. FilledOf(results) = Moves({}, [i \in {} |-> 0], [i \in {} |-> 0])
      BY <1>11 DEF FilledOf, Moves, F
    <3>3. SentTo([i \in {} |-> 0], {}, v) = {} /\ IsFiniteSet({})
      BY FS_EmptySet DEF SentTo
    <3>4. got(v) = SumFunctionOnSet([i \in {} |-> 0], {})
      <4> DEFINE z == [i \in {} |-> 0]
      <4>1. \A i \in {} : z[i] \in Nat
        OBVIOUS
      <4> HIDE DEF z
      <4>2. MovedAt(Moves({}, z, z), v) = SumFunctionOnSet(z, SentTo(z, {}, v))
        BY <3>3, <4>1, MovedIs
      <4> QED BY <3>2, <3>3, <4>2 DEF got, z
    <3> QED BY <3>4, SumOfNone
  <2>2. c = r /\ \A v \in InRange : WonAt(results, v) = 0
    BY <1>7, <1>9, <1>11
  <2>3. \A v \in InRange : c.available[v] = b.available[v] /\ c.locked[v] = 0
    <3> HIDE DEF c
    <3> QED BY <1>1, <1>6, <2>1, <2>2
  <2>4. Balanced(c)
    <3>1. c = [available |-> [v \in InRange |-> c.available[v]], locked |-> [v \in InRange |-> c.locked[v]]]
      BY <1>6, <2>2
    <3> HIDE DEF c
    <3>2. /\ [v \in InRange |-> c.available[v]] \in [InRange -> Nat]
          /\ [v \in InRange |-> c.locked[v]] \in [InRange -> {0}]
      BY <1>1, <2>3
    <3> QED BY <3>1, <3>2 DEF Balanced
  <2> HIDE DEF c
  <2> QED BY <1>1, <1>2, <1>10, <2>1, <2>2, <2>3, <2>4 DEF c, got
<1>12. CASE F # {}
  <2>1. c = SettleLegs(r, FilledOf(results), w, results[w].net_payout)
    BY <1>7, <1>12
  <2>2. \A v \in InRange : FromLocked(r, FilledOf(results), v) = got(v)
    BY <1>2, <1>6 DEF FromLocked, Lesser, got
  <2>3. /\ c = [available |-> [v \in InRange |-> c.available[v]], locked |-> [v \in InRange |-> c.locked[v]]]
        /\ \A v \in InRange :
              /\ c.available[v] = r.available[v] + (IF v = FilledOf(results)[w].venue
                                                    THEN Greater(results[w].net_payout, 0) ELSE 0)
              /\ c.locked[v] = r.locked[v] - FromLocked(r, FilledOf(results), v)
    <3> HIDE DEF c
    <3> QED BY <2>1 DEF SettleLegs
  <2> HIDE DEF c
  <2>4. \A v \in InRange : c.available[v] = r.available[v] + WonAt(results, v) /\ c.locked[v] = 0
    <3>1. TAKE v \in InRange
    <3>2. Greater(results[w].net_payout, 0) = results[w].net_payout
      BY <1>8, <1>12 DEF Greater
    <3>3. WonAt(results, v) = IF v = FilledOf(results)[w].venue THEN Greater(results[w].net_payout, 0) ELSE 0
      BY <1>8, <1>9, <1>12, <3>2
    <3>4. r.locked[v] - FromLocked(r, FilledOf(results), v) = 0
      BY <1>2, <1>6, <2>2
    <3> QED BY <2>3, <3>3, <3>4
  <2>5. \A v \in InRange : c.available[v] \in Nat /\ c.available[v] + got(v) = b.available[v] + WonAt(results, v)
    BY <1>1, <1>2, <1>6, <1>10, <2>4
  <2>6. Balanced(c)
    <3>1. /\ [v \in InRange |-> c.available[v]] \in [InRange -> Nat]
          /\ [v \in InRange |-> c.locked[v]] \in [InRange -> {0}]
      BY <2>4, <2>5
    <3> QED BY <2>3, <3>1 DEF Balanced
  <2> QED BY <1>2, <1>10, <2>5, <2>6 DEF c, got
<1> QED BY <1>11, <1>12

\* All that the bankroll has.
Capital(b) == SumFunction(b.available)

\* The winner's payout, when a leg is filled.
Won(results) ==
    IF FilledLegs(results) = {} THEN 0
    ELSE results[Winner(results, FilledLegs(results))].net_payout

\* Settling funded orders takes all that was filled and pays the winner.
LEMMA SettledCapital ==
    ASSUME NEW b, Balanced(b), NEW results, NEW k \in Nat, Funded(results, k),
           \A v \in InRange : MovedAt(OrdersOf(results), v) <= b.available[v]
    PROVE  /\ Capital(Settled(b, results)) = Capital(b) + Won(results) - FilledStake(results)
           /\ Capital(b) \in Int /\ Won(results) \in Int /\ FilledStake(results) \in Int
<1> DEFINE c == Settled(b, results)
           L == 1 .. k
           got == [i \in L |-> results[i].filled]
           at == [i \in L |-> results[i].venue]
           lost == Shares(got, at, L, InRange)
           won == [v \in InRange |-> WonAt(results, v)]
           both == [v \in InRange |-> b.available[v] + won[v]]
<1>1. IsFiniteSet(InRange) /\ IsFiniteSet(L)
  <2>1. MAX_BANKROLL_VENUES \in Int /\ k \in Int /\ 1 \in Int
    BY VenueBound
  <2>2. IsFiniteSet(1 .. MAX_BANKROLL_VENUES) /\ IsFiniteSet(1 .. k)
    BY <2>1, FS_Interval
  <2> QED BY <2>2 DEF InRange
<1>2. \A i \in L : got[i] \in Int /\ got[i] \in Nat /\ at[i] \in InRange /\ got[i] = results[i].filled
  BY DEF Funded
<1>3. /\ Balanced(c) /\ Balanced(b)
      /\ \A v \in InRange :
            /\ WonAt(results, v) \in Nat /\ MovedAt(FilledOf(results), v) \in Nat
            /\ c.available[v] + MovedAt(FilledOf(results), v) = b.available[v] + WonAt(results, v)
  BY SettledAt
<1>4. \A v \in InRange : lost[v] = MovedAt(FilledOf(results), v)
  <2>1. TAKE v \in InRange
  <2>2. MovedAt(FilledOf(results), v) = SumFunctionOnSet(got, SentTo(at, L, v))
    BY VenueMoves
  <2> HIDE DEF got, at, L
  <2> QED BY <2>2 DEF Shares
<1>5. FilledStake(results) = SumFunctionOnSet(got, L)
  <2> DEFINE f == [i \in DOMAIN results |-> results[i].filled]
  <2>1. FilledStake(results) = SumFunctionOnSet(f, DOMAIN f)
    BY DEF FilledStake, SumFunction
  <2>2. f = got /\ DOMAIN got = L
    BY DEF Funded
  <2> HIDE DEF f, got, L
  <2> QED BY <2>1, <2>2
<1>6. /\ DOMAIN c.available = InRange /\ DOMAIN b.available = InRange
      /\ \A v \in InRange : c.available[v] \in Nat /\ b.available[v] \in Nat
  <2> HIDE DEF c
  <2> QED BY <1>3 DEF Balanced
<1>7. \A v \in InRange : won[v] = WonAt(results, v) /\ both[v] = b.available[v] + won[v]
  OBVIOUS
<1>8. \A v \in InRange : /\ c.available[v] \in Int /\ lost[v] \in Int /\ b.available[v] \in Int /\ won[v] \in Int
                         /\ both[v] = c.available[v] + lost[v] /\ both[v] = b.available[v] + won[v]
  <2> HIDE DEF c, lost, won, both
  <2> QED BY <1>3, <1>4, <1>6, <1>7
<1> HIDE DEF both
<1>9. SumFunctionOnSet(both, InRange) = SumFunctionOnSet(c.available, InRange) + SumFunctionOnSet(lost, InRange)
  <2> HIDE DEF c, lost, won
  <2> QED BY <1>1, <1>8, SumOfTerms
<1>10. SumFunctionOnSet(both, InRange) = SumFunctionOnSet(b.available, InRange) + SumFunctionOnSet(won, InRange)
  <2> HIDE DEF c, lost, won
  <2> QED BY <1>1, <1>8, SumOfTerms
<1>11. SumFunctionOnSet(lost, InRange) = FilledStake(results)
  <2> HIDE DEF got, at, L
  <2> QED BY <1>1, <1>2, <1>5, SumByValue
<1>12. SumFunctionOnSet(won, InRange) = Won(results)
  <2> DEFINE F == FilledLegs(results)
             w == Winner(results, F)
  <2>1. CASE F = {}
    <3>1. \A v \in InRange : won[v] = 0
      BY <2>1 DEF WonAt
    <3> HIDE DEF won
    <3>2. SumFunctionOnSet(won, InRange) = 0
      BY <1>1, <3>1, SumOfZeros
    <3> QED BY <2>1, <3>2 DEF Won
  <2>2. CASE F # {}
    <3>1. w \in F
      BY <2>2, WinnerPaysLeast
    <3> DEFINE paid == results[w].net_payout
               u == results[w].venue
    <3>2. u \in InRange /\ paid \in Nat
      <4> HIDE DEF w
      <4> QED BY <3>1 DEF FilledLegs, Funded
    <3>3. \A v \in InRange : won[v] = IF u = v THEN paid ELSE 0
      BY <2>2 DEF WonAt
    <3> HIDE DEF won, paid, u
    <3>4. won[u] = paid /\ \A v \in InRange \ {u} : won[v] = 0
      BY <3>2, <3>3
    <3>5. /\ \A v \in InRange : won[v] \in Int
          /\ {u} \subseteq InRange /\ \A v \in InRange \ {u} : won[v] = 0
      BY <3>2, <3>3, <3>4
    <3>6. SumFunctionOnSet(won, InRange) = SumFunctionOnSet(won, {u})
      BY <1>1, <3>5, SumWithoutZeros
    <3>7. SumFunctionOnSet(won, {u}) = won[u]
      <4>1. won[u] \in Int
        BY <3>2, <3>4
      <4> QED BY <4>1, SumOfOne
    <3>8. Won(results) = paid
      BY <2>2 DEF Won, paid
    <3> QED BY <3>4, <3>6, <3>7, <3>8
  <2> QED BY <2>1, <2>2
<1>13. Capital(c) = SumFunctionOnSet(c.available, InRange) /\ Capital(b) = SumFunctionOnSet(b.available, InRange)
  <2> HIDE DEF c
  <2> QED BY <1>6 DEF Capital, SumFunction
<1>14. /\ SumFunctionOnSet(c.available, InRange) \in Int /\ SumFunctionOnSet(b.available, InRange) \in Int
       /\ SumFunctionOnSet(won, InRange) \in Int /\ SumFunctionOnSet(lost, InRange) \in Int
  <2> HIDE DEF c, won, lost
  <2> QED BY <1>1, <1>8, SumType
<1> HIDE DEF c, won, lost
<1>15. /\ Capital(c) = Capital(b) + Won(results) - FilledStake(results)
       /\ Capital(b) \in Int /\ Won(results) \in Int /\ FilledStake(results) \in Int
  <2> DEFINE cs == Capital(c)
             bs == Capital(b)
             ws == Won(results)
             ls == FilledStake(results)
  <2>1. cs \in Int /\ bs \in Int /\ ws \in Int /\ ls \in Int
    BY <1>11, <1>12, <1>13, <1>14
  <2>2. cs + ls = bs + ws
    BY <1>9, <1>10, <1>11, <1>12, <1>13
  <2> HIDE DEF cs, bs, ws, ls
  <2>3. cs = bs + ws - ls
    BY <2>1, <2>2
  <2> QED BY <2>1, <2>3 DEF cs, bs, ws, ls
<1> QED BY <1>15 DEF c

\* An execution that left no leg alone won what it reports to have realized.
LEMMA WonIsRealized ==
    ASSUME NEW results, NEW k \in Nat, Funded(results, k), Classify(results) # "broken_leg"
    PROVE  Won(results) - FilledStake(results) = RealizedProfit(results)
<1> DEFINE F == FilledLegs(results)
           L == 1 .. k
           got == [i \in L |-> results[i].filled]
           spent == FilledStake(results)
<1>1. F = {} \/ F = L
  <2>1. CASE \A i \in DOMAIN results : results[i].status = "filled"
    BY <2>1 DEF FilledLegs, Funded
  <2>2. CASE ~(\A i \in DOMAIN results : results[i].status = "filled")
    <3> DEFINE filled == {i \in DOMAIN results : results[i].filled > 0}
    <3>1. Classify(results) =
            IF filled = {} THEN FirstReason(results)
            ELSE IF filled # DOMAIN results THEN "broken_leg"
            ELSE IF RealizedProfit(results) > 0 THEN "proportional" ELSE "asymmetric"
      BY <2>2 DEF Classify
    <3>2. filled = F /\ DOMAIN results = L
      BY DEF FilledLegs, Funded
    <3> HIDE DEF filled, F, L
    <3> QED BY <3>1, <3>2
  <2> QED BY <2>1, <2>2
<1>2. IsFiniteSet(L) /\ \A i \in L : got[i] \in Nat /\ got[i] = results[i].filled
  <2>1. IsFiniteSet(1 .. k)
    BY FS_Interval
  <2> QED BY <2>1 DEF Funded
<1>3. spent = SumFunctionOnSet(got, L)
  <2> DEFINE f == [i \in DOMAIN results |-> results[i].filled]
  <2>1. FilledStake(results) = SumFunctionOnSet(f, DOMAIN f)
    BY DEF FilledStake, SumFunction
  <2>2. f = got /\ DOMAIN got = L
    BY DEF Funded
  <2> HIDE DEF f, got, L
  <2> QED BY <2>1, <2>2
<1>4. CASE F = {}
  <2>1. \A i \in L : got[i] = 0
    BY <1>2, <1>4 DEF FilledLegs, Funded
  <2> HIDE DEF got, L
  <2>2. spent = 0
    BY <1>2, <1>3, <2>1, SumOfZeros
  <2>3. Won(results) = 0 /\ RealizedProfit(results) = 0
    BY <1>4, <2>2 DEF Won, RealizedProfit
  <2> QED BY <2>2, <2>3
<1>5. CASE F = L /\ F # {}
  <2> DEFINE P == {results[i].net_payout : i \in DOMAIN results}
             w == Winner(results, F)
             least == Min(P)
  <2>1. spent > 0
    <3>1. \A i \in L : got[i] \in Nat \ {0}
      <4>1. \A i \in L : results[i].filled > 0
        BY <1>5 DEF FilledLegs
      <4> HIDE DEF got, L
      <4> QED BY <1>2, <4>1
    <3> HIDE DEF got, L
    <3>2. SumFunctionOnSet(got, L) \in Nat \ {0}
      BY <1>2, <1>5, <3>1, PositiveSum
    <3> HIDE DEF spent
    <3> QED BY <1>3, <3>2
  <2>2. w \in F /\ \A i \in F : results[w].net_payout <= results[i].net_payout
    BY <1>5, WinnerPaysLeast
  <2>3. DOMAIN results = L /\ \A i \in L : results[i].net_payout \in Nat
    BY DEF Funded
  <2> HIDE DEF w, F, L
  <2>4. /\ P \subseteq Int /\ P # {} /\ results[w].net_payout \in P
        /\ \A x \in P : results[w].net_payout <= x
    BY <1>5, <2>2, <2>3
  <2>5. IsFiniteSet(P)
    <3> DEFINE h == [i \in L |-> results[i].net_payout]
    <3>1. P = Values(h, L)
      BY <2>3 DEF Values
    <3> HIDE DEF P, h
    <3> QED BY <1>2, <3>1, ValuesFinite
  <2>6. least \in P /\ \A x \in P : least <= x
    <3> HIDE DEF P
    <3> QED BY <2>4, <2>5, LeastOf
  <2>7. RealizedProfit(results) = IF spent <= 0 THEN 0 ELSE least - spent
    BY DEF RealizedProfit
  <2>8. Won(results) = results[w].net_payout
    BY <1>5 DEF Won, w, F
  <2>9. spent \in Int
    <3>1. \A i \in L : got[i] \in Int
      BY <1>2
    <3> HIDE DEF got
    <3> QED BY <1>2, <1>3, <3>1, SumType
  <2> HIDE DEF least, spent, P
  <2>10. results[w].net_payout = least
    <3> DEFINE paid == results[w].net_payout
    <3>1. paid \in P /\ paid \in Int /\ least \in P /\ least \in Int
      BY <2>4, <2>6
    <3>2. paid <= least /\ least <= paid
      BY <2>4, <2>6
    <3> HIDE DEF paid
    <3>3. paid = least
      BY <3>1, <3>2
    <3> QED BY <3>3 DEF paid
  <2>11. RealizedProfit(results) = Won(results) - spent
    BY <2>1, <2>7, <2>8, <2>9, <2>10
  <2> QED BY <2>11 DEF spent
<1> QED BY <1>1, <1>4, <1>5

\* The results of a plan's legs at venues with capital report on its orders.
LEMMA FundedResults ==
    ASSUME NEW plan, NEW k \in Nat, DOMAIN plan = 1 .. k, NEW stakes,
           \A i \in 1 .. k : Executes(plan[i], stakes[i]) /\ plan[i].venue \in InRange,
           NEW results, Executed(plan, stakes, results)
    PROVE  /\ Funded(results, k)
           /\ OrdersOf(results) = Moves(1 .. k, stakes, [i \in 1 .. k |-> plan[i].venue])
<1>1. DOMAIN results = 1 .. k
  BY DEF Executed
<1>2. \A i \in 1 .. k : /\ results[i].venue = plan[i].venue /\ results[i].requested = stakes[i]
                        /\ results[i].filled \in Nat /\ results[i].filled <= stakes[i]
                        /\ results[i].net_payout \in Nat /\ stakes[i] \in Nat \ {0}
                        /\ results[i].status = "filled" => results[i].filled = stakes[i]
  BY DEF Executed, Reports, Executes
<1>3. Funded(results, k)
  BY <1>1, <1>2 DEF Funded
<1>4. OrdersOf(results) = Moves(1 .. k, stakes, [i \in 1 .. k |-> plan[i].venue])
  BY <1>1, <1>2 DEF OrdersOf, Moves
<1> QED BY <1>3, <1>4

\* An execution has one of the classes, and its profit is an amount.
LEMMA ClassOfResults ==
    ASSUME NEW plan, NEW k \in Nat \ {0}, DOMAIN plan = 1 .. k, NEW stakes, NEW results,
           Executed(plan, stakes, results)
    PROVE  /\ Classify(results) \in Classes \ {"none"}
           /\ RealizedProfit(results) \in Int
<1> DEFINE filled == {i \in DOMAIN results : results[i].filled > 0}
<1>1. /\ 1 \in DOMAIN results /\ results[1].filled \in Nat
      /\ results[1].status \in {"filled", "partial", "price_moved", "depth_exhausted", "increment"}
      /\ results[1].filled = 0 => results[1].status \notin {"filled", "partial"}
  BY DEF Executed, Reports
<1>2. filled = {} => FirstReason(results) \in {"price_moved", "depth_exhausted"}
  <2>1. filled = {} => results[1].filled = 0
    BY <1>1
  <2> HIDE DEF filled
  <2> QED BY <1>1, <2>1 DEF FirstReason
<1>3. Classify(results) =
        IF \A i \in DOMAIN results : results[i].status = "filled"
        THEN IF RealizedProfit(results) > 0 THEN "clean" ELSE "unprofitable"
        ELSE IF filled = {} THEN FirstReason(results)
        ELSE IF filled # DOMAIN results THEN "broken_leg"
        ELSE IF RealizedProfit(results) > 0 THEN "proportional" ELSE "asymmetric"
  BY DEF Classify
<1> HIDE DEF filled
<1>4. Classify(results) \in Classes \ {"none"}
  BY <1>2, <1>3 DEF Classes
<1>5. FilledStake(results) \in Nat /\ LeastPayout(results) \in Nat
  BY FilledStakeType
<1>6. RealizedProfit(results) =
        IF FilledStake(results) <= 0 THEN 0 ELSE LeastPayout(results) - FilledStake(results)
  BY DEF RealizedProfit, LeastPayout
<1>7. RealizedProfit(results) \in Int
  BY <1>5, <1>6
<1> QED BY <1>4, <1>7

\* The counters of a session and its profit.
StatsType ==
    [total_signals : Nat, attempted : Nat, capital_short : Nat, clean_fills : Nat,
     proportional_fills : Nat, total_phantoms : Nat, broken_legs : Nat, realized : Int]

\* Every signal is counted once, and every execution in one class.
Tallied(s) ==
    /\ s \in StatsType
    /\ s.total_signals = s.attempted + s.capital_short
    /\ s.attempted = s.clean_fills + s.proportional_fills + s.total_phantoms

\* What a bankroll has gained is what the statistics report, as long as no leg
\* was left alone.
Agrees(b, s) ==
    s.broken_legs = 0 => Capital(b) = SumFunction(InitialPerVenue) + s.realized

\* Recording an execution keeps the tallies.
LEMMA Recorded ==
    ASSUME NEW s, Tallied(s), NEW x, x.class \in Classes, x.realized \in Int
    PROVE  /\ Tallied(Record(s, x)) /\ Tallied(RecordCapitalShort(s))
           /\ RecordCapitalShort(s).broken_legs = s.broken_legs
           /\ RecordCapitalShort(s).realized = s.realized
           /\ Record(s, x).realized = s.realized + x.realized
           /\ Record(s, x).broken_legs = 0 => s.broken_legs = 0 /\ x.class # "broken_leg"
<1>1. s \in StatsType
  BY DEF Tallied
<1>2. /\ s.total_signals \in Nat /\ s.attempted \in Nat /\ s.capital_short \in Nat /\ s.clean_fills \in Nat
      /\ s.proportional_fills \in Nat /\ s.total_phantoms \in Nat /\ s.broken_legs \in Nat /\ s.realized \in Int
      /\ s = [total_signals |-> s.total_signals, attempted |-> s.attempted,
              capital_short |-> s.capital_short, clean_fills |-> s.clean_fills,
              proportional_fills |-> s.proportional_fills, total_phantoms |-> s.total_phantoms,
              broken_legs |-> s.broken_legs, realized |-> s.realized]
  BY <1>1 DEF StatsType
<1> DEFINE clean == IF x.class = "clean" THEN 1 ELSE 0
           proportional == IF x.class = "proportional" THEN 1 ELSE 0
           phantom == IF x.class \in {"clean", "proportional"} THEN 0 ELSE 1
           broken == IF x.class = "broken_leg" THEN 1 ELSE 0
           more == x.realized
<1>3. Record(s, x) = [total_signals |-> s.total_signals + 1, attempted |-> s.attempted + 1,
                      capital_short |-> s.capital_short, clean_fills |-> s.clean_fills + clean,
                      proportional_fills |-> s.proportional_fills + proportional,
                      total_phantoms |-> s.total_phantoms + phantom,
                      broken_legs |-> s.broken_legs + broken, realized |-> s.realized + more]
  <2>1. Record(s, x) =
          [s EXCEPT !.total_signals = @ + 1, !.attempted = @ + 1, !.clean_fills = @ + clean,
                    !.proportional_fills = @ + proportional, !.total_phantoms = @ + phantom,
                    !.broken_legs = @ + broken, !.realized = @ + more]
    BY DEF Record
  <2> HIDE DEF clean, proportional, phantom, broken, more
  <2> QED BY <1>2, <2>1
<1>4. RecordCapitalShort(s) =
        [total_signals |-> s.total_signals + 1, attempted |-> s.attempted,
         capital_short |-> s.capital_short + 1, clean_fills |-> s.clean_fills,
         proportional_fills |-> s.proportional_fills, total_phantoms |-> s.total_phantoms,
         broken_legs |-> s.broken_legs, realized |-> s.realized]
  <2>1. RecordCapitalShort(s) = [s EXCEPT !.total_signals = @ + 1, !.capital_short = @ + 1]
    BY DEF RecordCapitalShort
  <2> QED BY <1>1, <1>2, <2>1 DEF StatsType
<1>5. /\ clean \in Nat /\ proportional \in Nat /\ phantom \in Nat /\ broken \in Nat /\ more \in Int
      /\ clean + proportional + phantom = 1 /\ (broken = 0 => x.class # "broken_leg")
  OBVIOUS
<1>6. /\ s.total_signals = s.attempted + s.capital_short
      /\ s.attempted = s.clean_fills + s.proportional_fills + s.total_phantoms
  BY DEF Tallied
<1> HIDE DEF clean, proportional, phantom, broken, more
<1>7. Tallied(Record(s, x))
  BY <1>2, <1>3, <1>5, <1>6 DEF Tallied, StatsType
<1>8. Tallied(RecordCapitalShort(s))
  BY <1>2, <1>4, <1>6 DEF Tallied, StatsType
<1>9. /\ RecordCapitalShort(s).broken_legs = s.broken_legs
      /\ RecordCapitalShort(s).realized = s.realized
      /\ Record(s, x).realized = s.realized + more
      /\ Record(s, x).broken_legs = s.broken_legs + broken
  BY <1>3, <1>4
<1>10. Record(s, x).broken_legs = 0 => s.broken_legs = 0 /\ x.class # "broken_leg"
  BY <1>2, <1>5, <1>9
<1> QED BY <1>7, <1>8, <1>9, <1>10 DEF more

\* The session's types, and its money between two signals.
SessionInv ==
    /\ TypeOK
    /\ Balanced(bankroll) /\ Tallied(stats) /\ Agrees(bankroll, stats)

\* A new bankroll has the balances that it is given.
LEMMA OpeningCapital ==
    /\ Balanced(NewBankroll(InitialPerVenue))
    /\ Capital(NewBankroll(InitialPerVenue)) = SumFunction(InitialPerVenue)
    /\ SumFunction(InitialPerVenue) \in Int
<1> DEFINE b == NewBankroll(InitialPerVenue)
           D == DOMAIN InitialPerVenue
<1>1. D = 1 .. Len(InitialPerVenue) /\ Len(InitialPerVenue) \in Nat /\ \A v \in D : InitialPerVenue[v] \in Nat
  BY OpeningBalances, LenProperties
<1>2. D \subseteq InRange
  BY <1>1, OpeningBalances, VenueBound DEF InRange
<1>3. /\ b.available \in [InRange -> Nat] /\ b.locked \in [InRange -> {0}]
      /\ b = [available |-> b.available, locked |-> b.locked]
      /\ \A v \in InRange : b.available[v] = IF v \in D THEN InitialPerVenue[v] ELSE 0
  <2> HIDE DEF D
  <2>1. DOMAIN InitialPerVenue = D
    BY DEF D
  <2> QED BY <1>1, <2>1 DEF NewBankroll
<1> HIDE DEF b, D
<1>4. Balanced(b)
  BY <1>3 DEF Balanced
<1>5. Capital(b) = SumFunction(InitialPerVenue)
  <2>1. IsFiniteSet(InRange)
    <3>1. MAX_BANKROLL_VENUES \in Int /\ 1 \in Int
      BY VenueBound
    <3>2. IsFiniteSet(1 .. MAX_BANKROLL_VENUES)
      BY <3>1, FS_Interval
    <3> QED BY <3>2 DEF InRange
  <2>2. Capital(b) = SumFunctionOnSet(b.available, InRange)
    BY <1>3 DEF Capital, SumFunction
  <2>3. \A v \in InRange : b.available[v] \in Int
    BY <1>3
  <2>4. \A v \in InRange \ D : b.available[v] = 0
    BY <1>3
  <2>5. SumFunctionOnSet(b.available, InRange) = SumFunctionOnSet(b.available, D)
    BY <1>2, <2>1, <2>3, <2>4, SumWithoutZeros
  <2>6. IsFiniteSet(D) /\ \A v \in D : b.available[v] = InitialPerVenue[v]
    BY <1>2, <1>3, <2>1, FS_Subset
  <2>7. SumFunctionOnSet(b.available, D) = SumFunctionOnSet(InitialPerVenue, D)
    BY <2>6, SumOfEqual
  <2>8. SumFunction(InitialPerVenue) = SumFunctionOnSet(InitialPerVenue, D)
    BY DEF SumFunction, D
  <2> QED BY <2>2, <2>5, <2>7, <2>8
<1>6. SumFunction(InitialPerVenue) \in Int
  <2>1. IsFiniteSet(D)
    <3>1. IsFiniteSet(1 .. Len(InitialPerVenue))
      BY <1>1, FS_Interval
    <3> QED BY <1>1, <3>1
  <2>2. \A v \in D : InitialPerVenue[v] \in Int
    BY <1>1
  <2>3. SumFunctionOnSet(InitialPerVenue, D) \in Int
    BY <2>1, <2>2, SumType
  <2> QED BY <2>3 DEF SumFunction, D
<1> QED BY <1>4, <1>5, <1>6 DEF b

\* A session opens with them.
LEMMA SessionInit == Init => SessionInv
<1> SUFFICES ASSUME Init PROVE SessionInv
  OBVIOUS
<1> DEFINE b == NewBankroll(InitialPerVenue)
<1>1. Balanced(b) /\ Capital(b) = SumFunction(InitialPerVenue) /\ SumFunction(InitialPerVenue) \in Int
  BY OpeningCapital
<1>2. bankroll = b
  BY DEF Init
<1> HIDE DEF b
<1>3. Tallied(stats) /\ stats.broken_legs = 0 /\ stats.realized = 0
  BY DEF Init, Tallied, StatsType
<1>4. Agrees(bankroll, stats)
  BY <1>1, <1>2, <1>3 DEF Agrees
<1>5. TypeOK
  <2>1. bankroll \in [available : [InRange -> Nat], locked : [InRange -> Nat]]
    BY <1>1, <1>2 DEF Balanced
  <2>2. collected \in Seq(Emissions) /\ report.class \in Classes
    BY DEF Init, NoReport, Classes
  <2>3. killed \in BOOLEAN /\ ending \in BOOLEAN
    BY DEF Init
  <2>4. emitted \in 0 .. MaxSignals
    BY SessionBound DEF Init
  <2>5. /\ runner \in {"live", "pipeline"} /\ policy \in Policies /\ last \in Emissions \cup {NoPlan}
        /\ phase \in {"between", "window", "settling", "ended"}
    BY DEF Init
  <2> QED BY <1>3, <2>1, <2>2, <2>3, <2>4, <2>5 DEF TypeOK, Tallied
<1> QED BY <1>1, <1>2, <1>3, <1>4, <1>5 DEF SessionInv

\* One signal: an execution that is paid for by what it reports, or an attempt
\* that leaves the bankroll as it was.
LEMMA TradeSettles ==
    ASSUME SessionInv, collected # <<>>, NEW prices \in Arrivals(Head(collected).plan), Trade(prices)
    PROVE  /\ Balanced(bankroll)' /\ Tallied(stats)' /\ Agrees(bankroll, stats)'
           /\ report'.class \in Classes
<1> DEFINE e == Head(collected)
           plan == e.plan
           stakes == StakesOf(e)
           at == [i \in DOMAIN plan |-> plan[i].venue]
           orders == Moves(DOMAIN plan, stakes, at)
           reserved == Reserved(bankroll, orders)
           gate == Reserve(bankroll, reserved)
           x == Simulate(policy, plan, stakes, prices)
           results == x.results
<1>1. Balanced(bankroll) /\ Tallied(stats) /\ Agrees(bankroll, stats)
  BY DEF SessionInv
<1>2. e \in Emissions
  BY HeadTailProperties DEF SessionInv, TypeOK
<1>3. Sound(e) /\ e # NoPlan
  <2> HIDE DEF e
  <2> QED BY <1>2, EmissionsAreSound
<1>4. orders = [i \in DOMAIN e.plan |-> [venue |-> e.plan[i].venue, amount |-> StakesOf(e)[i]]]
  BY DEF Moves
<1>5. IF reserved = orders
      THEN /\ bankroll' = Settle(Reconcile(gate, results), results)
           /\ stats' = Record(stats, x)
           /\ report'.class = x.class
      ELSE /\ bankroll' = CommitFill(gate, reserved)
           /\ stats' = RecordCapitalShort(stats)
           /\ report' = NoReport
  <2> DEFINE asked == [i \in DOMAIN e.plan |-> [venue |-> e.plan[i].venue, amount |-> StakesOf(e)[i]]]
  <2>1. IF Reserved(bankroll, asked) = asked
        THEN /\ bankroll' = Settle(Reconcile(Reserve(bankroll, Reserved(bankroll, asked)), x.results), x.results)
             /\ stats' = Record(stats, x)
             /\ report' = [class |-> x.class, chased |-> x.chased, results |-> x.results,
                           realized |-> x.realized, prices |-> prices, plan |-> e.plan,
                           expected |-> e.signal.worst_case_profit]
        ELSE /\ bankroll' = CommitFill(Reserve(bankroll, Reserved(bankroll, asked)), Reserved(bankroll, asked))
             /\ stats' = RecordCapitalShort(stats)
             /\ report' = NoReport
    BY DEF Trade, StakesOf
  <2>2. orders = asked
    BY <1>4
  <2> HIDE DEF e, orders, asked, x
  <2> QED BY <2>1, <2>2
<1>6. PICK k \in Nat : DOMAIN plan = 1 .. k
  <2> HIDE DEF e
  <2> QED BY <1>3 DEF Sound
<1>7. \A i \in 1 .. k : Executes(plan[i], stakes[i]) /\ stakes[i] \in Nat \ {0} /\ at[i] = plan[i].venue
  <2> HIDE DEF e
  <2> QED BY <1>3, <1>6 DEF Sound, StakesOf, Executes
<1>8. k \in Nat \ {0}
  <2> HIDE DEF e
  <2>1. 1 \in 1 .. OutcomeCount
    BY MarketIsRegistered
  <2>2. \E a \in DOMAIN plan : plan[a].outcome = 1
    BY <1>3, <2>1, EveryOutcomeHasALeg
  <2> HIDE DEF plan
  <2> QED BY <1>6, <2>2
<1>9. prices \in [DOMAIN plan -> Probs]
  <2>1. \A a \in DOMAIN plan : plan[a].quoted \in Probs
    <3> HIDE DEF plan
    <3> QED BY <1>6, <1>7 DEF Executes
  <2> QED BY <2>1, ArrivalPrices
<1> HIDE DEF e, stakes, at, plan, orders
<1>10. /\ Executed(plan, stakes, results) /\ x.class = Classify(results)
       /\ x.realized = RealizedProfit(results)
  BY <1>6, <1>7, <1>9, SimulatedLegs
<1> HIDE DEF x
<1>11. x.class \in Classes \ {"none"} /\ x.realized \in Int
  <2> HIDE DEF results
  <2> QED BY <1>6, <1>8, <1>10, ClassOfResults
<1>12. orders = Moves(1 .. k, stakes, at)
  BY <1>6 DEF orders
<1>13. CASE reserved = orders
  <2>1. /\ \A i \in 1 .. k : at[i] \in InRange
        /\ \A v \in InRange : MovedAt(orders, v) <= bankroll.available[v]
    <3> DEFINE b == bankroll
    <3>1. Balanced(b) /\ Reserved(b, Moves(1 .. k, stakes, at)) = Moves(1 .. k, stakes, at)
      BY <1>1, <1>12, <1>13
    <3>2. \A i \in 1 .. k : stakes[i] \in Nat \ {0}
      BY <1>7
    <3> HIDE DEF b
    <3>3. /\ \A i \in 1 .. k : at[i] \in InRange
          /\ \A v \in InRange : MovedAt(Moves(1 .. k, stakes, at), v) <= b.available[v]
      BY <3>1, <3>2, ReservedWithin
    <3> QED BY <1>12, <3>3 DEF b
  <2>2. \A i \in 1 .. k : Executes(plan[i], stakes[i]) /\ plan[i].venue \in InRange
    BY <1>7, <2>1
  <2>3. at = [i \in 1 .. k |-> plan[i].venue]
    BY <1>6 DEF at
  <2> HIDE DEF results, reserved
  <2>4. Funded(results, k) /\ OrdersOf(results) = orders
    <3>1. /\ Funded(results, k)
          /\ OrdersOf(results) = Moves(1 .. k, stakes, [i \in 1 .. k |-> plan[i].venue])
      BY <1>6, <1>10, <2>2, FundedResults
    <3> QED BY <1>12, <2>3, <3>1
  <2>5. bankroll' = Settled(bankroll, results) /\ stats' = Record(stats, x) /\ report'.class = x.class
    BY <1>5, <1>13, <2>4 DEF Settled
  <2>6. \A v \in InRange : MovedAt(OrdersOf(results), v) <= bankroll.available[v]
    BY <2>1, <2>4
  <2>7. /\ Balanced(Settled(bankroll, results))
        /\ Capital(Settled(bankroll, results)) = Capital(bankroll) + Won(results) - FilledStake(results)
    BY <1>1, <2>4, <2>6, SettledAt, SettledCapital
  <2>8. Tallied(Record(stats, x)) /\ Record(stats, x).realized = stats.realized + x.realized
        /\ (Record(stats, x).broken_legs = 0 => stats.broken_legs = 0 /\ x.class # "broken_leg")
    BY <1>1, <1>11, Recorded
  <2>9. Agrees(Settled(bankroll, results), Record(stats, x))
    <3> SUFFICES ASSUME Record(stats, x).broken_legs = 0
                 PROVE  Capital(Settled(bankroll, results)) =
                           SumFunction(InitialPerVenue) + Record(stats, x).realized
      BY DEF Agrees
    <3>1. Won(results) - FilledStake(results) = x.realized
      BY <1>10, <2>4, <2>8, WonIsRealized
    <3>2. Capital(bankroll) = SumFunction(InitialPerVenue) + stats.realized
      BY <1>1, <2>8 DEF Agrees
    <3>3. Capital(bankroll) \in Int /\ Won(results) \in Int /\ FilledStake(results) \in Int
          /\ SumFunction(InitialPerVenue) \in Int /\ stats.realized \in Int
      BY <1>1, <2>4, <2>6, SettledCapital, OpeningCapital DEF Tallied, StatsType
    <3> DEFINE c == Capital(Settled(bankroll, results))
               won == Won(results)
               spent == FilledStake(results)
               before == SumFunction(InitialPerVenue)
               made == stats.realized
               more == x.realized
    <3>4. c = (before + made) + won - spent /\ won - spent = more
          /\ won \in Int /\ spent \in Int /\ before \in Int /\ made \in Int
      BY <2>7, <3>1, <3>2, <3>3
    <3>5. Record(stats, x).realized = made + more
      BY <2>8
    <3> HIDE DEF c, won, spent, before, made, more
    <3>6. c = before + (made + more)
      BY <3>4
    <3> QED BY <3>5, <3>6 DEF c, before
  <2>10. Balanced(bankroll') /\ Tallied(stats') /\ Agrees(bankroll', stats') /\ report'.class \in Classes
    BY <1>11, <2>5, <2>7, <2>8, <2>9
  <2> QED BY <2>10 DEF Balanced, Tallied, Agrees, Capital
<1>14. CASE reserved # orders
  <2> DEFINE D == {n \in DOMAIN orders : \A j \in 1 .. n : CanReserve(bankroll, orders, j)}
  <2>1. reserved = Moves(D, stakes, at)
    <3>1. D \subseteq 1 .. k /\ reserved = [i \in D |-> orders[i]]
      BY <1>12 DEF Reserved, Moves
    <3>2. \A i \in D : orders[i] = [venue |-> at[i], amount |-> stakes[i]]
      BY <1>12, <3>1 DEF Moves
    <3> HIDE DEF D, reserved
    <3> QED BY <3>1, <3>2 DEF Moves
  <2>2. IsFiniteSet(D) /\ \A i \in D : stakes[i] \in Nat
    <3>1. IsFiniteSet(1 .. k) /\ D \subseteq 1 .. k
      BY <1>12, FS_Interval DEF Moves
    <3> HIDE DEF D
    <3> QED BY <1>7, <3>1, FS_Subset
  <2> HIDE DEF D
  <2>3. \A v \in InRange : MovedAt(Moves(D, stakes, at), v) \in Nat
    BY <2>2, MovedIs
  <2>4. CommitFill(gate, reserved) = bankroll
    <3>1. \A v \in InRange : MovedAt(reserved, v) \in Nat
      BY <2>1, <2>3
    <3> DEFINE b == bankroll
    <3> HIDE DEF reserved, b
    <3>2. Balanced(b)
      BY <1>1 DEF b
    <3>3. CommitFill(Reserve(b, reserved), reserved) = b
      BY <3>1, <3>2, GivenBack
    <3> QED BY <3>3 DEF b
  <2>5. bankroll' = bankroll /\ stats' = RecordCapitalShort(stats) /\ report' = NoReport
    BY <1>5, <1>14, <2>4
  <2>6. /\ Tallied(RecordCapitalShort(stats))
        /\ RecordCapitalShort(stats).broken_legs = stats.broken_legs
        /\ RecordCapitalShort(stats).realized = stats.realized
    BY <1>1, <1>11, Recorded
  <2>7. Agrees(bankroll, RecordCapitalShort(stats))
    BY <1>1, <2>6 DEF Agrees
  <2>8. Balanced(bankroll') /\ Tallied(stats') /\ Agrees(bankroll', stats') /\ report'.class \in Classes
    BY <1>1, <2>5, <2>6, <2>7 DEF NoReport, Classes
  <2> QED BY <2>8 DEF Balanced, Tallied, Agrees, Capital
<1> QED BY <1>13, <1>14

\* A step that leaves the money and the report alone keeps what is said of them.
LEMMA MoneyKept ==
    ASSUME SessionInv, UNCHANGED <<runner, policy, bankroll, stats, report>>,
           phase' \in {"between", "window", "settling", "ended"},
           killed' \in BOOLEAN, ending' \in BOOLEAN, emitted' \in 0 .. MaxSignals,
           collected' \in Seq(Emissions), last' \in Emissions \cup {NoPlan}
    PROVE  SessionInv'
<1>1. TypeOK'
  BY DEF SessionInv, TypeOK
<1>2. Balanced(bankroll') /\ Tallied(stats') /\ Agrees(bankroll', stats')
  BY DEF SessionInv
<1>3. Balanced(bankroll)' /\ Tallied(stats)' /\ Agrees(bankroll, stats)'
  BY <1>2 DEF Balanced, Tallied, Agrees, Capital
<1> QED BY <1>1, <1>3 DEF SessionInv

\* Every step of the loop keeps the session's types and its money.
LEMMA SessionStep == SessionInv /\ [Next]_vars => SessionInv'
<1> SUFFICES ASSUME SessionInv, [Next]_vars PROVE SessionInv'
  OBVIOUS
<1>1. /\ runner \in {"live", "pipeline"} /\ policy \in Policies
      /\ phase \in {"between", "window", "settling", "ended"}
      /\ killed \in BOOLEAN /\ ending \in BOOLEAN
      /\ emitted \in 0 .. MaxSignals /\ collected \in Seq(Emissions)
      /\ last \in Emissions \cup {NoPlan}
  BY DEF SessionInv, TypeOK
<1>2. ASSUME NEW engage \in BOOLEAN, NEW confirm \in BOOLEAN, KillSwitch(engage, confirm)
      PROVE  SessionInv'
  BY <1>1, <1>2, MoneyKept DEF KillSwitch
<1>3. CASE SessionEnd
  BY <1>1, <1>3, MoneyKept DEF SessionEnd
<1>4. CASE OpenWindow
  BY <1>1, <1>4, MoneyKept DEF OpenWindow
<1>5. CASE EndWindow
  <2>1. phase' \in {"between", "ended"}
    BY <1>5 DEF EndWindow
  <2> QED BY <1>1, <1>5, <2>1, MoneyKept DEF EndWindow
<1>6. ASSUME NEW e \in Emissions, Collect(e) PROVE SessionInv'
  <2>1. Append(collected, e) \in Seq(Emissions)
    BY <1>1, AppendProperties
  <2>2. emitted + 1 \in 0 .. MaxSignals
    BY <1>1, <1>6, SessionBound DEF Collect
  <2> QED BY <1>1, <1>6, <2>1, <2>2, MoneyKept DEF Collect
<1>7. CASE CloseWindow
  <2>1. collected' \in Seq(Emissions) /\ phase' = "settling"
    BY <1>1, <1>7 DEF CloseWindow
  <2> QED BY <1>1, <1>7, <2>1, MoneyKept DEF CloseWindow
<1>8. CASE SkipRepeated
  <2>1. Tail(collected) \in Seq(Emissions)
    BY <1>1, <1>8, HeadTailProperties DEF SkipRepeated
  <2> QED BY <1>1, <1>8, <2>1, MoneyKept DEF SkipRepeated
<1>9. CASE TradeNext
  <2>1. collected # <<>> /\ \E prices \in Arrivals(Head(collected).plan) : Trade(prices)
    BY <1>9 DEF TradeNext
  <2>2. PICK prices \in Arrivals(Head(collected).plan) : Trade(prices)
    BY <2>1
  <2>3. /\ Balanced(bankroll)' /\ Tallied(stats)' /\ Agrees(bankroll, stats)'
        /\ report'.class \in Classes
    BY <2>1, <2>2, TradeSettles
  <2>4. /\ collected' = Tail(collected) /\ last' = Head(collected)
        /\ UNCHANGED <<runner, policy, phase, killed, ending, emitted>>
    BY <2>2 DEF Trade
  <2>5. collected' \in Seq(Emissions) /\ last' \in Emissions
    BY <1>1, <2>1, <2>4, HeadTailProperties
  <2>6. bankroll' \in [available : [InRange -> Nat], locked : [InRange -> Nat]]
    BY <2>3 DEF Balanced
  <2>7. /\ stats'.total_signals = stats'.attempted + stats'.capital_short
        /\ stats'.attempted = stats'.clean_fills + stats'.proportional_fills + stats'.total_phantoms
    BY <2>3 DEF Tallied
  <2>8. TypeOK'
    BY <1>1, <2>3, <2>4, <2>5, <2>6, <2>7 DEF TypeOK
  <2> QED BY <2>3, <2>8 DEF SessionInv
<1>10. CASE UNCHANGED vars
  BY <1>1, <1>10, MoneyKept DEF vars
<1> QED BY <1>2, <1>3, <1>4, <1>5, <1>6, <1>7, <1>8, <1>9, <1>10 DEF Next

\* The session's state is what it should be: no balance is ever below zero, so
\* no order is funded with what is not there (bankroll.rs reserve), and every
\* signal is counted once (SimulationStats).
THEOREM Balances == Spec => []TypeOK
<1>1. SessionInv => TypeOK
  BY DEF SessionInv
<1> QED BY <1>1, SessionInit, SessionStep, PTL DEF Spec

\* Between two signals nothing is reserved, and while no leg was left alone the
\* bankroll has gained exactly the profit that the statistics report (main.rs:
\* reserve, commit_fill, settle_win and settle_loss against ExecutionPnl).
THEOREM Money == Spec => []BankrollFollowsReports
<1>1. SessionInv => BankrollFollowsReports
  BY DEF SessionInv, Balanced, Agrees, Capital, BankrollFollowsReports
<1> QED BY <1>1, SessionInit, SessionStep, PTL DEF Spec

(***************************************************************************)
(* Where signals can be: none is held between windows, where the switch    *)
(* changes, and none survives the end of a window under an engaged switch. *)
(***************************************************************************)
GateInv ==
    /\ phase \in {"between", "window", "settling", "ended"}
    /\ phase \in {"between", "ended"} => collected = <<>>
    /\ killed /\ phase = "settling" => collected = <<>>

\* No signal is held before the first window.
LEMMA GateInit == Init => GateInv
BY DEF Init, GateInv

\* Every step of the loop keeps signals where the gate wants them.
LEMMA GateStep == GateInv /\ [Next]_vars => GateInv'
<1> SUFFICES ASSUME GateInv, [Next]_vars PROVE GateInv'
  OBVIOUS
<1>1. ASSUME NEW engage \in BOOLEAN, NEW confirm \in BOOLEAN,
             KillSwitch(engage, confirm)
      PROVE  GateInv'
  BY <1>1 DEF KillSwitch, GateInv
<1>2. CASE SessionEnd
  BY <1>2 DEF SessionEnd, GateInv
<1>3. CASE OpenWindow
  BY <1>3 DEF OpenWindow, GateInv
<1>4. ASSUME NEW e \in Emissions, Collect(e) PROVE GateInv'
  BY <1>4 DEF Collect, GateInv
<1>5. CASE CloseWindow
  BY <1>5 DEF CloseWindow, GateInv
<1>6. CASE SkipRepeated
  BY <1>6 DEF SkipRepeated, GateInv
<1>7. CASE TradeNext
  <2>1. phase = "settling" /\ collected # <<>> /\ ~killed
    BY <1>7 DEF TradeNext, GateInv
  <2>2. phase' = phase /\ killed' = killed
    BY <1>7 DEF TradeNext, Trade
  <2> QED
    BY <2>1, <2>2 DEF GateInv
<1>8. CASE EndWindow
  BY <1>8 DEF EndWindow, GateInv
<1>9. CASE UNCHANGED vars
  BY <1>9 DEF vars, GateInv
<1> QED
  BY <1>1, <1>2, <1>3, <1>4, <1>5, <1>6, <1>7, <1>8, <1>9 DEF Next

\* Under the gate's invariant no step touches money while the switch is
\* engaged, and disarming it never releases a signal.
LEMMA GateHolds ==
    GateInv /\ [Next]_vars =>
        [/\ killed => UNCHANGED <<bankroll, stats, report>>
         /\ killed /\ ~killed' => collected' = <<>>]_vars
<1> SUFFICES ASSUME GateInv, Next
             PROVE  /\ killed => UNCHANGED <<bankroll, stats, report>>
                    /\ killed /\ ~killed' => collected' = <<>>
  OBVIOUS
<1>1. ASSUME NEW engage \in BOOLEAN, NEW confirm \in BOOLEAN,
             KillSwitch(engage, confirm)
      PROVE  /\ UNCHANGED <<bankroll, stats, report>>
             /\ collected' = <<>>
  BY <1>1 DEF KillSwitch, GateInv
<1>2. CASE SessionEnd \/ OpenWindow \/ CloseWindow \/ SkipRepeated \/ EndWindow
  BY <1>2 DEF SessionEnd, OpenWindow, CloseWindow, SkipRepeated, EndWindow
<1>3. ASSUME NEW e \in Emissions, Collect(e)
      PROVE  UNCHANGED <<bankroll, stats, report>> /\ killed' = killed
  BY <1>3 DEF Collect
<1>4. CASE TradeNext
  BY <1>4 DEF TradeNext, GateInv, Trade
<1> QED
  BY <1>1, <1>2, <1>3, <1>4 DEF Next

\* An engaged kill switch stops sizing, reserving and settling, and nothing
\* that was collected meanwhile is traded later (live_runner main.rs: "no
\* signal is sized, reserved, or settled").
THEOREM StandDown == Spec => StandsDown
BY GateInit, GateStep, GateHolds, PTL DEF Spec, StandsDown
=============================================================================
