-------------------------------- MODULE Fees --------------------------------
(***************************************************************************)
(* Prices, venue fees and the depth discount (arbkit-core price.rs, fee.rs *)
(* and fill.rs) in integer arithmetic.  The program works with             *)
(* PPM = ODDS_ONE = 1000000 and BPS = 10000; the units are parameters, so  *)
(* that a coarse grid shows what rounding can do.                          *)
(***************************************************************************)
EXTENDS Integers

CONSTANTS PPM,       \* one whole unit of probability
          ODDS_ONE,  \* one whole unit of decimal odds
          BPS        \* one whole in basis points

ASSUME UnitsArePositive == {PPM, ODDS_ONE, BPS} \subseteq Nat \ {0}

RECIPROCAL == PPM * ODDS_ONE

Lesser(a, b) == IF a <= b THEN a ELSE b

Greater(a, b) == IF a <= b THEN b ELSE a

DivRound(n, d) == (n + d \div 2) \div d

CeilDiv(n, d) == (n + d - 1) \div d

RoundUpTo(value, step) == CeilDiv(value, step) * step

RoundDownTo(value, step) == (value \div step) * step

Probs == 1 .. PPM

\* One price level of a book.
Quotes == [price : Probs, size : Int]

ToOdds(p) == DivRound(RECIPROCAL, p)

FeeTypes == [kind : {"none", "commission", "stake", "rebate"}, bps : Nat]

CommissionPrice(bps, p) ==
    LET profit == ToOdds(p) - ODDS_ONE
        net    == ODDS_ONE + (profit * (BPS - Lesser(bps, BPS))) \div BPS
    IN  Lesser(CeilDiv(RECIPROCAL, net), PPM)

StakeFeePrice(bps, p) == Lesser((p * (BPS + bps)) \div BPS, PPM)

MakerRebatePrice(bps, p) == Greater((p * (BPS - Lesser(bps, BPS))) \div BPS, 1)

\* Fee::effective: the price with the venue's cut in it.
Effective(fee, p) ==
    IF fee.kind = "none" \/ fee.bps = 0 THEN p
    ELSE CASE fee.kind = "commission" -> CommissionPrice(fee.bps, p)
           [] fee.kind = "stake"      -> StakeFeePrice(fee.bps, p)
           [] fee.kind = "rebate"     -> MakerRebatePrice(fee.bps, p)

\* DepthDiscount::discounted: the part of a level that survives transit.
Discounted(survival, depth) ==
    IF depth <= 0 THEN 0 ELSE (depth * Lesser(survival, BPS)) \div BPS
=============================================================================
