------------------------------ MODULE Alignment ------------------------------
(***************************************************************************)
(* The kinds of market, the sides of an outcome and what validates a pair  *)
(* of opposite outcomes (arbkit-match alignment.rs).  A line is in         *)
(* hundredths of a point.                                                  *)
(***************************************************************************)
EXTENDS Integers

Moneyline == [type |-> "moneyline", line |-> 0]
Spread(line) == [type |-> "spread", line |-> line]
Total(line) == [type |-> "total", line |-> line]

Kinds == [type : {"moneyline", "spread", "total"}, line : Int]
Sides == {"home", "away", "draw", "homeCover", "awayCover", "over", "under"}

\* A draw has no opposite.
Opposite(side) ==
    CASE side = "home" -> "away" [] side = "away" -> "home"
      [] side = "homeCover" -> "awayCover" [] side = "awayCover" -> "homeCover"
      [] side = "over" -> "under" [] side = "under" -> "over"
      [] OTHER -> "none"

Mirrored(line) == -line

\* The side a bet on a club takes in the market seen from the home club.
AlignMoneyline(onHome) == IF onHome THEN "home" ELSE "away"

AlignSpread(onHome, line) ==
    IF onHome THEN [kind |-> Spread(line), side |-> "homeCover"]
    ELSE [kind |-> Spread(Mirrored(line)), side |-> "awayCover"]

AlignTotal(line, over) == [kind |-> Total(line), side |-> IF over THEN "over" ELSE "under"]

\* The same kind and line, and opposite sides.
ValidateBinaryPair(kindA, sideA, kindB, sideB) ==
    /\ kindA.type = kindB.type
    /\ kindA.type \in {"spread", "total"} => kindA.line = kindB.line
    /\ sideA # sideB
    /\ Opposite(sideA) = sideB

-----------------------------------------------------------------------------
(* What an outcome means, as the comments of alignment.rs have it.  A      *)
(* result is the points of the home and of the away club, in hundredths;   *)
(* on the line nobody wins.                                                *)

Wins(kind, side, home, away) ==
    CASE side = "home" -> home > away
      [] side = "away" -> away > home
      [] side = "draw" -> home = away
      [] side = "homeCover" -> home + kind.line > away
      [] side = "awayCover" -> home + kind.line < away
      [] side = "over" -> home + away > kind.line
      [] side = "under" -> home + away < kind.line

\* The sides a market of a kind has.
SidesOf(type) ==
    CASE type = "moneyline" -> {"home", "away"}
      [] type = "spread" -> {"homeCover", "awayCover"}
      [] type = "total" -> {"over", "under"}

Pushes(kind, home, away) ==
    \/ kind.type = "moneyline" /\ home = away
    \/ kind.type = "spread" /\ home + kind.line = away
    \/ kind.type = "total" /\ home + away = kind.line
=============================================================================
