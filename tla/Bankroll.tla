------------------------------ MODULE Bankroll ------------------------------
(***************************************************************************)
(* The per-venue capital ledger of the paper runners (arbkit-sim           *)
(* bankroll.rs) and what their loops do with it.  A bankroll is            *)
(* [available, locked], each a balance per venue; a venue out of range has *)
(* no capital and moves none.  The transfer friction of the code is the    *)
(* constant 0 and left out.                                                *)
(*                                                                         *)
(* The runners call each operation for one leg after the other.  moves is  *)
(* a function from legs to [venue, amount], and an operator here is that   *)
(* loop: amounts at a venue add up, and a limit that each call applies to  *)
(* what the calls before it left is a limit on their sum.                  *)
(***************************************************************************)
EXTENDS Fees, Functions

CONSTANT MAX_BANKROLL_VENUES

ASSUME VenueBound == MAX_BANKROLL_VENUES \in Nat

InRange == 1 .. MAX_BANKROLL_VENUES

NewBankroll(initial) ==
    [available |-> [v \in InRange |-> IF v \in DOMAIN initial THEN initial[v] ELSE 0],
     locked    |-> [v \in InRange |-> 0]]

\* What moves amount to at a venue; a negative amount moves nothing.
MovedAt(moves, v) ==
    SumFunction([i \in {i \in DOMAIN moves : moves[i].venue = v} |->
                    Greater(moves[i].amount, 0)])

\* reserve of the n-th order, those before it being reserved.
CanReserve(b, orders, n) ==
    LET v == orders[n].venue
    IN  /\ v \in InRange
        /\ \/ orders[n].amount <= 0
           \/ MovedAt([i \in 1 .. n |-> orders[i]], v) <= b.available[v]

\* The capital gate: the first order that cannot be reserved ends the attempt.
Reserved(b, orders) ==
    [i \in {n \in DOMAIN orders : \A k \in 1 .. n : CanReserve(b, orders, k)} |-> orders[i]]

Reserve(b, orders) ==
    [available |-> [v \in InRange |-> b.available[v] - MovedAt(orders, v)],
     locked    |-> [v \in InRange |-> b.locked[v] + MovedAt(orders, v)]]

\* No more is taken from what is locked than is there.
FromLocked(b, moves, v) == Lesser(MovedAt(moves, v), b.locked[v])

\* commit_fill: what was not filled becomes available again.
CommitFill(b, unfilled) ==
    [available |-> [v \in InRange |-> b.available[v] + FromLocked(b, unfilled, v)],
     locked    |-> [v \in InRange |-> b.locked[v] - FromLocked(b, unfilled, v)]]

\* settle_win for the leg w and settle_loss for the others.
SettleLegs(b, filled, w, payout) ==
    [available |-> [v \in InRange |-> b.available[v] + (IF v = filled[w].venue
                                                        THEN Greater(payout, 0) ELSE 0)],
     locked    |-> [v \in InRange |-> b.locked[v] - FromLocked(b, filled, v)]]
=============================================================================
