------------------------------ MODULE RiskGate ------------------------------
(***************************************************************************)
(* RiskGate of crates/arbkit-exec/src/lib.rs: the limits and reservations  *)
(* every hedge passes before an order is sent.  The gate is a value        *)
(*   [config, kill, loss, open, cash]                                      *)
(* where config is the policy [stake, loss, open, edge] of RiskConfig,     *)
(* kill its kill_switch (kept apart: it is session posture, never restored *)
(* from disk), and cash the available bankroll of each venue.  A hedge has *)
(* one leg per venue, so a leg's number names its venue too: 1 is Kalshi,  *)
(* 2 Polymarket.                                                           *)
(***************************************************************************)
EXTENDS Integers

Legs == {1, 2}

\* saturating_sub(1)
SaturatingDec(n) == IF n = 0 THEN 0 ELSE n - 1

\* RiskGate::new and RiskGate::from_durable.
NewGate(config, kill, loss, open, balances) ==
    [config |-> config, kill |-> kill, loss |-> loss, open |-> open,
     cash |-> balances]

\* The checks of preflight that look at no leg.
GateOpen(g, edge) ==
    /\ ~g.kill
    /\ edge >= g.config.edge
    /\ g.loss < g.config.loss
    /\ g.open < g.config.open

LegAdmitted(g, stake, l) ==
    /\ stake[l] > 0
    /\ stake[l] <= g.config.stake
    /\ g.cash[l] >= stake[l]

\* The legs preflight's loop reserves before it meets one it refuses.
Reservable(g, stake) == {l \in Legs : \A m \in Legs : m <= l => LegAdmitted(g, stake, m)}

Reserve(g, stake, ls) ==
    [g EXCEPT !.cash = [l \in Legs |-> IF l \in ls THEN @[l] - stake[l] ELSE @[l]]]

\* Mutant of Release: the refund is forgotten.
ReleaseNothing(g, stake, ls) == g

Release(g, stake, ls) ==
    [g EXCEPT !.cash = [l \in Legs |-> IF l \in ls THEN @[l] + stake[l] ELSE @[l]]]

\* preflight returns Ok.
Admits(g, stake, edge) == GateOpen(g, edge) /\ Reservable(g, stake) = Legs

\* The gate preflight leaves behind: both legs reserved and one more open
\* trade, or every reservation it made given back.
AfterPreflight(g, stake, edge) ==
    LET ls == Reservable(g, stake) IN
    IF ~GateOpen(g, edge) THEN g
    ELSE IF ls = Legs THEN [Reserve(g, stake, Legs) EXCEPT !.open = @ + 1]
    ELSE Release(Reserve(g, stake, ls), stake, ls)

\* release_trade: a hedge that failed and was unwound.
ReleaseTrade(g, stake) == [Release(g, stake, Legs) EXCEPT !.open = SaturatingDec(@)]

\* settle: the capital stays out, only the loss and the count move.
SettleGate(g, profit) ==
    [g EXCEPT !.loss = IF profit < 0 THEN @ - profit ELSE @,
              !.open = SaturatingDec(@)]
=============================================================================
