----------------------------- MODULE VenueOrders -----------------------------
(***************************************************************************)
(* From an order leg to the reconciliation ledger: the requests the two    *)
(* venue adapters make of a leg (arbkit-exec kalshi.rs, polymarket.rs),    *)
(* what they read from the answers, the frames of a private fill stream,   *)
(* the status polls (prod_trader.rs PollingSource), and the ledger and     *)
(* in-flight set they are folded into (state.rs, reconcile.rs).            *)
(*                                                                         *)
(* The venues are external: a fill-or-kill order is filled or refused as a *)
(* whole, and later statements about it restate everything known so far.   *)
(* The stream is delivered in order, at least once: a frame comes after    *)
(* the ones before it, and any frame may come again.                       *)
(***************************************************************************)
EXTENDS Integers, Sequences, FiniteSets, Functions

CONSTANTS
    Orders,     \* client order ids
    LegChoices, \* legs that may be ordered: [venue, instrument, stake, ppm]
    Fees,       \* fees a venue may charge
    Profits,    \* profits a settlement may state
    MaxFrames,  \* bound: frames of an order
    MaxFaults   \* bound: lost answers, failed polls and restarts

Venues == {"kalshi", "polymarket"}

ASSUME OrdersAssumption ==
    /\ IsFiniteSet(Orders)
    /\ LegChoices \subseteq [venue : Venues, instrument : Venues, stake : Nat, ppm : Nat]
    /\ Fees \subseteq Nat /\ Profits \subseteq Int
    /\ MaxFrames \in Nat /\ MaxFaults \in Nat

VARIABLES
    leg,        \* each order's leg, or Unplanned
    reply,      \* what the runner was told of its submission
    venue,      \* each order at its venue
    stream,     \* the private fill frames of each order
    delivered,  \* how far each order's frames have come
    ledger,     \* ReconciliationLedger
    inflight,   \* Reconciler.in_flight: orders still awaiting a terminal status
    acked,      \* orders whose venue id the in-flight set and the durable state hold
    closed,     \* how often each order was returned as settled
    faults

vars == <<leg, reply, venue, stream, delivered, ledger, inflight, acked, closed, faults>>

Unplanned == [venue |-> "none"]
Absent == [state |-> "absent", spent |-> 0, filled |-> 0, fee |-> 0, profit |-> << >>]
EmptyLedger == [orders |-> << >>, profit |-> 0, fees |-> 0, applied |-> {}]

\* Mutant: a canceled order counts as live.
TerminalSettled == {"settled", "unwound"}

Terminal == {"settled", "unwound", "canceled"}  \* is_terminal_status

VenueDone == {"settled", "canceled"}            \* how an order ends at its venue

Planned == {o \in Orders : leg[o] # Unplanned}
FaultsLeft == faults < MaxFaults

-----------------------------------------------------------------------------
(* The adapters *)

\* A wrong instrument is refused before any request.
Routable(l) == l.instrument = l.venue

\* The stake is sent as a count of contracts, at a price in whole cents.
KalshiRequest(l) == [count |-> l.stake, price |-> l.ppm \div 10000]

PolymarketRequest(l) == [size |-> l.stake, price |-> l.ppm]

\* What a whole fill costs at the venue, and the fill it reports.
SpentOn(l) ==
    IF l.venue = "kalshi" THEN KalshiRequest(l).count * KalshiRequest(l).price
    ELSE PolymarketRequest(l).size

FilledOf(l) == IF l.venue = "kalshi" THEN KalshiRequest(l).count ELSE PolymarketRequest(l).size

\* An answer that does not state the fill counts as no fill.
ReadFill(o, stated) == IF stated THEN venue[o].filled ELSE 0

-----------------------------------------------------------------------------
(* The ledger *)

Entry(o) == [filled |-> 0, status |-> "open"]

\* Every order is registered in the ledger and as in flight before submission.
Registered(led, o) ==
    [led EXCEPT !.orders = [x \in DOMAIN @ \cup {o} |-> IF x = o THEN Entry(o) ELSE @[x]]]

\* What the frames of these orders make of the ledger.
Booked(led, orders, frames, prints) ==
    LET profit(f) == IF f.profit = << >> THEN 0 ELSE f.profit[1]
    IN  [led EXCEPT !.applied = @ \cup prints,
                    !.orders = [o \in DOMAIN @ |->
                        IF o \in orders THEN [filled |-> frames[o].filled, status |-> frames[o].status]
                        ELSE @[o]],
                    !.fees = @ + SumFunctionOnSet([o \in orders |-> frames[o].fee], orders),
                    !.profit = @ + SumFunctionOnSet([o \in orders |-> profit(frames[o])], orders)]

\* Mutant: every frame is folded, seen before or not.
FoldAgain(led, frames) == Booked(led, DOMAIN frames \cap DOMAIN led.orders, frames, {})

\* Folds a frame of each of some orders.  The fingerprint leaves out the status;
\* an order the ledger does not know is an error.  A fill replaces what was known,
\* fees and profit are added.
Fold(led, frames) ==
    LET print(o) == <<o, frames[o].filled, frames[o].fee, frames[o].profit>>
        new == {o \in DOMAIN frames \cap DOMAIN led.orders : print(o) \notin led.applied}
    IN  Booked(led, new, frames, {print(o) : o \in new})

-----------------------------------------------------------------------------
(* The runner and the venues *)

Init ==
    /\ leg = [o \in Orders |-> Unplanned]
    /\ reply = [o \in Orders |-> "none"]
    /\ venue = [o \in Orders |-> Absent]
    /\ stream = [o \in Orders |-> << >>]
    /\ delivered = [o \in Orders |-> 0]
    /\ ledger = EmptyLedger
    /\ inflight = {} /\ acked = {}
    /\ closed = [o \in Orders |-> 0]
    /\ faults = 0

Register(o, l) ==
    /\ o \notin Planned
    /\ leg' = [leg EXCEPT ![o] = l]
    /\ ledger' = Registered(ledger, o)
    /\ inflight' = inflight \cup {o}
    /\ UNCHANGED <<reply, venue, stream, delivered, acked, closed, faults>>

\* The request reaches the venue, which fills it whole or refuses it.
Submit(o, accepted) ==
    /\ o \in Planned /\ reply[o] = "none"
    /\ IF Routable(leg[o])
       THEN /\ reply' = [reply EXCEPT ![o] = "awaited"]
            /\ venue' = IF accepted
                        THEN [venue EXCEPT ![o] = [@ EXCEPT !.state = "open", !.spent = SpentOn(leg[o]),
                                                            !.filled = FilledOf(leg[o])]]
                        ELSE [venue EXCEPT ![o].state = "canceled"]
       ELSE reply' = [reply EXCEPT ![o] = "failed"] /\ UNCHANGED venue
    /\ UNCHANGED <<leg, stream, delivered, ledger, inflight, acked, closed, faults>>

\* The answer names the order and may state its fill.  An acknowledged order
\* can be polled.
Answer(o, stated) ==
    /\ reply[o] = "awaited"
    /\ reply' = [reply EXCEPT ![o] = IF ReadFill(o, stated) > 0 THEN "filled" ELSE "unfilled"]
    /\ acked' = acked \cup {o}
    /\ UNCHANGED <<leg, venue, stream, delivered, ledger, inflight, closed, faults>>

\* No answer within the request's deadline is a failed leg.
TimesOut(o) ==
    /\ reply[o] = "awaited" /\ FaultsLeft
    /\ reply' = [reply EXCEPT ![o] = "failed"]
    /\ faults' = faults + 1
    /\ UNCHANGED <<leg, venue, stream, delivered, ledger, inflight, acked, closed>>

\* The venue settles a filled order, which is final, and may charge it before.
VenueSettles(o, profit) ==
    /\ venue[o].state = "open"
    /\ venue' = [venue EXCEPT ![o].state = "settled", ![o].profit = <<profit>>]
    /\ UNCHANGED <<leg, reply, stream, delivered, ledger, inflight, acked, closed, faults>>

Charge(o, fee) ==
    /\ venue[o].state = "open" /\ venue[o].fee = 0
    /\ venue' = [venue EXCEPT ![o].fee = fee]
    /\ UNCHANGED <<leg, reply, stream, delivered, ledger, inflight, acked, closed, faults>>

\* The venue states all it knows of an order, if that is new.
Frame(o) == [filled |-> venue[o].filled, fee |-> venue[o].fee, profit |-> venue[o].profit,
             status |-> venue[o].state]

VenueStates(o) ==
    /\ venue[o].state \notin {"absent"} /\ Len(stream[o]) < MaxFrames
    /\ Frame(o) \notin Range(stream[o])
    /\ stream' = [stream EXCEPT ![o] = Append(@, Frame(o))]
    /\ UNCHANGED <<leg, reply, venue, delivered, ledger, inflight, acked, closed, faults>>

\* The next frame of an order, or one that came before.
Deliver(o, i) ==
    /\ i <= delivered[o] + 1
    /\ ledger' = Fold(ledger, [x \in {o} |-> stream[o][i]])
    /\ delivered' = [delivered EXCEPT ![o] = IF i > @ THEN i ELSE @]
    /\ UNCHANGED <<leg, reply, venue, stream, inflight, acked, closed, faults>>

\* What a poll makes of an order: its status and fill, without fee or profit.
Polled(o) == [filled |-> venue[o].filled, fee |-> 0, profit |-> << >>, status |-> venue[o].state]

Pollable == inflight \cap acked

\* Mutant: every order a poll told something about leaves.
ClosingAll(polled) == polled

\* Orders with a terminal status leave the in-flight set; all others stay.
Closing(polled) == {o \in polled : venue[o].state \in Terminal}

\* One pass over the acknowledged orders; the source answers for those in
\* polled and fails for the rest.
Reconcile(polled) ==
    /\ polled # {} /\ polled \subseteq Pollable
    /\ polled # Pollable => FaultsLeft
    /\ ledger' = Fold(ledger, [o \in polled |-> Polled(o)])
    /\ inflight' = inflight \ Closing(polled)
    /\ closed' = [o \in Orders |-> closed[o] + (IF o \in Closing(polled) THEN 1 ELSE 0)]
    /\ faults' = faults + (IF polled = Pollable THEN 0 ELSE 1)
    /\ UNCHANGED <<leg, reply, venue, stream, delivered, acked>>

\* A restart seeds the in-flight set from the durable state, and the ledger with it.
Seeded(orders) == [EmptyLedger EXCEPT !.orders = [o \in orders |-> Entry(o)]]

Restart ==
    /\ FaultsLeft /\ ledger # EmptyLedger
    /\ faults' = faults + 1
    /\ ledger' = Seeded(inflight)
    /\ reply' = [o \in Orders |-> IF reply[o] = "awaited" THEN "failed" ELSE reply[o]]
    /\ delivered' = [o \in Orders |-> 0]
    /\ UNCHANGED <<leg, venue, stream, inflight, acked, closed>>

Runner ==
    \/ \E o \in Orders : (\E l \in LegChoices : Register(o, l)) \/ TimesOut(o)
    \/ \E o \in Orders, b \in BOOLEAN : Submit(o, b) \/ Answer(o, b)
    \/ Restart

World ==
    \/ \E o \in Orders, fee \in Fees : Charge(o, fee)
    \/ \E o \in Orders, profit \in Profits : VenueSettles(o, profit)
    \/ \E o \in Orders : VenueStates(o) \/ (\E i \in 1..Len(stream[o]) : Deliver(o, i))

Reconciles == \E polled \in SUBSET Orders : Reconcile(polled)

Next == Runner \/ World \/ Reconciles

Spec == Init /\ [][Next]_vars

\* The window loop reconciles every time round.
FairSpec == Spec /\ WF_vars(Reconciles)

-----------------------------------------------------------------------------
(* Properties *)

\* The components keep to their values and limits.
TypeOK ==
    /\ reply \in [Orders -> {"none", "awaited", "filled", "unfilled", "failed"}]
    /\ \A o \in Orders : venue[o].state \in {"absent", "open"} \cup VenueDone
    /\ \A o \in Planned : venue[o].spent <= 100 * leg[o].stake \* a contract costs at most a dollar
    /\ inflight \subseteq Planned /\ faults \in 0..MaxFaults

\* What an order earned, as far as this process has been told.
Earned(o) ==
    IF /\ o \in DOMAIN ledger.orders
       /\ \E i \in 1..delivered[o] : stream[o][i].profit # << >>
    THEN venue[o].profit[1] ELSE 0

\* Replayed frames, polls and restarts book an order's profit once
\* (ReconciliationLedger.apply_fill).
ProfitBookedOnce ==
    ledger.profit = SumFunctionOnSet([o \in Orders |-> Earned(o)], Orders)

\* An order is in flight, and known to the ledger so that no pass can fail half-way
\* on it, until it is closed; it is closed once, after its venue is done with it,
\* whatever polls fail (Reconciler.reconcile).
ClosedOnceAtTheEnd ==
    \A o \in Planned :
        /\ o \in inflight <=> closed[o] = 0
        /\ closed[o] <= 1
        /\ o \in inflight => o \in DOMAIN ledger.orders
        /\ closed[o] = 1 => venue[o].state \in VenueDone

\* An acknowledged order its venue is done with is closed in the end
\* (the window loop).
DoneOrdersClose ==
    \A o \in Orders :
        o \in Pollable /\ venue[o].state \in VenueDone ~> o \notin inflight

\* "A replayed event is the venue restating what we already recorded; folding it
\* in again would fabricate fees or profit." (state.rs:322)
FeesBookedOnce ==
    ledger.fees <= SumFunctionOnSet([o \in Orders |-> venue[o].fee], Orders)

\* "Stake requested in cents" (lib.rs:192): a whole fill costs no more than it.
SpendsItsStake == \A o \in Planned : venue[o].spent <= leg[o].stake
=============================================================================
