----------------------------- MODULE EventSlots -----------------------------
(***************************************************************************)
(* The two payload layouts that cross the engine's rings: FeedEventSlot    *)
(* and SignalEventSlot of crates/arbkit-engine/src/event.rs.               *)
(*                                                                         *)
(* A slot is a fixed set of atomic numbers, named here by <<name, index>>  *)
(* (index 0 for a field that is not an array).  Storing an item writes     *)
(* some of them and leaves the others as the item that used the slot       *)
(* before left them; one number serves several purposes (num_levels is a   *)
(* halt's reason code, extra_flags a deletion, a side or the presence of   *)
(* an outcome).  Loading must still return the item that was stored.       *)
(*                                                                         *)
(* A book of n levels is the sequence of its n levels: the unused tail of  *)
(* the code's fixed array is a constant (Prob::CERTAIN, 0) on both sides.  *)
(* Every atomic is as wide as the number it holds, so numbers are          *)
(* unbounded here; the one that narrows (an allocation's leg) is reduced.  *)
(***************************************************************************)
EXTENDS Integers, Sequences

MAX_LEVELS == 8
MAX_CHUNKS == 16
CERTAIN    == 1000000

\* Prob::from_ppm accepts 1..1_000_000; the loads replace anything else.
Probs == 1 .. CERTAIN
ProbOf(ppm) == IF ppm \in Probs THEN ppm ELSE CERTAIN

\* Outcome of a halt of the whole market (None).
NoOutcome == -1

\* One relaxed store of one atomic.
Write(name, i, x) == [field |-> <<name, i>>, content |-> x]

----------------------------------------------------------------------------
\* FeedEvent: everything a feed can put on the ring.
Sides == {"Unknown", "Buy", "Sell"}

SideByte(side) == CASE side = "Unknown" -> 0
                    [] side = "Buy"     -> 1
                    [] side = "Sell"    -> 2

SideOf(byte) == CASE byte = 1 -> "Buy"
                  [] byte = 2 -> "Sell"
                  [] OTHER    -> "Unknown"

Levels == [price : Probs, size : Int]

Books == UNION {[1 .. n -> Levels] : n \in 0 .. MAX_LEVELS}

SnapshotEvents == [kind : {"Snapshot"}, venue_id : Nat, market_id : Nat,
                   outcome_id : Nat, seq : Nat, timestamp_ns : Nat, levels : Books]
DeltaEvents == [kind : {"Delta"}, venue_id : Nat, market_id : Nat, outcome_id : Nat,
                seq : Nat, timestamp_ns : Nat, level : Levels, is_delete : BOOLEAN]
TradeEvents == [kind : {"Trade"}, venue_id : Nat, market_id : Nat, outcome_id : Nat,
                seq : Nat, timestamp_ns : Nat, price : Probs, size : Int, side : Sides]
HeartbeatEvents == [kind : {"Heartbeat"}, venue_id : Nat, timestamp_ns : Nat]
HaltEvents == [kind : {"Halt"}, venue_id : Nat, market_id : Nat,
               outcome_id : Nat \cup {NoOutcome}, timestamp_ns : Nat, reason_code : Nat]

FeedEvents ==
    SnapshotEvents \cup DeltaEvents \cup TradeEvents \cup HeartbeatEvents \cup HaltEvents

\* The atomics of a FeedEventSlot.
FeedFields ==
    ({"kind", "market_id", "outcome_id", "venue_id", "num_levels", "seq",
      "timestamp_ns", "extra_flags"} \X {0})
    \cup ({"level_prices", "level_sizes"} \X (1 .. MAX_LEVELS))

\* What every event stores: its kind, its venue and its time.
Stamp(e, kind) ==
    {Write("kind", 0, kind), Write("venue_id", 0, e.venue_id),
     Write("timestamp_ns", 0, e.timestamp_ns)}

\* What an event about one outcome's book stores besides.
BookKey(e, levels, flags) ==
    {Write("market_id", 0, e.market_id), Write("outcome_id", 0, e.outcome_id),
     Write("seq", 0, e.seq), Write("num_levels", 0, levels),
     Write("extra_flags", 0, flags)}

LevelAt(i, price, size) ==
    {Write("level_prices", i, price), Write("level_sizes", i, size)}

SnapshotStores(e) ==
    Stamp(e, 1) \cup BookKey(e, Len(e.levels), 0)
    \cup {Write("level_prices", i, e.levels[i].price) : i \in 1 .. Len(e.levels)}
    \cup {Write("level_sizes", i, e.levels[i].size) : i \in 1 .. Len(e.levels)}

DeltaStores(e) ==
    Stamp(e, 2) \cup BookKey(e, 1, IF e.is_delete THEN 1 ELSE 0)
    \cup LevelAt(1, e.level.price, e.level.size)

TradeStores(e) ==
    Stamp(e, 3) \cup BookKey(e, 1, SideByte(e.side)) \cup LevelAt(1, e.price, e.size)

HeartbeatStores(e) == Stamp(e, 4)

\* Mutant of HaltStores: the flag left by the slot's last item is not reset.
HaltStoresKeepFlag(e) ==
    Stamp(e, 5)
    \cup {Write("market_id", 0, e.market_id), Write("num_levels", 0, e.reason_code)}
    \cup IF e.outcome_id = NoOutcome
           THEN {Write("outcome_id", 0, 0)}
           ELSE {Write("outcome_id", 0, e.outcome_id), Write("extra_flags", 0, 1)}

\* A halt of the whole market resets the outcome and the flag; the reason
\* travels in num_levels.
HaltStores(e) ==
    Stamp(e, 5)
    \cup {Write("market_id", 0, e.market_id), Write("num_levels", 0, e.reason_code)}
    \cup IF e.outcome_id = NoOutcome
           THEN {Write("outcome_id", 0, 0), Write("extra_flags", 0, 0)}
           ELSE {Write("outcome_id", 0, e.outcome_id), Write("extra_flags", 0, 1)}

\* <FeedEventSlot as AtomicSlot>::store.
FeedStores(e) ==
    CASE e.kind = "Snapshot"  -> SnapshotStores(e)
      [] e.kind = "Delta"     -> DeltaStores(e)
      [] e.kind = "Trade"     -> TradeStores(e)
      [] e.kind = "Heartbeat" -> HeartbeatStores(e)
      [] e.kind = "Halt"      -> HaltStores(e)

\* <FeedEventSlot as AtomicSlot>::load of a payload p; any other kind is read
\* as a heartbeat.
FeedLoad(p) ==
    LET at(name) == p[<<name, 0>>]
        price(i) == ProbOf(p[<<"level_prices", i>>])
        size(i) == p[<<"level_sizes", i>>]
        shown == IF at("num_levels") < MAX_LEVELS THEN at("num_levels") ELSE MAX_LEVELS
    IN CASE at("kind") = 1 ->
              [kind |-> "Snapshot", venue_id |-> at("venue_id"),
               market_id |-> at("market_id"), outcome_id |-> at("outcome_id"),
               seq |-> at("seq"), timestamp_ns |-> at("timestamp_ns"),
               levels |-> [i \in 1 .. shown |-> [price |-> price(i), size |-> size(i)]]]
         [] at("kind") = 2 ->
              [kind |-> "Delta", venue_id |-> at("venue_id"),
               market_id |-> at("market_id"), outcome_id |-> at("outcome_id"),
               seq |-> at("seq"), timestamp_ns |-> at("timestamp_ns"),
               level |-> [price |-> price(1), size |-> size(1)],
               is_delete |-> at("extra_flags") # 0]
         [] at("kind") = 3 ->
              [kind |-> "Trade", venue_id |-> at("venue_id"),
               market_id |-> at("market_id"), outcome_id |-> at("outcome_id"),
               seq |-> at("seq"), timestamp_ns |-> at("timestamp_ns"),
               price |-> price(1), size |-> size(1),
               side |-> SideOf(at("extra_flags"))]
         [] at("kind") = 5 ->
              [kind |-> "Halt", venue_id |-> at("venue_id"),
               market_id |-> at("market_id"),
               outcome_id |-> IF at("extra_flags") # 0 THEN at("outcome_id")
                                                       ELSE NoOutcome,
               timestamp_ns |-> at("timestamp_ns"),
               reason_code |-> at("num_levels")]
         [] OTHER ->
              [kind |-> "Heartbeat", venue_id |-> at("venue_id"),
               timestamp_ns |-> at("timestamp_ns")]

----------------------------------------------------------------------------
\* SignalEvent: a detected arbitrage with the plan it was sized against.
FeeKinds == {"None", "CommissionBps", "StakeFeeBps", "MakerRebateBps"}

\* A fee that is charged on nothing has no rate.
Fees == {f \in [kind : FeeKinds, bps : Nat] : f.kind = "None" => f.bps = 0}

\* encode_fee: the tag; the argument is the rate.
FeeTag(fee) == CASE fee.kind = "None"           -> 0
                 [] fee.kind = "CommissionBps"  -> 1
                 [] fee.kind = "StakeFeeBps"    -> 2
                 [] fee.kind = "MakerRebateBps" -> 3

\* decode_fee: an unknown tag is no fee.
FeeOf(tag, arg) == CASE tag = 1 -> [kind |-> "CommissionBps", bps |-> arg]
                     [] tag = 2 -> [kind |-> "StakeFeeBps", bps |-> arg]
                     [] tag = 3 -> [kind |-> "MakerRebateBps", bps |-> arg]
                     [] OTHER   -> [kind |-> "None", bps |-> 0]

\* The leg of an allocation indexes a plan, so it fits the slot's byte.
Allocations == [leg : 0 .. MAX_CHUNKS - 1, stake : Int, payout : Int]
PlanLegs == [venue : Nat, outcome : Nat, quoted : Probs, fee : Fees,
             increment : Int, capacity : Int]

\* Arrays of at most MAX_CHUNKS valid entries.
Chunks(S) == UNION {[1 .. n -> S] : n \in 0 .. MAX_CHUNKS}

SignalEvents == [market_id : Nat, allocations : Chunks(Allocations),
                 overround_ppm : Nat, total_stake : Int, worst_case_profit : Int,
                 profit_bps : Nat, plan : Chunks(PlanLegs),
                 ingest_timestamp_ns : Nat, signal_timestamp_ns : Nat,
                 latency_ns : Nat]

\* The atomics of a SignalEventSlot.
SignalFields ==
    ({"market_id", "len", "overround_ppm", "total_stake", "worst_case_profit",
      "profit_bps", "plan_len", "ingest_timestamp_ns", "signal_timestamp_ns",
      "latency_ns"} \X {0})
    \cup ({"alloc_leg", "alloc_stake", "alloc_payout", "plan_venue", "plan_outcome",
           "plan_quoted_ppm", "plan_fee_tag", "plan_fee_arg_bps", "plan_increment",
           "plan_capacity"} \X (1 .. MAX_CHUNKS))

AllocationStores(i, a) ==
    {Write("alloc_leg", i, a.leg % 256), Write("alloc_stake", i, a.stake),
     Write("alloc_payout", i, a.payout)}

PlanStores(i, leg) ==
    {Write("plan_venue", i, leg.venue), Write("plan_outcome", i, leg.outcome),
     Write("plan_quoted_ppm", i, leg.quoted), Write("plan_fee_tag", i, FeeTag(leg.fee)),
     Write("plan_fee_arg_bps", i, leg.fee.bps), Write("plan_increment", i, leg.increment),
     Write("plan_capacity", i, leg.capacity)}

\* The fields that are not arrays.
ScalarStores(s) ==
    {Write("market_id", 0, s.market_id), Write("len", 0, Len(s.allocations)),
     Write("overround_ppm", 0, s.overround_ppm), Write("total_stake", 0, s.total_stake),
     Write("worst_case_profit", 0, s.worst_case_profit),
     Write("profit_bps", 0, s.profit_bps), Write("plan_len", 0, Len(s.plan)),
     Write("ingest_timestamp_ns", 0, s.ingest_timestamp_ns),
     Write("signal_timestamp_ns", 0, s.signal_timestamp_ns),
     Write("latency_ns", 0, s.latency_ns)}

\* <SignalEventSlot as AtomicSlot>::store.
SignalStores(s) ==
    ScalarStores(s)
    \cup (UNION {AllocationStores(i, s.allocations[i]) : i \in 1 .. Len(s.allocations)})
    \cup (UNION {PlanStores(i, s.plan[i]) : i \in 1 .. Len(s.plan)})

\* <SignalEventSlot as AtomicSlot>::load of a payload p.  Signal::from_raw_parts
\* clamps the number of allocations; the plan's number is trusted, and its array
\* ends at MAX_CHUNKS.
SignalLoad(p) ==
    LET at(name) == p[<<name, 0>>]
        clamp(n) == IF n < MAX_CHUNKS THEN n ELSE MAX_CHUNKS
    IN [market_id |-> at("market_id"),
        allocations |->
            [i \in 1 .. clamp(at("len")) |->
                [leg |-> p[<<"alloc_leg", i>>], stake |-> p[<<"alloc_stake", i>>],
                 payout |-> p[<<"alloc_payout", i>>]]],
        overround_ppm |-> at("overround_ppm"), total_stake |-> at("total_stake"),
        worst_case_profit |-> at("worst_case_profit"), profit_bps |-> at("profit_bps"),
        plan |->
            [i \in 1 .. clamp(at("plan_len")) |->
                [venue |-> p[<<"plan_venue", i>>], outcome |-> p[<<"plan_outcome", i>>],
                 quoted |-> ProbOf(p[<<"plan_quoted_ppm", i>>]),
                 fee |-> FeeOf(p[<<"plan_fee_tag", i>>], p[<<"plan_fee_arg_bps", i>>]),
                 increment |-> p[<<"plan_increment", i>>],
                 capacity |-> p[<<"plan_capacity", i>>]]],
        ingest_timestamp_ns |-> at("ingest_timestamp_ns"),
        signal_timestamp_ns |-> at("signal_timestamp_ns"),
        latency_ns |-> at("latency_ns")]

----------------------------------------------------------------------------
\* A payload that holds an item's stores, whatever its other atomics hold.
Holds(p, stores) == \A w \in stores : p[w.field] = w.content
=============================================================================
