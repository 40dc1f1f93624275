----------------------------- MODULE ProdTrader -----------------------------
(***************************************************************************)
(* The production runner (crates/arbkit-exec/examples/prod_trader.rs) with *)
(* the risk gate, the durable store, the hedged executor and the           *)
(* reconciler it drives, and the two venues it trades at.                  *)
(*                                                                         *)
(* The runner is one thread.  Its pc stands between two calls that a crash *)
(* or a venue can separate: store calls, order submissions and replies,    *)
(* cancels, settlements.  The window loop drains signals, pulls commands   *)
(* and reconciles in turn, and each of the three may find nothing to do,   *)
(* so at "loop" any of them may come next.  Venues act on their own: an    *)
(* order already sent can be filled after its submitter gave up or died.   *)
(*                                                                         *)
(* trades is the history of admitted signals: the plan, what the runner    *)
(* concluded about it (fate), the replies it saw (resp), and what the      *)
(* venues did (venue).                                                     *)
(***************************************************************************)
EXTENDS RiskGate, RiskStateStore, Sequences, FiniteSets, Functions

CONSTANTS
    Markets,        \* catalog markets with an active cross-venue pair
    Keys,           \* values of the deduplicator's 16-byte key
    Stakes,         \* stakes a planned leg may ask for, in cents
    Edges,          \* profit_bps a signal may carry
    Balances,       \* balances a venue may report at startup
    Policies,       \* risk limits the environment may configure
    StoreOutcomes,  \* which outcomes the file system lets a store call have
    Handlings,      \* what a venue may do with an order it receives
    Live,           \* TRUE for a live session, FALSE for dry-run
    MaxTrades,      \* bound on the number of fresh signals
    MaxStarts       \* bound on the number of launches

Amounts == [Legs -> Int]

PolicyType == [stake : Int, loss : Int, open : Nat, edge : Nat]

ASSUME TraderAssumption ==
    /\ Live \in BOOLEAN
    /\ MaxTrades \in Nat /\ MaxStarts \in Nat
    /\ Stakes \subseteq Int /\ Balances \subseteq Int /\ Edges \subseteq Nat
    /\ Policies \subseteq PolicyType /\ DefaultPolicy \in PolicyType
    /\ StoreOutcomes \subseteq {"ok", "saveFails", "loadFails"}
    /\ Handlings \subseteq {"full", "short", "rejected"}

VARIABLES
    pc, step,   \* where the runner is, and the leg it is at
    gate,       \* its RiskGate
    seen,       \* OpportunityDeduper.seen
    book,       \* Reconciler.in_flight
    todo,       \* settlements returned by reconcile and not yet applied
    disk,       \* the durable state file
    trades,     \* history of the plans and their orders
    session,    \* [first, base, policy]: see Startup
    starts      \* launches so far

mem == <<gate, seen, book, todo>>
vars == <<pc, step, gate, seen, book, todo, disk, trades, session, starts>>

cur == Len(trades)

\* client_order_id: made of market, venue and outcome only, so every plan on
\* a market uses the same two ids.
ClientId(t, l) == <<trades[t].market, l>>

OpenAtVenue == {"sent", "full", "short"}
Terminal == {"settled", "unwound", "canceled"}

NoCash == [l \in Legs |-> 0]
NoGate == NewGate(DefaultPolicy, TRUE, 0, 0, NoCash)

Init ==
    /\ pc = "down" /\ step = 1
    /\ gate = NoGate /\ seen = {} /\ book = {} /\ todo = {}
    /\ disk = NoDisk
    /\ trades = <<>>
    /\ session = [first |-> 0, base |-> NoCash, policy |-> DefaultPolicy]
    /\ starts = 0

----------------------------------------------------------------------------
\* Mutant of Startup: the environment's limits win over the stored ones.
StartupEnvWins(config, kill, balances, ol, oc) ==
    LET stored == Loads(disk, ol) IN
    /\ pc = "down"
    /\ starts < MaxStarts
    /\ Live => ~kill
    /\ Live /\ stored => disk.inflight = {}
    /\ gate' = IF stored
               THEN NewGate(config, kill, disk.loss, disk.open, balances)
               ELSE NewGate(config, kill, 0, 0, balances)
    /\ disk' = Checkpoint(disk, gate', oc)
    /\ book' = IF stored THEN disk.inflight ELSE {}
    /\ session' = [first |-> cur, base |-> balances,
                   policy |-> IF starts = 0 THEN gate'.config ELSE session.policy]
    /\ starts' = starts + 1
    /\ pc' = "loop"
    /\ UNCHANGED <<step, seen, todo, trades>>

\* main, up to the window loop.  A live session is refused while the kill
\* switch is engaged (exit 3) and while the loaded state has in-flight orders
\* (exit 6); a state that does not load counts as no state.  The stored limits
\* win over the environment's.  session records where this session starts:
\* the trades before it, its balances, and the first session's limits.
Startup(config, kill, balances, ol, oc) ==
    LET stored == Loads(disk, ol) IN
    /\ pc = "down"
    /\ starts < MaxStarts
    /\ Live => ~kill
    /\ Live /\ stored => disk.inflight = {}
    /\ gate' = IF stored
               THEN NewGate(disk.config, kill, disk.loss, disk.open, balances)
               ELSE NewGate(config, kill, 0, 0, balances)
    /\ disk' = Checkpoint(disk, gate', oc)
    /\ book' = IF stored THEN disk.inflight ELSE {}
    /\ session' = [first |-> cur, base |-> balances,
                   policy |-> IF starts = 0 THEN gate'.config ELSE session.policy]
    /\ starts' = starts + 1
    /\ pc' = "loop"
    /\ UNCHANGED <<step, seen, todo, trades>>

\* A signal is popped and its key is new.  A repeated key changes nothing.
TakeSignal(market, key, stake, edge) ==
    /\ pc = "loop"
    /\ key \notin seen
    /\ cur < MaxTrades
    /\ seen' = seen \cup {key}
    /\ trades' = Append(trades,
            [market |-> market, stake |-> stake, edge |-> edge, fate |-> "planned",
             resp |-> [l \in Legs |-> "none"],
             venue |-> [l \in Legs |-> "none"]])
    /\ pc' = "persist" /\ step' = 1
    /\ UNCHANGED <<gate, book, todo, disk, session, starts>>

\* A plan the catalog cannot resolve to two legs on two venues.
SkipUnresolved(key) ==
    /\ pc = "loop"
    /\ key \notin seen
    /\ seen' = seen \cup {key}
    /\ UNCHANGED <<pc, step, gate, book, todo, disk, trades, session, starts>>

\* order_from_exec_leg
EntryFor(t, l) == [id |-> ClientId(t, l), order |-> 0]

\* register_inflight of leg number step; after the second one the
\* reconciler registers both.  A failure skips the plan, after rolling back
\* the first leg when it was the second one's that failed.
PersistLeg(o) ==
    /\ pc = "persist"
    /\ disk' = RegisterInflight(disk, EntryFor(cur, step), o)
    /\ \/ /\ o # "saveFails" /\ step = 1
          /\ step' = 2
          /\ UNCHANGED <<pc, book, trades>>
       \/ /\ o # "saveFails" /\ step = 2
          /\ book' = Put(Put(book, EntryFor(cur, 1)), EntryFor(cur, 2))
          /\ pc' = "preflight" /\ step' = 1
          /\ UNCHANGED trades
       \/ /\ o = "saveFails" /\ step = 1
          /\ trades' = [trades EXCEPT ![cur].fate = "skipped"]
          /\ pc' = "loop"
          /\ UNCHANGED <<step, book>>
       \/ /\ o = "saveFails" /\ step = 2
          /\ pc' = "rollback" /\ step' = 1
          /\ UNCHANGED <<book, trades>>
    /\ UNCHANGED <<gate, seen, todo, session, starts>>

RollBack(o) ==
    /\ pc = "rollback"
    /\ disk' = ClearInflight(disk, ClientId(cur, 1), o)
    /\ trades' = [trades EXCEPT ![cur].fate = "skipped"]
    /\ pc' = "loop"
    /\ UNCHANGED <<step, gate, seen, book, todo, session, starts>>

----------------------------------------------------------------------------
\* HedgedExecutor::execute_reconciled

\* Err(Risk): the runner counts the rejection and goes on; the plan's two
\* in-flight entries stay where they were registered.
PreflightRejects ==
    /\ pc = "preflight"
    /\ ~Admits(gate, trades[cur].stake, trades[cur].edge)
    /\ gate' = AfterPreflight(gate, trades[cur].stake, trades[cur].edge)
    /\ trades' = [trades EXCEPT ![cur].fate = "rejected"]
    /\ pc' = "loop"
    /\ UNCHANGED <<step, seen, book, todo, disk, session, starts>>

PreflightAdmits ==
    /\ pc = "preflight"
    /\ Admits(gate, trades[cur].stake, trades[cur].edge)
    /\ gate' = AfterPreflight(gate, trades[cur].stake, trades[cur].edge)
    /\ trades' = [trades EXCEPT ![cur].fate = "reserved"]
    /\ pc' = "submit"
    /\ UNCHANGED <<step, seen, book, todo, disk, session, starts>>

\* The scoped thread of leg l posts its order; a dry run fills it at once.
Send(l) ==
    /\ pc = "submit"
    /\ trades[cur].venue[l] = "none"
    /\ trades' = [trades EXCEPT ![cur].venue[l] = IF Live THEN "sent" ELSE "full"]
    /\ UNCHANGED <<pc, step, gate, seen, book, todo, disk, session, starts>>

\* What the venue's answer to a submission says.
Answer(v) == CASE v \in {"full", "settled"} -> "full"
               [] v \in {"short", "canceled"} -> "short"
               [] OTHER -> "err"

\* submit returns: the venue's answer, or, against a live venue, an error (a
\* timeout, a lost answer, a panic) whatever the venue did or will do.
Reply(l, r) ==
    /\ pc = "submit"
    /\ trades[cur].venue[l] # "none" /\ trades[cur].resp[l] = "none"
    /\ \/ trades[cur].venue[l] # "sent" /\ r = Answer(trades[cur].venue[l])
       \/ Live /\ r = "err"
    /\ trades' = [trades EXCEPT ![cur].resp[l] = r]
    /\ UNCHANGED <<pc, step, gate, seen, book, todo, disk, session, starts>>

\* Mutant of Classify: one full leg is enough.
ClassifyAny ==
    LET success == \E l \in Legs : trades[cur].resp[l] = "full" IN
    /\ pc = "submit"
    /\ \A l \in Legs : trades[cur].resp[l] # "none"
    /\ trades' = IF success THEN [trades EXCEPT ![cur].fate = "filled"] ELSE trades
    /\ pc' = IF success THEN "ack" ELSE "unwind"
    /\ UNCHANGED <<step, gate, seen, book, todo, disk, session, starts>>

\* Both threads joined: a full hedge, or one to unwind.
Classify ==
    LET success == \A l \in Legs : trades[cur].resp[l] = "full" IN
    /\ pc = "submit"
    /\ \A l \in Legs : trades[cur].resp[l] # "none"
    /\ trades' = IF success THEN [trades EXCEPT ![cur].fate = "filled"] ELSE trades
    /\ pc' = IF success THEN "ack" ELSE "unwind"
    /\ UNCHANGED <<step, gate, seen, book, todo, disk, session, starts>>

\* A leg without an accepted order needs no unwind.
UnwindSkips ==
    /\ pc = "unwind" /\ step \in Legs
    /\ trades[cur].resp[step] = "err"
    /\ step' = step + 1
    /\ UNCHANGED <<pc, gate, seen, book, todo, disk, trades, session, starts>>

\* The venue cancels or flattens an order that is not already terminal.
UnwindSucceeds ==
    /\ pc = "unwind" /\ step \in Legs
    /\ trades[cur].resp[step] # "err"
    /\ trades[cur].venue[step] \in {"full", "short"}
    /\ trades' = [trades EXCEPT ![cur].venue[step] = "unwound"]
    /\ step' = step + 1
    /\ UNCHANGED <<pc, gate, seen, book, todo, disk, session, starts>>

\* Err(Unwind) returns at once: capital stays reserved, nothing is
\* acknowledged, a later leg is not unwound, no checkpoint is written.
UnwindFails ==
    /\ pc = "unwind" /\ step \in Legs
    /\ trades[cur].resp[step] # "err"
    /\ trades' = [trades EXCEPT ![cur].fate = "stuck"]
    /\ pc' = "loop" /\ step' = 1
    /\ UNCHANGED <<gate, seen, book, todo, disk, session, starts>>

\* release_trade after both unwinds.
ReleasePhantom ==
    /\ pc = "unwind" /\ step = 3
    /\ gate' = ReleaseTrade(gate, trades[cur].stake)
    /\ trades' = [trades EXCEPT ![cur].fate = "phantom"]
    /\ pc' = "ack" /\ step' = 1
    /\ UNCHANGED <<seen, book, todo, disk, session, starts>>

\* Mutant of AckLeg: the in-memory acknowledgement is missing.
AckDiskOnly(o) ==
    /\ pc = "ack" /\ step \in Legs
    /\ disk' = IF trades[cur].resp[step] = "err" THEN disk
               ELSE Acknowledge(disk, ClientId(cur, step), cur, o)
    /\ step' = step + 1
    /\ UNCHANGED <<pc, gate, seen, book, todo, trades, session, starts>>

\* Acknowledge leg number step in the reconciler and in the store, when it
\* has a venue order id.
AckLeg(o) ==
    LET accepted == trades[cur].resp[step] # "err" IN
    /\ pc = "ack" /\ step \in Legs
    /\ book' = IF accepted THEN AckEntry(book, ClientId(cur, step), cur) ELSE book
    /\ disk' = IF accepted THEN Acknowledge(disk, ClientId(cur, step), cur, o) ELSE disk
    /\ step' = step + 1
    /\ UNCHANGED <<pc, gate, seen, todo, trades, session, starts>>

CheckpointTrade(o) ==
    /\ pc = "ack" /\ step = 3
    /\ disk' = Checkpoint(disk, gate, o)
    /\ pc' = "loop" /\ step' = 1
    /\ UNCHANGED <<gate, seen, book, todo, trades, session, starts>>

----------------------------------------------------------------------------
\* Entries a poll can report terminal: acknowledged ones at a live venue.
Pollable(es) ==
    {e \in es : Live /\ e.order # 0 /\ trades[e.order].venue[e.id[2]] \in Terminal}

\* Reconciler::reconcile closes the orders its polls report terminal; a poll
\* may fail, and then its order waits for the next window.
Reconcile(es) ==
    /\ pc = "loop"
    /\ es # {} /\ es \subseteq Pollable(book)
    /\ book' = book \ es
    /\ todo' = es
    /\ pc' = "settle"
    /\ UNCHANGED <<step, gate, seen, disk, trades, session, starts>>

\* risk.settle and clear_inflight for one settlement.  order_status carries no
\* profit, so the settled profit is 0.
SettleEntry(e, o) ==
    /\ pc = "settle" /\ e \in todo
    /\ gate' = SettleGate(gate, 0)
    /\ disk' = ClearInflight(disk, e.id, o)
    /\ todo' = todo \ {e}
    /\ UNCHANGED <<pc, step, seen, book, trades, session, starts>>

CheckpointSettled(o) ==
    /\ pc = "settle" /\ todo = {}
    /\ disk' = Checkpoint(disk, gate, o)
    /\ pc' = "loop"
    /\ UNCHANGED <<step, gate, seen, book, todo, trades, session, starts>>

\* A kill-switch command; a disarm without confirmation is refused.
KillSwitch(engage, confirm) ==
    /\ pc = "loop"
    /\ engage \/ confirm
    /\ gate' = [gate EXCEPT !.kill = engage]
    /\ UNCHANGED <<pc, step, seen, book, todo, disk, trades, session, starts>>

Forget ==
    /\ pc' = "down" /\ step' = 1
    /\ gate' = NoGate /\ seen' = {} /\ book' = {} /\ todo' = {}

\* session-end, or the window limit: final checkpoint and exit.
EndSession(o) ==
    /\ pc = "loop"
    /\ disk' = Checkpoint(disk, gate, o)
    /\ Forget
    /\ UNCHANGED <<trades, session, starts>>

\* The process dies.
Crash ==
    /\ pc # "down"
    /\ Forget
    /\ UNCHANGED <<disk, trades, session, starts>>

----------------------------------------------------------------------------
\* The venues (external).
VenueHandles(t, l, v) ==
    /\ trades[t].venue[l] = "sent"
    /\ trades' = [trades EXCEPT ![t].venue[l] = v]
    /\ UNCHANGED <<pc, step, mem, disk, session, starts>>

VenueSettles(t, l) ==
    /\ Live
    /\ trades[t].venue[l] \in {"full", "short"}
    /\ trades' = [trades EXCEPT ![t].venue[l] = IF @ = "full" THEN "settled" ELSE "canceled"]
    /\ UNCHANGED <<pc, step, mem, disk, session, starts>>

\* RUNBOOK section 4: with the runner down the operator waits until nothing
\* is on its way, flattens what is open and empties in_flight.
OperatorReconciles ==
    /\ pc = "down"
    /\ disk.inflight # {}
    /\ \A t \in 1 .. cur, l \in Legs : trades[t].venue[l] # "sent"
    /\ trades' = [t \in 1 .. cur |-> [trades[t] EXCEPT !.venue =
                    [l \in Legs |-> IF @[l] \in OpenAtVenue THEN "flattened" ELSE @[l]]]]
    /\ disk' = [disk EXCEPT !.inflight = {}]
    /\ UNCHANGED <<pc, step, mem, session, starts>>

----------------------------------------------------------------------------
\* What the runner does by itself once it has started something.
RunnerStep ==
    \/ \E o \in StoreOutcomes :
          PersistLeg(o) \/ RollBack(o) \/ AckLeg(o) \/ CheckpointTrade(o)
    \/ PreflightRejects \/ PreflightAdmits \/ Classify
    \/ UnwindSkips \/ UnwindSucceeds \/ UnwindFails \/ ReleasePhantom
    \/ \E o \in StoreOutcomes : CheckpointSettled(o) \/ \E e \in todo : SettleEntry(e, o)
    \/ \E l \in Legs : Send(l) \/ \E r \in {"full", "short", "err"} : Reply(l, r)

Reconciling == \E es \in SUBSET book : Reconcile(es)

Outside ==
    \/ \E config \in Policies, kill \in BOOLEAN, balances \in [Legs -> Balances],
          ol \in StoreOutcomes, oc \in StoreOutcomes :
             Startup(config, kill, balances, ol, oc)
    \/ \E key \in Keys : SkipUnresolved(key)
    \/ \E market \in Markets, key \in Keys, stake \in [Legs -> Stakes], edge \in Edges :
             TakeSignal(market, key, stake, edge)
    \/ \E engage, confirm \in BOOLEAN : KillSwitch(engage, confirm)
    \/ \E o \in StoreOutcomes : EndSession(o)
    \/ Crash

Venue ==
    \E t \in 1 .. cur, l \in Legs :
        VenueSettles(t, l) \/ \E v \in Handlings : VenueHandles(t, l, v)

Next == RunnerStep \/ Reconciling \/ Outside \/ Venue \/ OperatorReconciles

Spec == Init /\ [][Next]_vars

\* The runner's thread keeps running and its polls do not fail forever.
Fairness == WF_vars(RunnerStep) /\ WF_vars(Reconciling)

FairSpec == Spec /\ Fairness

----------------------------------------------------------------------------
Fates == {"planned", "skipped", "rejected", "reserved", "filled", "phantom", "stuck"}
Trade == [market : Markets, stake : Amounts, edge : Nat, fate : Fates,
          resp : [Legs -> {"none", "full", "short", "err"}],
          venue : [Legs -> OpenAtVenue \cup Terminal \cup {"none", "rejected", "flattened"}]]
Entries == [id : Markets \X Legs, order : Nat]
Gate == [config : PolicyType, kill : BOOLEAN, loss : Int, open : Nat, cash : Amounts]

\* Type invariant.
TypeOK ==
    /\ pc \in {"down", "loop", "persist", "rollback", "preflight", "submit", "unwind",
              "ack", "settle"}
    /\ step \in 1 .. 3
    /\ gate \in Gate
    /\ seen \subseteq Keys
    /\ book \subseteq Entries /\ todo \subseteq Entries
    /\ disk \in [exists : BOOLEAN, config : PolicyType, loss : Int, open : Nat,
                inflight : SUBSET Entries]
    /\ trades \in Seq(Trade)
    /\ session \in [first : Nat, base : Amounts, policy : PolicyType]
    /\ starts \in Nat

\* No plan on the trade's market came after it (the two would share ids).
Newest(t) == \A u \in (t + 1) .. cur : trades[u].market # trades[t].market

\* What a trade holds of a venue's capital, and what this session's trades hold.
Holds(t, l) ==
    IF t > session.first /\ trades[t].fate \in {"reserved", "filled", "stuck"}
    THEN trades[t].stake[l] ELSE 0

Held(l) == SumFunctionOnSet([t \in 1 .. cur |-> Holds(t, l)], 1 .. cur)

\* Every reservation is accounted for: a venue's available capital and the
\* stakes of this session's hedges that hold capital make up the balance the
\* session started with, through partial preflights, unwinds and failures
\* (RiskGate's preflight, release_trade and settle; a failed unwind
\* "conservatively leaves capital reserved").
CapitalConserved ==
    pc # "down" => \A l \in Legs : gate.cash[l] + Held(l) = session.base[l]

\* A hedge reported live-fill has both its legs, whole; one reported
\* live-phantom has no leg left that the executor knew to be accepted.
HedgedOrFlat ==
    \A t \in 1 .. cur : \A l \in Legs :
        /\ trades[t].fate = "filled" =>
                trades[t].venue[l] \in {"full", "settled", "flattened"}
        /\ trades[t].fate = "phantom" /\ trades[t].resp[l] # "err" =>
                trades[t].venue[l] = "unwound"

\* Crash recovery covers the venues: an order that is on its way or open at a
\* venue has its client id in the durable in-flight set, whatever failed,
\* timed out or crashed since (prod_trader.rs:1596-1600), unless a later plan
\* on the same market took over its id.
NoOrderUnrecorded ==
    \A t \in 1 .. cur : \A l \in Legs :
        Newest(t) /\ trades[t].venue[l] \in OpenAtVenue => ClientId(t, l) \in Ids(disk.inflight)

\* A live session starts only when none of the orders of earlier sessions can
\* still be open at a venue (prod_trader.rs:1222-1236).
RestartIsClean ==
    [][ starts' # starts /\ Live =>
          \A t \in 1 .. cur : \A l \in Legs :
              Newest(t) => trades[t].venue[l] \notin OpenAtVenue ]_vars

\* "open is not orphaned" (prod_trader.rs:1956-1959): a hedge this session
\* filled can be polled under its venue order id until its order is terminal.
FillsStayPolled ==
    \A t \in (session.first + 1) .. cur : \A l \in Legs :
        /\ pc # "down" /\ ~(t = cur /\ pc = "ack")
        /\ Newest(t) /\ trades[t].fate = "filled" /\ trades[t].venue[l] \in OpenAtVenue
        => [id |-> ClientId(t, l), order |-> t] \in book

\* A submitted order obeys the limits of the first session, across restarts
\* under other environments ("a restart must not silently widen caps mid-day",
\* prod_trader.rs:1256-1259), and no order is sent after a kill-switch command
\* until the operator disarms it.
LimitsHold ==
    [][ \A t \in 1 .. cur : \A l \in Legs :
          trades[t].venue[l] = "none" /\ trades'[t].venue[l] # "none" =>
             /\ ~gate.kill
             /\ trades[t].stake[l] \in 1 .. session.policy.stake
             /\ gate.open <= session.policy.open ]_vars

\* A settled order of a hedge this session filled is eventually closed, in
\* memory, unless the session ends (prod_trader.rs:1828-1831).
SettledIsClosed ==
    \A t \in 1 .. MaxTrades, l \in Legs :
        ( /\ pc # "down" /\ t <= cur /\ t > session.first
          /\ trades[t].fate = "filled" /\ trades[t].venue[l] = "settled" )
        ~> ( pc = "down" \/ t > cur \/ ~Newest(t)
             \/ \A e \in book : e.id # ClientId(t, l) )

----------------------------------------------------------------------------
\* What comments and documents say and the code does not keep.

\* "Orders whose submission may have reached a venue" (state.rs:22): between
\* two signals every durable in-flight entry is for an order that was sent.
InflightMayHaveReachedVenue ==
    pc = "loop" => \A e \in disk.inflight :
        \E t \in 1 .. cur : trades[t].market = e.id[1] /\ trades[t].venue[e.id[2]] # "none"

\* "One or more legs failed and filled legs were unwound" (lib.rs:382).
PhantomIsFlat ==
    \A t \in 1 .. cur : \A l \in Legs :
        trades[t].fate = "phantom" => trades[t].venue[l] \notin {"full", "short"}

\* "A restart re-seeds in-flight orders so none are orphaned"
\* (LIVE_TRADING.md:335-336): every acknowledged order that is open stays
\* pollable, a later plan on its market notwithstanding.
NoneOrphaned ==
    \A t \in (session.first + 1) .. cur : \A l \in Legs :
        /\ pc = "loop" /\ trades[t].fate = "filled" /\ trades[t].venue[l] \in OpenAtVenue
        => [id |-> ClientId(t, l), order |-> t] \in book
=============================================================================
