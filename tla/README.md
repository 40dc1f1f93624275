# arbkit: a TLA+ development

arbkit looks for arbitrage between two prediction-market venues (Kalshi and
Polymarket), and executes it as two-leg hedges under a risk gate; a dashboard shows
the runner's positions and lets operators stop it. This directory holds TLA+ models
of the parts where a mistake costs money and a test would hardly reach it, the TLC
configurations that check them, and TLAPS proofs of the properties that matter most.

## The system and its components

| Component | Source | State it keeps | Operations | Talks to |
|---|---|---|---|---|
| SPSC ring | `crates/arbkit-engine/src/ring.rs` | slot turns and payloads; head, tail | `try_push`, `try_pop`, `is_full`, `is_empty` | feed bridge -> engine, engine -> runner |
| Live feeds, feed bridge | `crates/arbkit-feed/src/live/*` | mpsc queue, sequence trackers, reconnect state | socket tasks, `spawn_ring_bridge` | venues, ring, tape |
| Engine, books, slab | `crates/arbkit-engine/src/{engine,slab}.rs` | books per market, outcome and venue, staleness, cooldowns | `process_event`, `evaluate`, `step`, `run` | both rings, detection |
| Detection arithmetic | `crates/arbkit-core/src/*` | none | `detect_book`, sizing, fees, prices | engine, aggregator |
| Quote aggregator | `crates/arbkit-engine/src/aggregator.rs` | none | `evaluate_market`: candidates, selection, execution plan | detection, simulator |
| Risk gate | `crates/arbkit-exec/src/lib.rs` | limits, kill switch, loss, open trades, bankroll | `preflight`, `release_trade`, `settle` | executor, runner |
| Hedged executor | `crates/arbkit-exec/src/lib.rs` | none of its own | `execute_reconciled` | venues, risk gate |
| Durable risk state | `crates/arbkit-exec/src/state.rs` | one JSON file: limits, counters, in-flight orders | `checkpoint`, `register_inflight`, `acknowledge`, `clear_inflight` | runner, restart |
| Reconciler, ledger | `crates/arbkit-exec/src/{reconcile,state}.rs` | in-flight list, folded fills, profit and fees | `register`, `acknowledge`, `reconcile`, `apply_fill` | venue polls, fill streams, risk gate |
| Venue order adapters | `crates/arbkit-exec/src/{kalshi,polymarket}.rs` | none | a leg to a request; answers, polls and fill frames to outcomes | venues, executor, ledger |
| Production runner | `crates/arbkit-exec/examples/prod_trader.rs` | deduplicator, counters, command high-water mark | startup, window loop, shutdown | everything above, dashboard |
| Stream writer, command poller | `live_runner/{stream,control}.rs`, `prod_trader.rs` | channel, batch, attempts; last command seen | batching, retries, heartbeats; polling | room |
| Position room | `dashboard/worker/{position-room,state}.ts` | one session: rows, fills, totals, cursor, status; command queue | ingest, relays, snapshots, staleness alarm, eviction | runner, browsers |
| Live viewer | `dashboard/src/data/*` | rows on screen, totals, resume cursor | frame reducer, reconnection | room |
| Operator authentication | `dashboard/worker/session.ts` | challenges, sessions | challenge, login, validate, logout | room, browsers |
| Discovery | `crates/arbkit-feed/src/live/discovery.rs` | pages, catalog generation | `refresh`: fetch, resolve, pair, install | venues, catalog, runner |
| Catalog, matching | `crates/arbkit-match/src/*` | club names, registry, active map | parse, look up, align, register, validate | discovery, engine, runner |
| Simulator, paper runners | `crates/arbkit-sim/src/*`, `live_runner`, `pipeline.rs` | bankroll: available and locked money per venue; signals | `reserve`, `commit_fill`, `settle_*`; window loop | engine, operator |

The hard behaviours are: two threads on a ring without locks; a runner that can
die between any two of its store calls and order submissions; venues that fill an
order whose submitter has given up; a disk that fails one call of several;
identifiers reused from one plan to the next; requests that are retried, answered in
vain or handled after their sender gave up; sessions that end while a login or a
command is waiting; listings that move while they are paged. `PROJECT.json` lists
them one by one under `hazards`.

## Modules

| Module | What it is |
|---|---|
| `BoundedFifo` | what a ring promises: a FIFO channel with a capacity |
| `SpscRing`, `SpscRingProofs` | the ring at the grain of its atomic accesses; its proofs, and those about the slots |
| `EventSlots` | operators: the two payloads that cross the rings, stored in atomics and loaded back |
| `RiskGate`, `RiskStateStore` | operators: the risk gate and the state file |
| `ProdTrader`, `ProdTraderProofs` | the runner, executor, reconciler and venues; proofs about types, recovery, hedges, polling, limits and capital |
| `VenueOrders`, `VenueOrdersProofs` | from an order leg through both adapters to the ledger; proofs that an order closes once and its profit is booked once |
| `OutcomeBook` | operators: staleness and sequencing of one book |
| `LivePipeline`, `LivePipelineProofs` | feeds, bridge, engine and runner with the two rings between them; its proofs |
| `Fees`, `Detection` | operators: prices, fees, and the sizing of an arbitrage |
| `Aggregation`, `Aggregator` | operators and state machine: from the books of all venues to an execution plan |
| `Bankroll`, `Simulator` | operators: money per venue; the simulated fate of a plan |
| `PaperTrader`, `PaperTraderProofs` | the two paper runners; proofs about detection, the engine's signals, what the runners report and their kill switch |
| `PositionSession`, `LiveViewer` | operators: the room's session and the browser's reducer |
| `LiveStream`, `LiveStreamProofs` | runner, writer, requests, room and one viewer; its proofs |
| `OperatorAuth` | operators: challenges and sessions |
| `OperatorControl`, `OperatorProofs` | browsers, room and runner around sign-in and commands; the proofs about both |
| `Teams`, `EasternDate`, `Alignment`, `Tickers` | operators: the club table, game dates, sides and lines, parsed tickers |
| `Registry`, `Catalog` | operators: the canonical registry; one catalog generation |
| `Discovery` | paging, building, installing and starting |
| `DataLemmas` | quotients, finite sums, sets taken in an order, and alignment: the facts the other proofs cite |
| `MC*` | instances for TLC, one `.cfg` per run |

`ProdTrader` composes `RiskGate` and `RiskStateStore`; `LivePipeline` two bounded FIFO
rings, which `SpscRing` is shown to implement, with `OutcomeBook`; `Aggregator` and
`PaperTrader` compose `Detection`, `Aggregation`, `Bankroll` and `Simulator`;
`LiveStream` composes `PositionSession` and `LiveViewer`; `OperatorControl` builds on
`OperatorAuth`; `Discovery` on `Catalog` and everything below it.

### SpscRing

Each atomic access of `try_push` and `try_pop` is a step: `PushBegin` reads the
slot's turn, `PushStore` writes one field of the payload (the fields are separate
relaxed atomics), `PushPublish` stores the turn with release ordering; `PopBegin`,
`PopLoad`, `PopRelease` mirror them. `producer` and `consumer` are the threads'
program counters with what they have read; `sent` and `received` are history.
`turn` is what the acquire loads see: the model takes acquire/release pairs as
sequentially consistent and checks that the relaxed payload accesses are never
concurrent on a slot (`SlotExclusion`), which is what makes that sound.
The ring is generic in its slot type, as `AtomicSlot` is: `Stores` and `Load`, with
`SlotContract` as what it needs of them. `EventSlots` has the two types of the engine: an
event or a signal stores some of a slot's numbers and leaves the others as the slot's
earlier item left them (`num_levels` is also a halt's reason, `extra_flags` a deletion, a
side or the presence of an outcome), and loading must still give the item back.
`ImplementsFifo` is refinement to `BoundedFifo`.

### ProdTrader

One signal at a time goes through `pc`: `TakeSignal` (deduplication, planning),
`PersistLeg` per leg with `RollBack` on failure, `PreflightAdmits` or
`PreflightRejects`, `Send` per leg (concurrent with the other leg's `Reply`),
`Classify`, the `Unwind*` actions, `ReleasePhantom`, `AckLeg`, `CheckpointTrade`.
At `loop` the runner may instead reconcile (`Reconcile`, `SettleEntry`,
`CheckpointSettled`), apply a kill-switch command, or end the session; `Crash` may
interrupt anywhere and `Startup` restores the gate from `disk` or refuses.
`gate` is the `RiskGate`, `book` the reconciler's list, `disk` the state file, `todo`
the settlements of the current poll, `trades` the history of plans with the venues'
own state of each leg (`venue`), which the runner sees only through replies and
polls. `VenueHandles` and `VenueSettles` are the venues: an order on its way may fill,
half fill or be refused after its submitter gave up. Every store call takes an outcome
from `StoreOutcomes`: it works, its load fails, or its save fails.

### LivePipeline

The feeds turn frames into events (`KalshiSnapshot`, `KalshiDelta`, ...,
`PolymarketBook`), a gap into a halt, an unparsable price into nothing. The bridge
thread alternates `BridgeCheck`, `BridgeReceive` and `BridgePush`; the closure's tape
write and ring push are one step, because only the bridge touches the tape and the
ring is `BoundedFifo`. The engine thread alternates `EngineCheck` and `EngineStep`,
which is all of `step`: pop, `process_event` with its book update, cooldown and
detection, and the push that a full signal ring drops. Prices are not modelled:
detection may find a signal when every outcome has a level in service (`Covered`).
`KalshiFrames` and `PolymarketFrames` are the frames a run lets the venues publish.
`TapeFaithful` says that the tape is the sequence of sent events, each entry the event of
the entry before it or the next one, and never behind what the bridge has disposed of.
Assumed of the venues: Kalshi numbers its book and trade frames per connection, only
status frames may lack a ticker, and Polymarket frames carry no number.

### Fees, Detection, Aggregation, Aggregator

`Fees` has the integer price conversions and the three fee kinds (stake, commission,
maker rebate) with the source's rounding direction at each division, over the units
`PPM`, `ODDS_ONE` and `BPS`. `Detection` is `detect_book`: the best quote of each
outcome first and then the rest, up to `MAX_CHUNKS` (`Flatten`); the parity test
(`SizeUp`); the closed-form equal payoff (`ClosedForm`); the halving search over the
guaranteed payout (`Search`, `Probe`), where `Distribute` splits a target over an
outcome's levels in whole increments and repairs what rounding left short; the report.
Each operator is a step of the source and keeps its integer divisions.
`Aggregation` adds the discount of depth by the venue's survival rate, the choice of
candidates and the conversion of allocations into execution legs. `Aggregator` is the
state machine: `ApplyEvent` replaces a book of one outcome at one venue, `EvaluateMarket`
evaluates the market; `fresh` says whether `result` is about the current books.

Two reference properties say what sizing promises without repeating how it is done:
`GuaranteedWhateverSettles` (recomputed from quoted prices and fees, each outcome pays
all that was staked and the reported profit, which is positive) and
`NeverWorseThanSingleQuote` (`EqualPayoffPlan`, the sizing on one quote per outcome, is
the reference).

### Bankroll, Simulator, PaperTrader

`Bankroll` has what the runners' loops over the legs do to the balances: the capital gate
(`CanReserve`, `Reserved`, `Reserve`), `CommitFill`, and the payments of a settlement
(`SettleLegs`). The code calls each for one leg after the other; the model moves what all of
them amount to at a venue (`MovedAt`), which is the same because each call applies its limit
to what the calls before it left. `Simulator` has the fill of a leg at its arrival price after the queue in
front (`EvaluateLeg`), the chase policy (`MayChase`) and the classification of the
result (`Classify`).
`PaperTrader` is the loop of both runners, with `runner` chosen in `Init`: `KillSwitch`
between windows, `OpenWindow`, `Collect`, `CloseWindow` with its gate, `SkipRepeated`
(the live runner's deduplication), `TradeNext` (reserve every leg or none, simulate,
reconcile, settle, record), `EndWindow`, `SessionEnd`. Signals are evaluations of
`MarketBooks` through `Aggregation`, so every plan the runner meets is one that
detection can produce. Prices on arrival are the quoted ones, the decayed ones, or what
the tape has. One venue's `FrontRun` leaves less depth than its survival rate assumes,
so that partial and disproportionate fills occur.

### VenueOrders

An order is a leg, `KalshiRequest` or `PolymarketRequest` made of it, what the venue
did (`venue`), the frames of its private stream (`stream`, `delivered`) and the runner's
view: `reply`, `inflight`, `ledger`, `closed`. `Submit` and `Answer` are a submission
and its answer, `TimesOut` an answer that never comes; `Deliver` folds the next frame, or
an earlier one again, under its fingerprint (`Fold`, which folds all the fills of an answer
at once: the last statement of each order stays, and the profit of each fingerprint not
seen before is added); `Reconcile` is one pass of polls
over the acknowledged orders, each of which may fail; `Restart` forgets everything but
the in-flight orders and seeds the ledger from them. A leg may be routed to the wrong
venue's adapter, which refuses it. The venue restates all it knows of an order
in each later frame; the stream delivers in order and at least once.

### PositionSession, LiveViewer, LiveStream

`PositionSession` is `PositionSession` of the worker: `Applied` is `apply` with its run and
row checks, `FreshRows` its duplicate filter, `MarkStaleIfExpired` its clock.
`LiveViewer` is the reducer of the browser: a snapshot replaces what is shown, rows
are appended, totals adopted. `LiveStream` joins them: the runner produces frames;
the writer collects a batch (`FlushRecords`, a batching window), sends it and retries
up to `MaxAttempts`, or drops it and counts; a heartbeat fills silences. An attempt is
answered, lost, handled with its answer lost, or handled late, after later requests
or the next run. The room applies frames one by one and relays to viewers, is evicted
and comes back empty, and its alarm looks for silence. `Kinds` is the sequence of runs:
a live paper run, whose writer has its own rules, and then a production run. A tick
is the room's check interval; the writer's shorter timers come due within one.
A row stands for its numbers, so totals are the sequence of counted rows.

### OperatorAuth, OperatorControl

`AskChallenge`, `StartLogin`, `FinishLogin` split a login where it awaits the signature
check: the nonce is consumed before, the session granted after. `Post`, `Authenticate`
and `Enqueue` split a command where its body is awaited. `Poll` returns what is queued
above the runner's high-water mark, or as an answer that is lost; `ApplyAnswer` is the
loop over the answer, in closed form (the last switch of the answer decides, `Switched`,
and the mark becomes the largest id): only switch commands and `end` act, a disarm needs its
confirmation, each command moves the mark. Each `Launch` is of the paper runner, which starts
with the switch engaged (`main.rs:609`), or of the production runner, which takes it from
`ARBKIT_KILL_SWITCH` and in live mode refuses to start while it is engaged
(`prod_trader.rs:1064`, `1109`; `MayLaunch`); either starts with mark 0. The
room may be evicted, which loses queue, sessions and challenges and restarts the ids.
`ghost` keeps dead tokens, granted nonces, applied ids, the switch at the launch, and whether a
switch command was applied since. `CommandsAreObeyed` therefore does not say that order flow waits
for an operator: only the paper runner's does. It says that until a switch command is
applied the switch is as the launch set it. The choice of `budget` splits
behaviours into two kinds, those about signing in and those about commands, so that
each stays small; the two meet in the command that tries a session.

### Teams, EasternDate, Alignment, Tickers, Registry, Catalog, Discovery

`Teams` is the whole alias table with both lookups; `LookupTeamUnique` is the one that
refuses a name of two clubs. `EasternDate` is the integer arithmetic of
`eastern_game_date`, civil days and daylight saving included. `Alignment` has the kinds
of market, the sides, and `ValidateBinaryPair`, with `Wins`, which outcome wins on which
result. `Tickers` takes a ticker as the record of its parts; the ways to cut the codes
are in the ticker, which of them the parser takes is modelled. `Registry` registers
events, markets, outcomes and venue names with every conflict check. `Catalog`
resolves listings to games, registers and pairs them, and has `Fed`: the books the
runner's feeds will write. `Discovery` pages Kalshi by cursor and Polymarket by offset
while events open and close, skips unreadable pages, fails, builds and installs a
generation, and starts or refuses to start the runner; `missed` notes that a page was
unreadable or lay beyond the page limit, and `shifts` counts the events closed and opened
meanwhile. Each ticker and token carries
what it truly is about, which the operators of the code never look at: the properties
compare the two.

## Runs

| Run | Instance and bounds | Shows |
|---|---|---|
| `ring` | 2 slots, 4 events out of 5 kinds in the feed's own slot type, 4 of its numbers | `SlotExclusion`, `AnswersAreExact`, `RoomAndItemsAreStable`, `ImplementsFifo`, `EveryItemDelivered` |
| `trader` | 2 plans, 2 launches, crash anywhere, saves may fail, replies may be lost | `HedgedOrFlat`, `NoOrderUnrecorded`, `FillsStayPolled`, `CapitalConserved`, `RestartIsClean` |
| `session` | 2 launches with different environments, a disk that works, fairness | `LimitsHold`, `SettledIsClosed` |
| `pipeline` | 2 feeds, 1 market, 3 frames, one-slot rings, 1 surplus retry, clock readings in any order | `InOrderOnce`, `TapeFaithful`, `SignalsSpaced`, `EventsReachEngine` |
| `books` | Kalshi, 2 markets, 4 frames out of 8 kinds, ring of 2 | `NoGapTrusted`, `HaltedUntilSnapshot` |
| `detection` | 2 outcomes, 2 venues, 7 books each, units of 100, 4 chunks, budget 22 | `GuaranteedWhateverSettles`, `NeverWorseThanSingleQuote` |
| `paper` | 3 signals out of 6 plans, 2 policies, both runners, balances that run out | `BankrollFollowsReports`, `HedgesAreHedged`, `PromiseKept`, `StandsDown` |
| `orders` | 2 orders, 3 kinds of leg, 2 frames, 1 fault, fairness | `ProfitBookedOnce`, `ClosedOnceAtTheEnd`, `DoneOrdersClose` |
| `room` | 2 runs, 2 rows each, rings of 2, 2 attempts, 1 fault, fairness | `CountedOnce`, `GapsAreReported`, `ViewerAgrees`, `NoRowTwiceOnScreen`, `NeverFalselyStale`, `SilenceIsNoticed` |
| `control` | 2 operators, 2 browsers; 2 challenges and 1 command, or 3 commands and 2 runner lives; queue of 2, 1 fault, fairness | `LoginsAreExclusive`, `DeadTokensStayDead`, `CommandsAreObeyed`, `CommandsArrive` |
| `catalog` | listings of a series with hard cases, or one game at 13:30 or 23:30 Eastern of any day of 2026 and 2027; 2 pages, 1 change while paging | `PairsHedge`, `OpenGamesPair`, `OutcomesPayAlike` |
| `engine_ids` | two games of one series | expected to violate `PairsReachTheEngine` |

Four items make a two-slot ring wrap twice, so every turn value and every slot is
reused; a snapshot, a deletion, the two halts and a heartbeat each leave other numbers of
their slot alone. Two plans
on one or two markets suffice for identifiers to collide and for a settlement of one
plan to meet the execution of the next; two launches, for state to be restored. Three
frames fill channel, bridge and ring at once and still leave one to be pushed at
shutdown. Four frames reach a gap hidden by another market's snapshot. `detection` uses units of
100 in place of 10^6, 10^4 and 10^4: a coarse grid makes rounding losses as large as the
profits, so a division rounded the wrong way shows at once; the seven books are stale,
thin, deep, cheap, dear, two-level, and smaller than one increment. In `paper` three
signals exhaust a venue's balance after two hedges and let a kill-switch command fall
before, between and after them. In `orders` two orders suffice for one poll of a pass to
fail and the other to close, and two frames for a repetition and a restatement. In `room` two
rows in rings of two overflow when the second run's arrive; a fault is one lost,
doubled or late request, crash, eviction or lost socket, and two runs let a late
request meet the next session. In `control` a queue of two is overflowed by three commands,
and two challenges let two logins of one operator overlap. In `catalog` the
hard cases are a double header, clubs of two sports under the same codes, labels in
either order, spread and total tickers, unreadable tokens and repeated events; the
calendar instance has every day of two years, at 13:30 and in the last hour of the day, which
crosses midnight UTC and, over the days, four changes of the clock. Two of these
starts, at 23:30 on the eve of the switch to daylight saving, the code misdates, and
`OpenGamesPair` excepts them by name (`Misdated`). One event that closes while two are read
makes the offset pass over the other: `OpenGamesPair` allows a lost game for each event
closed, none for an event opened, and none if nothing closed.

The run `engine_ids` is expected to find a violation. `event.rs:52` calls the outcome of an
event an identifier "within the market", and the engine's books have room for a fixed
few per market. The registry numbers outcomes across the whole catalog, the bridge
passes that number on, so the feeds of every market but the first few write outside their
market's books and are ignored: with two games paired, the second is never evaluated.

Fairness. `ring`: the consumer keeps polling (weak fairness of its steps), which is the
engine's spin loop. `session`: the runner's own steps are weakly fair (it is a
loop with timeouts on every call), and a poll that is tried again and again succeeds
eventually; venues may never settle, which the property allows.
`pipeline`: the bridge and the engine are threads of their own and are weakly fair;
nothing is assumed of feeds, venues or the runner. `orders`: the window loop
reconciles every time round; faults are finitely many, so polls succeed in the end.
`room`: time passes, the platform runs a due alarm, the browser its timers; nothing is
assumed of runner and writer. `control`: a running runner polls every window.

`CHECK_DEADLOCK FALSE` appears where the program may stop: after the session or the
pipeline ended, or when the bounded input is used up (frames, signals, commands, ticks).

The type invariants of `SpscRing` and `ProdTrader` are proved and in no run; those of the
other modules can be checked by adding `TypeOK` (`EngineTypeOK` in `Aggregator`) to the run's `.cfg`.

## Proofs

`SpscRingProofs` proves, for every capacity of at least 2, every set of items and every
slot type that keeps `SlotContract`: `TypeCorrect`, `Delivery`, `Exclusion`, `Exactness`,
`Stability` and `Refinement`. The inductive invariant ties each slot's turn to the number of
items pushed and popped: a slot's turn is its position's next push or the item it holds,
the producer inside a slot has a free turn and the consumer inside a slot has a
published one, and unread slots hold their items whole. Delivery alone is not
inductive, since it says nothing of the slots a pop will read. The contract is then
shown of both slot types of the engine, for all events and signals and whatever the
slot held before (`FeedSlotContract`, `SignalSlotContract`): the numbers an item leaves
alone are not the numbers its load looks at.

`ProdTraderProofs` proves, for every set of markets, stakes, limits and launches:
`TypeCorrect`, whatever the disk does; and, under the assumption that the state file
always loads (`StoreOutcomes` is within ok and saveFails), `Recovery`
(`NoOrderUnrecorded`) and `CleanRestart` (`RestartIsClean`). The inductive invariant
`RecoveryInv` has three parts: the types; `PlanInv`, which says for each program
counter which legs of the current plan are already durable and that none is sent
before both are; and `OrderInv`, which says that entries of the file and of the
reconciler stand for the newest order with that id, and that a settlement about to be
applied is for a leg the venue has finished with. `NoOrderUnrecorded` is not inductive
because a `ClearInflight` could remove an open order's entry: that it does not rests on
`OrderInv`. The assumption is needed: see below.

Four more results are of the same generality. `Hedges`
(`HedgedOrFlat`), whatever the disk does: the invariant `PlanLegs` says what is known of
the plan in hand, that a full reply means a whole leg and that the legs the unwind has
passed are unwound unless they were refused. `Polling` (`FillsStayPolled`), whatever the
disk does: both entries of a plan are in the reconciler from before its submission,
and those below `step` have their order ids during the acknowledgement; a later plan
only replaces entries of its own market, and a poll only removes terminal orders.
`Limits` (`LimitsHold`), when every store call works: file and gate carry the first
session's limits, and the plan being submitted is within them. The assumption is
needed: if the first checkpoint fails, nothing is stored, and a later launch brings its own
limits. `Conservation` (`CapitalConserved`), whatever the disk does: at each
venue, cash and the stakes that the session's plans still hold add up to what it began with. `CapitalInv` adds
that the plan in hand is one of this session's and, through `PlanLegs`, which of the
program counters come after its stake was taken and before it was given back; the
step of each action is then `SumSplits` at the one plan it changes.

`LivePipelineProofs` proves, for every set of markets and frames and every capacity,
`Order` (`InOrderOnce`), `Halted` (`HaltedUntilSnapshot`), and, for a positive cooldown,
`Spacing` (`SignalsSpaced`). The order property is not inductive once the bridge drains:
events that a full ring refuses are then dropped, and what the engine has seen stays a
prefix only because it takes at most one more step after the stop (`DrainInv`). The spacing
rests on the last emission of a market being at least as late as its signals; with a
cooldown of zero it fails when the clock goes back.
`GapsNeverTrusted` (`NoGapTrusted`) is about the venue's count of changes, which the code never
sees, and needs two invariants. `ChainInv` is about the feeds: of any two events sent on one
connection for one book, the one whose number follows the other's is also the next
change. `BookInv` is about the engine: a book in service was left as it is by an event that it
processed, and every change it has folded since its snapshot followed the one before.
`TapeComplete` (`TapeFaithful`) rests on `QueueInv`, that hand and channel are the end of what was
sent, and `TapeInv`, that the tape is ahead of the bridge by the event in hand at most.

`VenueOrdersProofs` proves, for every finite set of orders, all stakes, prices, frames and
numbers of restarts, `Closure` (`ClosedOnceAtTheEnd`) and `Bookkeeping`
(`ProfitBookedOnce`). The first rests on `Life`, which ties reply, in-flight set and venue of
each order, and `Ended`: an order is in flight until it is closed, is closed once, and only
when its venue is done with it. The second on `PrintsAgree`: a fingerprint with a profit is in the ledger only for an order whose settlement was
told, and then the final one is there, so the profit is new exactly once, whatever is
repeated by streams, polls and restarts.

`OperatorProofs` proves, for every roster, set of browsers and bounds, `Exclusion`
(`LoginsAreExclusive`) and `DeadStayDead` (`DeadTokensStayDead`). The invariant says where a
nonce may be, in a challenge, in a login being verified or among the granted, never in
two of them, that an operator's sessions are replaced at the grant, and that a live
token is not among the dead. `Obedience` (`CommandsAreObeyed`) is about the commands:
`CommandInv` says that the ids in the queue are consecutive and end below the next one
(`QueueInv`), that an answer under way is in order and above the mark (`AnswerInv`), that
what was applied is in order and at or below it (`AppliedInv`), that the switch is as launched
until a switch command is applied (`LaunchInv`), and that within one life of room
and runner the answer agrees with the queue, has every queued command between the mark and
its own last one, and the switch is as the last queued command at or below the mark says
(`SwitchInv`).

`LiveStreamProofs` proves, for every sequence of paper and production runs, all capacities of
rings, batches and attempts, and any number of rows, statistics and faults, the five safety properties
of the stream. `StreamSound` has the two invariants they share. `WriterInv`: what
waits in the channel, in the buffer and in the batch under way, and what the
runner gave up for late handling, are frames of its run, with numbers up to the last one used
(`OwnFrames`), and the end of a session comes last in whatever it is sent in. `RoomInv`: the
counted rows are in order, at or below the cursor, the ring is their tail, and a
connected viewer that *will have read* its mail shows the room's run, status and totals.

- `OnceCounted` (`CountedOnce`), `NoRowTwice` (`NoRowTwiceOnScreen`) and `ViewersAgree`
  (`ViewerAgrees`) follow from these. A request is a fold over its frames, which is here a
  function that obeys its recursion (`IngestUnfolds`, `SeenUnfolds`), so a bounded induction
  (`Iterates`) gives what it does. That the end comes last is why a refused
  request has changed nothing: an ended session refuses the first frame or none, and a room that
  tells nobody of a refusal has nothing to tell.
- `HeartbeatsBridge` (`NeverFalselyStale`) needs `BeatInv`: as long as nothing has failed and the run
  is heard, the session is live and at most one tick old, and when it is one tick old
  the writer is due to beat or holds something to send. Time does not pass before it has.
- `GapsReported` (`GapsAreReported`) needs `GapInv`, as the property says nothing of the order
  of what is under way. With the batch under way, the buffer and the channel as one
  line: frames of the line are in order (`Ordered`: what counts or passes a number comes
  before the rows beyond it, and a start comes before everything but heartbeats); requests that may still
  arrive late repeat the batch under way or come before it; the cursor is not beyond
  the runner; and either the line holds a start and every row of the run, or a row
  is counted, on the line or excused (dropped, wiped), and those the cursor has passed are
  counted or excused already. That last part is what fails without the order: statistics
  that overtook a row would move the cursor past it and the room would discard the row unreported.
  The case left out, `astray`, is a start that is dropped or handled late, or a request of an
  earlier run handled in a later one: then the rows of the new run may be counted into the old session
  or vanish with the late start, which the summary does not report.

`DataLemmas` has what the proofs need of data. Quotients: how they round and in what they
are monotone, which the provers do not find where a product is nonlinear. Sums: the library
defines a sum by recursion over the subsets of a set, and the library's induction theorems
are out of the provers' reach; `SumSplits` is shown from the fact that a set of numbers
has a least element: a set of the smallest size for which the recursion fails does not
exist. `SumByValue` regroups a sum by the value of another function (what moves at each venue
adds up to what moves). The same principle gives `Iterates`, that what one round of a bounded loop keeps the loop
keeps (the splitting and repairing of stakes, the search), and `Places`, that a finite set in a
strict order has exactly one member at each place (the candidates, the outcomes, the chunks).

`DataLemmas` also has what alignment promises, for all lines and results: `ValidatedPairsHedge` (off the line exactly
one outcome of a validated pair wins), `SpreadKeepsTheBet`, `OthersKeepTheBet` (turning a
bet to the home club keeps its meaning) and `MirroredLinesValidate`. It is the arithmetic
under the catalog's `OutcomesPayAlike`, for the conventions the tape uses.

`PaperTraderProofs` is about detection, the engine and the paper runners: for every number of
outcomes from two to four, every number of venues, all fees, increments, survival rates, books
and budgets, and every scale of the units. It assumes that venues are registered with an increment of at
least one and a fee (`MarketIsRegistered`), that units and bounds are positive
(`UnitsArePositive` and its like in `Fees` and `Detection`), and that books hold levels priced
within `Prob` (`BooksAreLevels`, `MarketsAreBooks`), which is what its constructor enforces.

- `Guarantee` (`GuaranteedWhateverSettles`). The state says nothing of how a signal arose, so
  the invariant is `Sound`: the result is no plan, or its allocations go one to one with legs of
  registered venues, each within the discounted depth of its leg, and they pay, in every outcome, what all
  cost and the reported profit. That an evaluation is sound follows the code: every stake that
  `Distribute` hands out is whole increments of what rests at a chunk, through freezing,
  rounding and repair (`Feasible` plans only); whatever `Search` has found is the worst
  case of such a plan; `Report` drops the empty chunks, which pay and cost nothing; and the
  level that a leg executes is the one its candidate came from, fee included.
- `NeverWorse` (`NeverWorseThanSingleQuote`). On books cut down to the cheapest candidate of each
  outcome, one chunk per outcome is left, and on those the closed form offered first is the
  equal-payoff plan; a search never ends below what it was offered, and `Decide` keeps
  the better of both evaluations. What needs an argument is that a positive plan gets as far as
  the search: its chunks are usable, and its prices add up to less than the unit,
  for at parity no stakes gain in every outcome (`NoProfitAtParity` is the case of two).
- `Hedges` (`HedgesAreHedged`) and `Promise` (`PromiseKept`), for every policy, opening balance,
  front run, tape and number of signals, with arrival prices within `Prob` and a front run
  that is not negative (`ArrivalsArePriced`). The invariant `TradeInv`
  adds to the two properties that every signal collected is one the engine emitted, hence `Sound`; the step
  that matters is `Trade`, whose report is that of `Simulate` on some arrival. `Hedges` then needs that a plan
  has a leg for every outcome, chased or not, and that the least a leg pays bounds what the
  outcome pays. `Promise` rests on `Sound`, on the fees being monotone in the price (odds are
  antitone, rounded or not), and on the depth: a stake is within the discounted
  depth, and a venue that holds back no more than the discount leaves at least that.
- `Money` (`BankrollFollowsReports`) and `Balances` (`TypeOK`), for opening balances that
  `Bankroll::new` accepts (`OpeningBalances`) and any bound on the signals (`SessionBound`). The
  property alone is not inductive: `SessionInv` adds the types, with balances that are never
  negative, and the tallies. An attempt that cannot be funded gives back what it reserved
  (`GivenBack`). A funded one has reserved at each venue no more than is there
  (`ReservedWithin`: the last order at a venue was tried against all of them), and then
  `SettledAt`, venue by venue: unfilled and filled parts make up the orders (`VenueMoves`), so
  nothing stays locked, and the venue has lost what was filled there and
  gained the winner's payout if it is the winner's. Added up over the venues (`SumByValue`) that is
  the filled stake, and when no leg or every leg is filled, which is all that a class other than
  `broken_leg` leaves, the difference is the realized profit (`WonIsRealized`).
- `StandDown` (`StandsDown`) speaks of single steps and needs `GateInv`: no
  signal is held between windows, which is where the switch changes, and none is held
  while a window is settled under an engaged switch.
- `NoProfitAtParity`: for every unit, every two effective prices
  that together reach the unit, and all stakes, one of the two outcomes returns no more
  than was staked. This is the comment at `arb.rs:708` for two outcomes, with the rounding
  of payouts, and it justifies the early return of detection.

Model-checked only:

- liveness (`EveryItemDelivered`, `SettledIsClosed`, `EventsReachEngine`, `DoneOrdersClose`,
  `SilenceIsNoticed`, `CommandsArrive`), which the prover cannot handle;
- the catalog (`PairsHedge`, `OpenGamesPair`, `OutcomesPayAlike`): they hold of listings that tell
  the truth about what they are, which the instance provides; what pairing
  contributes for all lines is proved in `DataLemmas` (`ValidatedPairsHedge` and the results next to it).

## What the models show beyond the runs

These follow from the models. Where a definition is named, adding it as an invariant to the
run's `.cfg` shows the counterexample.

Execution and its state file:

- `spsc_ring` accepts one slot (`ring.rs:85`); then the turn a push publishes is the
  turn the next push waits for, and a full ring overwrites its item. The programs use
  1024 and 4096 slots, and the properties are stated for two or more.
- Both legs are registered before preflight, and a rejected plan leaves them registered
  (`prod_trader.rs:1712`): the next live launch refuses to start over orders that were
  never sent, although `state.rs:22` calls in-flight those "whose submission may have
  reached a venue" (`InflightMayHaveReachedVenue`, run `trader`).
- A leg whose submission timed out is taken as rejected (`lib.rs:490`); its capital is
  released and it may fill afterwards, so a live-phantom need not be flat, although
  `lib.rs:382` says its filled legs "were unwound" (`PhantomIsFlat`, run `trader`).
- The client order id is market, venue and outcome (`lib.rs:96`): a second plan on a market
  replaces the first one's acknowledged entries by unacknowledged ones, which are never
  polled, although `prod_trader.rs:1956` keeps orders so that none is orphaned
  (`NoneOrphaned`, run `trader`). `FillsStayPolled` is about the newest plan on each market.
- A failed unwind of the first leg returns through `?` before the second leg's unwind
  (`lib.rs:494`), also when that leg was accepted.
- A crash between `clear_inflight` and the checkpoint after it (`prod_trader.rs:1841`)
  leaves `open_trades` counting a hedge with no order left to bring it down.
- A state file that cannot be read is replaced by an empty one at the next
  `register_inflight` or `checkpoint`, which erases the recovery set; this is why
  `Recovery` assumes that it loads.
- A dry-run launch is not stopped by in-flight entries and never drains them.
- `open_trades`, the "Number of unsettled trades" (`lib.rs:288`), goes up once per hedge
  and down once per settled leg (`lib.rs:363`, called at `prod_trader.rs:1837`), and
  saturates at zero, which hides it.
- Polled settlements carry no profit (`prod_trader.rs:1042`): the daily loss stays where it
  was, so the loss cap cannot bind in a session.

Orders and ledger:

- The Kalshi adapter sends the stake in cents as the number of contracts at the leg's
  price (`kalshi.rs:202`), although `lib.rs:192` calls it "Stake requested in cents": a whole
  fill costs the stake times the price in cents (`SpendsItsStake`, run `orders`).
- A restatement that adds the settlement carries the fee again and has another
  fingerprint, so the fee is booked twice (`state.rs:322-343`; `FeesBookedOnce`, run `orders`).
  A change of status alone has the same fingerprint and is ignored, and a later
  statement overwrites an order's fill even when it is the older one.
- Unwinding a filled fill-or-kill order cancels it at the venue (`kalshi.rs:216`), which
  has nothing left to cancel.

Pipeline:

- Yes, no and trade frames share one numbering, but each book expects its own next number
  (`engine.rs:119`, `book.rs:89`): with no frame lost, the second book goes stale
  (`LosslessStaysFresh`, run `books`).
- The tape is written on every push attempt (`prod_trader.rs:1468`), so an event that
  met a full ring appears more than once; `TapeFaithful` therefore allows an entry to be
  the event of the one before it.
- A signal dropped at a full signal ring has already started its market's cooldown
  (`engine.rs:161`).
- A gap halts the market of the frame that revealed it. A skipped frame of another
  market on the connection leaves that market's book in service until its own next
  delta.
- A delta replaces the whole book by its one level (`engine.rs:120-124`), although
  `event.rs` describes it as updating or deleting a price level.
- A Polymarket delta never passes `accept_seq`, since its number reads as 0.
- Nothing tells the engine of a lost connection (`live/kalshi.rs:121`): the books of the venue
  stay in service until the next frame, although `book.rs:110` speaks of marking them "on
  disconnect".

Detection and paper trading:

- The price after a maker rebate is rounded down, which is in the bettor's favour by
  at most one price unit, while `fee.rs:45` says that the rebate "never overstates the
  benefit".
- Detection is a heuristic. A best quote smaller than one increment still occupies its
  slot, the list of chunks is cut at `MAX_CHUNKS`, and the halving search assumes that
  feasibility is monotone in the payout; so a smaller profit than the best one may be
  returned, or none. `GuaranteedWhateverSettles` holds for whatever is returned.
- A plan may back one outcome at two venues. The simulator takes its profit as the
  minimum over legs rather than over outcomes (`accounting.rs:71`): such a plan, filled in
  full at the quoted prices, is reported as unprofitable. `PromiseKept` is therefore
  stated for plans with one leg per outcome.
- When one leg of a hedge stays unfilled, settlement lets the least paid of the filled
  legs win (`pipeline.rs:1024`, "least favorable return"), though the outcome of the
  unfilled leg is the unfavourable one: the bankroll is credited while the report shows a
  loss. `BankrollFollowsReports` leaves these executions out.
- The chase gate compares the sum of the chased prices over legs with the unit
  (`simulator.rs:471`), while the stakes remain those of the old prices.

Room, viewer and commands:

- The paper runner's cursor is one ahead of the rows it sent (`main.rs:887`): the room
  takes a row as accounted for that never arrived (`state.ts:138-141`).
- The paper writer never resets the age of its oldest buffered frame (`stream.rs:169`),
  so after its first flush it stops sending heartbeats. `NeverFalselyStale` is stated for
  the production writer.
- A retried batch that ends the session is answered 409 and counted as dropped though it
  was applied (`position-room.ts:380`); a late request of an earlier run adds to the next
  session or ends it, and a late session-start wipes its totals. `GapsAreReported` leaves
  out behaviours in which a late request was overtaken.
- Of a batch the room relays only the last positions frame (`position-room.ts:390`); the
  viewer ignores gauges that come with unchanged totals (`liveSession.ts:142-150`).
- Commands stay in the queue and are returned again to a runner that restarted with mark 0
  (`main.rs:631`); an evicted room numbers from 1 again, below a running runner's mark
  (`position-room.ts:78`). `CommandsAreObeyed` and `CommandsArrive` are about one life of each.
- A command is authenticated before its body is awaited (`position-room.ts:150`): its session
  may be over when it is queued. A lost answer is shown as refused (`useOperator.ts:127`).

Catalog:

- Games are paired by codes and day; neither the sport nor the time is compared
  (`discovery.rs:591`), although `discovery.rs:22` says that a proposition pairs "only when exactly
  one open Kalshi moneyline event shares its clubs and date": a double header, or two sports
  with the same codes, pair across games (`PairsAreOneGame`, run `catalog`).
  `PairsHedge` and `OpenGamesPair` are about games alone with their codes on their day.
- A code unknown in its sport falls back to another sport's club (`team.rs:1496`): `dal` or
  `phi` under football or hockey names may become a basketball club.
- An offset with `+` in a start stamp is read as UTC (`discovery.rs:985`).
- `discovery.rs:945` promises the calendar date in US Eastern time of a start, and adds that
  only "instants inside the 02:00 local switch" resolve as summer time, "which no scheduled
  game start touches". The code decides by the date of the stamp four hours behind UTC
  (`discovery.rs:996`): from 23:00 EST of the eve of the second Sunday of March, 04:00Z to
  05:00Z, a start is dated a day late and its game is not paired (`StartsAreDatedEastern`,
  run `catalog`).
- A token that cannot be read as a number blocks its listing after its other token was
  registered (`discovery.rs:510`).
- An event that is read twice because the list moved is not counted as skipped.

## Not modelled

- Request signing, HTTP, JSON, cookies, PEM and file formats; the text of tickers, titles and
  prices (taken as records of their parts); logging and rendering.
- Rate limiter, circuit breaker and stale-feed guard (`state.rs`): sequential counters over a
  clock the caller passes in, which no program of the repository calls.
- The tape codec: a fixed layout written by one thread and read back from the start. What is
  written and when is `LivePipeline`'s.
- Latency histogram, proof files, secret scan, trades ledger, dashboard pages:
  pure functions or output.
- Of `prod_trader.rs`, the frames it prints and its proof files; of `arbkit-sim`, whole-book
  simulation and the exact Kalshi fee schedule; of `arbkit-core`, the deprecated `detect`
  and price notations other than ppm and decimal odds.

The prices, sizes and fees a plan carries are abstract in `ProdTrader` (a stake and an
edge) and absent from `LivePipeline`; they are the subject of `Detection`, `Aggregator` and
`PaperTrader`. Orders are whole in `ProdTrader`, and what their requests and fill frames
say is `VenueOrders`'. `PROJECT.json` lists every component with its status.
