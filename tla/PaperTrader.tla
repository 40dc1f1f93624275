---------------------------- MODULE PaperTrader -----------------------------
(***************************************************************************)
(* The trading loop of the paper runners (arbkit-engine examples/          *)
(* live_runner/main.rs and examples/pipeline.rs): signals are collected,   *)
(* gated by the kill switch, funded from the bankroll, executed by the     *)
(* simulator and settled.                                                  *)
(*                                                                         *)
(* runner is the program that runs.  "live" works in windows, has a kill   *)
(* switch and skips a repeated opportunity; "pipeline" makes one pass over *)
(* all signals and may take arrival prices from a tape.  policy is the     *)
(* simulator's chase policy, which both leave disabled and its other       *)
(* users set.  Signals are what the engine emits on MarketBooks.           *)
(***************************************************************************)
EXTENDS Aggregation, Bankroll, Simulator

CONSTANTS MarketBooks,      \* the books of the market on which signals arise
          InitialPerVenue,  \* opening balance per venue
          Policies,         \* chase policies
          TapePrices,       \* best prices that a tape shows on arrival
          DECAY, DECAY_CAP, \* the scripted move in flight, and its ceiling
          MaxSignals        \* bound: signals of a session

ASSUME MarketsAreBooks == MarketBooks \subseteq [Sides -> Seq(Quotes)]

ASSUME ArrivalsArePriced ==
    /\ TapePrices \subseteq Probs /\ DECAY \in Nat /\ DECAY_CAP \in Probs
    /\ \A v \in 1 .. VenueCount : FrontRun[v] \in Nat

ASSUME OpeningBalances ==
    InitialPerVenue \in Seq(Nat) /\ Len(InitialPerVenue) <= MAX_BANKROLL_VENUES

ASSUME SessionBound == MaxSignals \in Nat

VARIABLES runner, policy,
          phase,      \* "between" windows, "window", "settling", "ended"
          killed,     \* kill_switch_engaged
          ending,     \* operator_end_requested
          emitted,    \* signals so far
          collected,  \* signals of this window
          last,       \* last_emitted_signal
          bankroll,
          stats,      \* the counters of SimulationStats and its realized profit
          report      \* the last ExecutionReport and what it reports on

vars == <<runner, policy, phase, killed, ending, emitted, collected, last,
          bankroll, stats, report>>

\* What crosses the ring: a signal and its plan.
Emissions == {Evaluation(b) : b \in MarketBooks} \ {NoPlan}

NoReport == [class |-> "none"]

(***************************************************************************)
(* Arrival prices                                                          *)
(***************************************************************************)
AsQuoted(legs) == [i \in DOMAIN legs |-> legs[i].quoted]

Decayed(legs) == [i \in DOMAIN legs |-> Lesser(legs[i].quoted + DECAY, DECAY_CAP)]

SideOf(leg) == <<leg.outcome, leg.venue>>

\* The tape has the best price of a book, or nothing: then the quote stands.
FromTape(legs) ==
    LET tapes == [{SideOf(legs[i]) : i \in DOMAIN legs} -> TapePrices \cup {NoQuote}]
    IN  {[i \in DOMAIN legs |-> IF tape[SideOf(legs[i])] = NoQuote THEN legs[i].quoted
                                ELSE tape[SideOf(legs[i])]] : tape \in tapes}

Arrivals(legs) ==
    {AsQuoted(legs), Decayed(legs)} \cup (IF runner = "pipeline" THEN FromTape(legs) ELSE {})

(***************************************************************************)
(* Settlement                                                              *)
(***************************************************************************)
\* The filled part of each order stays locked, the rest is released.
Reconcile(b, results) ==
    CommitFill(b, [i \in DOMAIN results |->
                      [venue |-> results[i].venue,
                       amount |-> results[i].requested - results[i].filled]])

\* Mutant of Winner: the leg with the best payout is taken to win.
BestPaid(results, filled) ==
    Min({i \in filled : \A k \in filled : results[i].net_payout >= results[k].net_payout})

\* The leg with the least payout, the first one on a tie.
Winner(results, filled) ==
    Min({i \in filled : \A k \in filled : results[i].net_payout <= results[k].net_payout})

\* The winner is paid and the other filled legs are lost.
Settle(b, results) ==
    LET filled == {i \in DOMAIN results : results[i].filled > 0}
        w      == Winner(results, filled)
    IN  IF filled = {} THEN b
        ELSE SettleLegs(b, [i \in filled |-> [venue  |-> results[i].venue,
                                              amount |-> results[i].filled]],
                        w, results[w].net_payout)

\* SimulationStats::record
Record(s, execution) ==
    [s EXCEPT !.total_signals      = @ + 1,
              !.attempted          = @ + 1,
              !.clean_fills        = @ + (IF execution.class = "clean" THEN 1 ELSE 0),
              !.proportional_fills = @ + (IF execution.class = "proportional" THEN 1 ELSE 0),
              !.total_phantoms     = @ + (IF execution.class \in {"clean", "proportional"}
                                          THEN 0 ELSE 1),
              !.broken_legs        = @ + (IF execution.class = "broken_leg" THEN 1 ELSE 0),
              !.realized           = @ + execution.realized]

RecordCapitalShort(s) ==
    [s EXCEPT !.total_signals = @ + 1, !.capital_short = @ + 1]

(***************************************************************************)
(* The loop                                                                *)
(***************************************************************************)
Init ==
    /\ runner \in {"live", "pipeline"}
    /\ policy \in Policies
    /\ phase = "between"
    /\ killed = (runner = "live")
    /\ ending = FALSE
    /\ emitted = 0
    /\ collected = <<>>
    /\ last = NoPlan
    /\ bankroll = NewBankroll(InitialPerVenue)
    /\ stats = [total_signals |-> 0, attempted |-> 0, capital_short |-> 0,
                clean_fills |-> 0, proportional_fills |-> 0, total_phantoms |-> 0,
                broken_legs |-> 0, realized |-> 0]
    /\ report = NoReport

\* Operator commands land between windows; disarming needs a confirmation.
KillSwitch(engage, confirm) ==
    /\ runner = "live" /\ phase = "between"
    /\ engage \/ confirm
    /\ killed' = engage
    /\ UNCHANGED <<runner, policy, phase, ending, emitted, collected, last,
                   bankroll, stats, report>>

SessionEnd ==
    /\ runner = "live" /\ phase = "between"
    /\ ending' = TRUE
    /\ UNCHANGED <<runner, policy, phase, killed, emitted, collected, last,
                   bankroll, stats, report>>

OpenWindow ==
    /\ phase = "between"
    /\ phase' = "window"
    /\ UNCHANGED <<runner, policy, killed, ending, emitted, collected, last,
                   bankroll, stats, report>>

Collect(e) ==
    /\ phase = "window" /\ emitted < MaxSignals
    /\ emitted' = emitted + 1
    /\ collected' = Append(collected, e)
    /\ UNCHANGED <<runner, policy, phase, killed, ending, last, bankroll, stats, report>>

\* Mutant of CloseWindow: the gate looks at the switch after settling only.
CloseWindowUngated ==
    /\ phase = "window"
    /\ phase' = "settling"
    /\ UNCHANGED <<runner, policy, killed, ending, emitted, collected, last,
                   bankroll, stats, report>>

\* The kill-switch gate drops everything that was collected.
CloseWindow ==
    /\ phase = "window"
    /\ phase' = "settling"
    /\ collected' = IF killed THEN <<>> ELSE collected
    /\ UNCHANGED <<runner, policy, killed, ending, emitted, last, bankroll, stats, report>>

Repeated == runner = "live" /\ Head(collected) = last

\* same_opportunity: the live runner passes over a repeated signal.
SkipRepeated ==
    /\ phase = "settling" /\ collected # <<>> /\ Repeated
    /\ collected' = Tail(collected)
    /\ UNCHANGED <<runner, policy, phase, killed, ending, emitted, last,
                   bankroll, stats, report>>

\* One signal: reserve every leg or none, execute, reconcile and settle. A
\* trade that cannot be funded gives back what it had reserved.
Trade(prices) ==
    LET e         == Head(collected)
        stakes    == [i \in DOMAIN e.plan |-> e.signal.allocations[i].stake]
        orders    == [i \in DOMAIN e.plan |-> [venue |-> e.plan[i].venue, amount |-> stakes[i]]]
        reserved  == Reserved(bankroll, orders)
        gate      == Reserve(bankroll, reserved)
        execution == Simulate(policy, e.plan, stakes, prices)
    IN  /\ collected' = Tail(collected)
        /\ last' = e
        /\ IF reserved = orders
           THEN /\ bankroll' = Settle(Reconcile(gate, execution.results), execution.results)
                /\ stats' = Record(stats, execution)
                /\ report' = [class |-> execution.class, chased |-> execution.chased,
                              results |-> execution.results, realized |-> execution.realized,
                              prices |-> prices, plan |-> e.plan,
                              expected |-> e.signal.worst_case_profit]
           ELSE /\ bankroll' = CommitFill(gate, reserved)
                /\ stats' = RecordCapitalShort(stats)
                /\ report' = NoReport
        /\ UNCHANGED <<runner, policy, phase, killed, ending, emitted>>

TradeNext ==
    /\ phase = "settling" /\ collected # <<>> /\ ~Repeated
    /\ \E prices \in Arrivals(Head(collected).plan) : Trade(prices)

\* The pipeline makes one pass, the live runner stops where it was told to.
EndWindow ==
    /\ phase = "settling" /\ collected = <<>>
    /\ phase' = IF ending \/ runner = "pipeline" THEN "ended" ELSE "between"
    /\ UNCHANGED <<runner, policy, killed, ending, emitted, collected, last,
                   bankroll, stats, report>>

Next ==
    \/ \E engage, confirm \in BOOLEAN : KillSwitch(engage, confirm)
    \/ SessionEnd
    \/ OpenWindow
    \/ \E e \in Emissions : Collect(e)
    \/ CloseWindow
    \/ SkipRepeated
    \/ TradeNext
    \/ EndWindow

Spec == Init /\ [][Next]_vars

(***************************************************************************)
(* Properties                                                              *)
(***************************************************************************)
Classes == {"none", "clean", "proportional", "unprofitable", "asymmetric",
            "broken_leg", "price_moved", "depth_exhausted"}

\* Balances are amounts of money: no order is funded with what is not there.
TypeOK ==
    /\ runner \in {"live", "pipeline"} /\ policy \in Policies
    /\ phase \in {"between", "window", "settling", "ended"}
    /\ {killed, ending} \subseteq BOOLEAN
    /\ emitted \in 0 .. MaxSignals
    /\ collected \in Seq(Emissions) /\ last \in Emissions \cup {NoPlan}
    /\ bankroll \in [available : [InRange -> Nat], locked : [InRange -> Nat]]
    /\ report.class \in Classes
    /\ stats.total_signals = stats.attempted + stats.capital_short
    /\ stats.attempted = stats.clean_fills + stats.proportional_fills + stats.total_phantoms

Traded == report.class # "none"

\* Between two signals nothing is reserved (main.rs: "must not leak locked
\* capital"), and as long as no leg was left alone, the bankroll has gained
\* exactly the realized profit that the statistics report (main.rs: "assume the
\* worst-payout side wins").
BankrollFollowsReports ==
    /\ \A v \in InRange : bankroll.locked[v] = 0
    /\ stats.broken_legs = 0 =>
        SumFunction(bankroll.available) = SumFunction(InitialPerVenue) + stats.realized

PaidFor(o) ==
    SumFunction([i \in {i \in DOMAIN report.results : report.results[i].outcome = o} |->
                    report.results[i].net_payout])

\* An execution that counts as clean or as a proportional fill is a hedge:
\* whichever outcome settles pays more than all filled stakes together.
HedgesAreHedged ==
    report.class \in {"clean", "proportional"} =>
        \A o \in 1 .. OutcomeCount : PaidFor(o) > FilledStake(report.results)

\* A plan with one leg per outcome that arrives at prices no worse than quoted,
\* at venues that keep the depth the sizing counted on, is a clean fill and
\* earns at least the profit that detection promised: the discount is applied
\* exactly once and both sides round the same way.
PromiseKept ==
    (/\ Traded
     /\ \A i, j \in DOMAIN report.plan :
           report.plan[i].outcome = report.plan[j].outcome => i = j
     /\ \A i \in DOMAIN report.plan :
           LET leg == report.plan[i] IN
           /\ report.prices[i] <= leg.quoted
           /\ FrontRun[leg.venue] + VenueSurvival[leg.venue] <= BPS)
    => report.class = "clean" /\ report.realized >= report.expected

\* While the kill switch is engaged nothing is sized, reserved or settled, and
\* what was collected meanwhile is not traded after the switch is disarmed.
StandsDown ==
    [][/\ killed => UNCHANGED <<bankroll, stats, report>>
       /\ killed /\ ~killed' => collected' = <<>>]_vars
=============================================================================
