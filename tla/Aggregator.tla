----------------------------- MODULE Aggregator -----------------------------
(***************************************************************************)
(* The engine over one market: an event changes a book, then the market is *)
(* evaluated.  Sequencing and staleness of the books are the subject of    *)
(* LivePipeline; here a book may become anything in Books.                 *)
(***************************************************************************)
EXTENDS Aggregation

CONSTANT Books             \* the level sequences a book may hold

ASSUME BooksAreLevels == Books \subseteq Seq(Quotes)

VARIABLES books,   \* levels per <<outcome, venue>>
          fresh,   \* whether result is the evaluation of books
          result   \* [signal, plan] of the last evaluation

engineVars == <<books, fresh, result>>

(***************************************************************************)
(* The engine applies one event to one book and evaluates the market.      *)
(***************************************************************************)
EngineInit == books = [s \in Sides |-> <<>>] /\ fresh = TRUE /\ result = NoPlan

\* Several events may come before an evaluation, during a cooldown.
ApplyEvent(s, b) ==
    /\ books' = [books EXCEPT ![s] = b]
    /\ fresh' = FALSE
    /\ result' = NoPlan

EvaluateMarket ==
    /\ ~fresh
    /\ fresh' = TRUE
    /\ result' = Evaluation(books)
    /\ UNCHANGED books

EngineNext ==
    \/ \E s \in Sides, b \in Books : ApplyEvent(s, b)
    \/ EvaluateMarket

EngineSpec == EngineInit /\ [][EngineNext]_engineVars

(***************************************************************************)
(* Properties                                                              *)
(***************************************************************************)
\* The result is a plan or nothing: the inputs that detect_book refuses are
\* never built, and allocations and execution legs go one to one.
EngineTypeOK ==
    /\ books \in [Sides -> Books]
    /\ fresh \in BOOLEAN
    /\ result.signal.kind \in {"none", "signal"}
    /\ result.signal.kind = "signal" =>
        /\ DOMAIN result.plan = DOMAIN result.signal.allocations
        /\ Len(result.plan) \in OutcomeCount .. MAX_CHUNKS

Signalled == result.signal.kind = "signal"

Staked(A) == SumFunction([a \in A |-> result.signal.allocations[a].stake])

\* What the venues pay for the allocations in A when their outcome settles.
Paid(A) ==
    SumFunction([a \in A |-> (result.signal.allocations[a].stake * PPM)
                               \div Effective(result.plan[a].fee, result.plan[a].quoted)])

\* Executing the legs as planned earns at least the reported profit, which is
\* positive, whichever outcome settles (worst_case_profit).
GuaranteedWhateverSettles ==
    Signalled =>
        /\ result.signal.worst_case_profit > 0
        /\ \A o \in 1 .. OutcomeCount :
              Paid({a \in DOMAIN result.plan : result.plan[a].outcome = o})
                >= Staked(DOMAIN result.plan) + result.signal.worst_case_profit

\* The cheapest candidate of each outcome.
Cheapest(cands) == [o \in 1 .. OutcomeCount |-> cands[Coverage(cands)[o]]]

\* Reference: the equal-payoff plan on one quote per outcome, the sizing that
\* the search replaced, as [price, stake] per outcome.
EqualPayoffPlan(top) ==
    LET sum   == SumFunction([o \in 1 .. OutcomeCount |-> top[o].eff_ppm])
        spend == Min({Budget} \cup
                     {(top[o].size * sum) \div top[o].eff_ppm : o \in 1 .. OutcomeCount})
    IN  [o \in 1 .. OutcomeCount |->
            [price |-> top[o].eff_ppm,
             stake |-> RoundDownTo((spend * top[o].eff_ppm) \div sum,
                                   VenueIncrements[top[o].venue])]]

\* What a plan of one stake per outcome guarantees.
WorstCase(ref) ==
    Min({(ref[o].stake * PPM) \div ref[o].price : o \in DOMAIN ref})
        - SumFunction([o \in DOMAIN ref |-> ref[o].stake])

\* Depth, line shopping and the payout search never earn less than the
\* single-quote plan they replaced (arb.rs: "so the answer can never be worse
\* than the one this module produced before").
NeverWorseThanSingleQuote ==
    fresh /\ (\A o \in 1 .. OutcomeCount : Of(Candidates(books), o) # {}) =>
        LET ref == EqualPayoffPlan(Cheapest(Candidates(books)))
        IN  (\A o \in DOMAIN ref : ref[o].stake > 0) /\ WorstCase(ref) > 0 =>
                Signalled /\ result.signal.worst_case_profit >= WorstCase(ref)
=============================================================================
