---------------------------- MODULE Aggregation -----------------------------
(***************************************************************************)
(* Aggregator::evaluate_market (arbkit-engine aggregator.rs) as a function *)
(* of the books: quotes of every venue are discounted, priced with their   *)
(* fee, chosen and handed to detect_book, and the signal is paired with    *)
(* the legs to execute.                                                    *)
(*                                                                         *)
(* books holds what levels() returns for each outcome and venue, best      *)
(* first; a stale or empty book returns nothing.                           *)
(***************************************************************************)
EXTENDS Detection

CONSTANTS OutcomeCount,    \* outcomes of the market
          VenueCount,
          VenueFees,       \* fee of each venue
          VenueIncrements, \* stake increment of each venue
          VenueSurvival,   \* share of its depth that survives transit
          Budget           \* stake cap of the market

ASSUME MarketIsRegistered ==
    /\ OutcomeCount \in 2 .. 4
    /\ OutcomeCount <= MAX_CHUNKS
    /\ VenueCount \in Nat /\ Budget \in Int
    /\ \A v \in 1 .. VenueCount :
          /\ VenueIncrements[v] \in Nat \ {0}
          /\ VenueFees[v] \in FeeTypes /\ VenueSurvival[v] \in Nat

Sides == (1 .. OutcomeCount) \X (1 .. VenueCount)

NoPlan == [signal |-> NoSignal, plan |-> <<>>]

(***************************************************************************)
(* Candidates and selection                                                *)
(***************************************************************************)
CandidateAt(outcome, venue, level) ==
    [outcome  |-> outcome, venue |-> venue, price |-> level.price,
     eff_ppm  |-> Effective(VenueFees[venue], level.price),
     raw_size |-> level.size, size |-> Discounted(VenueSurvival[venue], level.size)]

\* A level by its side and its place in the side's book: outcome by outcome,
\* venue by venue, best first.
BookOrder(a, b) ==
    InScanOrder(a[1], b[1]) \/ (a[1] = b[1] /\ a[2] < b[2])

\* Every level worth considering: something of it survives transit.
Candidates(books) ==
    LET quoted(at)  == books[at[1]][at[2]]
        levels      == {at \in UNION {{s} \X DOMAIN books[s] : s \in Sides} :
                          Discounted(VenueSurvival[at[1][2]], quoted(at).size) > 0}
        places      == Ordered(levels, BookOrder)
    IN  [i \in DOMAIN places |->
            CandidateAt(places[i][1][1], places[i][1][2], quoted(places[i]))]

\* Candidates in order of preference: the cheapest, on a tie the first one.
Preferred(cands, i, k) ==
    \/ cands[i].eff_ppm < cands[k].eff_ppm
    \/ cands[i].eff_ppm = cands[k].eff_ppm /\ i < k

BestFirst(cands, S) == Ordered(S, LAMBDA i, k : Preferred(cands, i, k))

Of(cands, outcome) == {i \in DOMAIN cands : cands[i].outcome = outcome}

\* Fair coverage: the best candidate of every outcome.
Coverage(cands) ==
    [o \in 1 .. OutcomeCount |-> BestFirst(cands, Of(cands, o))[1]]

\* Line shopping: then the best of the others, up to the chunk bound.
Selection(cands) ==
    LET cover == Coverage(cands)
    IN  FilledUp(cover, BestFirst(cands, DOMAIN cands \ Range(cover)))

BookLegFromCandidate(c) ==
    [outcome |-> c.outcome, fee |-> VenueFees[c.venue],
     increment |-> VenueIncrements[c.venue],
     levels |-> <<[price |-> c.price, size |-> c.size]>>]

\* Mutant of ExecutionLeg: the discounted size, which is discounted again.
ExecutionLegDiscounted(c) ==
    [venue |-> c.venue, outcome |-> c.outcome, quoted |-> c.price,
     fee |-> VenueFees[c.venue], capacity |-> c.size,
     increment |-> VenueIncrements[c.venue]]

\* The leg to execute: the raw size, since the fill model discounts it.
ExecutionLeg(c) ==
    [venue |-> c.venue, outcome |-> c.outcome, quoted |-> c.price,
     fee |-> VenueFees[c.venue], capacity |-> c.raw_size,
     increment |-> VenueIncrements[c.venue]]

\* The shopped plan, unless the single-quote plan guarantees more.
BetterOf(shopped, single) ==
    IF /\ single.kind = "signal"
       /\ shopped.kind = "signal" => single.worst_case_profit > shopped.worst_case_profit
    THEN single ELSE shopped

\* The signal with its legs, each taken from the candidate it was sized on.
Executable(cands, chosen, signal) ==
    IF signal = NoSignal THEN NoPlan
    ELSE [signal |-> signal,
          plan   |-> [a \in DOMAIN signal.allocations |->
                        ExecutionLeg(cands[chosen[signal.allocations[a].leg]])]]

\* Both plans are sized; an error of either is the answer.
Decide(cands, chosen, shopped, single) ==
    IF Malformed \in {shopped, single} THEN [signal |-> Malformed, plan |-> <<>>]
    ELSE Executable(cands, chosen, BetterOf(shopped, single))

Shop(cands, chosen) ==
    LET legs == [i \in DOMAIN chosen |-> BookLegFromCandidate(cands[chosen[i]])]
    IN  Decide(cands, chosen, DetectBook(legs, Budget),
               DetectBook(SubSeq(legs, 1, OutcomeCount), Budget))

Evaluation(books) ==
    LET cands == Candidates(books)
    IN  IF \E o \in 1 .. OutcomeCount : Of(cands, o) = {} THEN NoPlan
        ELSE Shop(cands, Selection(cands))
=============================================================================
