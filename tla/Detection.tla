----------------------------- MODULE Detection ------------------------------
(***************************************************************************)
(* detect_book (arbkit-core arb.rs): from the books of a market's outcomes *)
(* to a plan of stakes whose worst outcome pays more than it costs.        *)
(*                                                                         *)
(* A leg is [outcome, fee, increment, levels] with levels a sequence of    *)
(* [price, size], best first.  A chunk is one level of one leg; a plan     *)
(* gives every chunk a stake.  Money is an unbounded integer here: the     *)
(* code computes in i128 and clamps to i64, far above any stake.           *)
(***************************************************************************)
EXTENDS Fees, FiniteSets, Sequences, FiniteSetsExt, Functions

CONSTANTS MAX_CHUNKS,       \* chunks in a plan
          MAX_SEARCH_STEPS  \* halvings of the payout search

ASSUME DetectionBounds == MAX_CHUNKS \in Nat /\ MAX_SEARCH_STEPS \in Nat

NoSignal == [kind |-> "none"]
Malformed == [kind |-> "error"]

\* The members of a finite set in a strict order: the n-th is the one that n - 1
\* others precede.
Ordered(S, precedes(_, _)) ==
    [n \in 1 .. Cardinality(S) |->
        CHOOSE x \in S : Cardinality({y \in S : precedes(y, x)}) = n - 1]

(***************************************************************************)
(* Chunks                                                                  *)
(***************************************************************************)
EffectivePpm(leg, l) == Effective(leg.fee, leg.levels[l].price)

\* usable_capacity: whole increments resting at the level (0 for None).
UsableCapacity(leg, l) == RoundDownTo(leg.levels[l].size, leg.increment)

\* The levels that take at least one increment, as <<leg, level>>.
Usable(legs) ==
    {il \in UNION {{i} \X DOMAIN legs[i].levels : i \in DOMAIN legs} :
        UsableCapacity(legs[il[1]], il[2]) >= legs[il[1]].increment}

InScanOrder(a, b) == a[1] < b[1] \/ (a[1] = b[1] /\ a[2] < b[2])

\* Outcomes are numbered in the order in which legs name them.
Outcomes(legs) ==
    LET first == {i \in DOMAIN legs :
                    \A k \in 1 .. i - 1 : legs[k].outcome # legs[i].outcome}
    IN  [g \in 1 .. Cardinality(first) |-> legs[Ordered(first, <)[g]].outcome]

ChunkOf(legs, groups, il) ==
    LET leg == legs[il[1]]
    IN  [leg       |-> il[1],
         group     |-> CHOOSE g \in DOMAIN groups : groups[g] = leg.outcome,
         price     |-> EffectivePpm(leg, il[2]),
         increment |-> leg.increment,
         capacity  |-> UsableCapacity(leg, il[2]),
         resting   |-> leg.levels[il[2]].size]

\* Cheaper comes first, and on a tie what is scanned first.
Before(p, a, q, b) == p < q \/ (p = q /\ InScanOrder(a, b))

\* Pass one: the best usable level of an outcome.
BestLevel(legs, outcome) ==
    LET of == {il \in Usable(legs) : legs[il[1]].outcome = outcome}
    IN  CHOOSE il \in of : \A k \in of \ {il} :
            Before(EffectivePpm(legs[il[1]], il[2]), il, EffectivePpm(legs[k[1]], k[2]), k)

\* The best of every outcome and then the others while there is room.
FilledUp(best, rest) == best \o SubSeq(rest, 1, Lesser(Len(rest), MAX_CHUNKS - Len(best)))

Chunks(legs, groups, levels) == [j \in DOMAIN levels |-> ChunkOf(legs, groups, levels[j])]

\* Pass two adds the other levels in scan order.
Flatten(legs, groups) ==
    LET best == [g \in DOMAIN groups |-> BestLevel(legs, groups[g])]
        rest == Ordered(Usable(legs) \ Range(best), InScanOrder)
    IN  Chunks(legs, groups, FilledUp(best, rest))

(***************************************************************************)
(* Plans                                                                   *)
(***************************************************************************)
\* Mutant of Payout: rounded up.
PayoutRoundedUp(c, stake) == CeilDiv(stake * PPM, c.price)

\* Chunks::payout: what a stake returns, rounded down.
Payout(c, stake) == (stake * PPM) \div c.price

Members(chunks, g) == {j \in DOMAIN chunks : chunks[j].group = g}

\* What the stakes on the chunks in S return together.
PaidBy(chunks, stakes, S) == SumFunction([j \in S |-> Payout(chunks[j], stakes[j])])

GroupPayout(chunks, stakes, g) == PaidBy(chunks, stakes, Members(chunks, g))

Total(stakes) == SumFunction(stakes)

\* The guaranteed profit: the worst outcome's payout less the total stake.
Profit(chunks, n, stakes) ==
    Min({GroupPayout(chunks, stakes, g) : g \in 1 .. n}) - Total(stakes)

(***************************************************************************)
(* distribute: the stakes with which one outcome pays at least target.     *)
(***************************************************************************)

\* What an active chunk is asked to stake for its share of what remains.
Need(chunks, active, remaining, j) ==
    LET c     == chunks[j]
        sum   == SumFunction([k \in active |-> chunks[k].price])
        share == CeilDiv(remaining * c.price, sum)
    IN  RoundUpTo(CeilDiv(share * c.price, PPM), c.increment)

\* Chunks asked for more than their depth are frozen at it, the others keep
\* what they were asked for.
Freeze(chunks, target, s, need, capped) ==
    LET stakes == [j \in DOMAIN s.stakes |->
                    IF j \in capped THEN chunks[j].capacity
                    ELSE IF j \in s.active THEN need[j] ELSE s.stakes[j]]
        frozen == DOMAIN stakes \ (s.active \ capped)
    IN  [stakes |-> stakes, active |-> s.active \ capped,
         remaining |-> target - PaidBy(chunks, stakes, frozen), done |-> capped = {}]

\* One round of the proportional split.
SplitRound(chunks, target, s) ==
    LET need == [j \in s.active |-> Need(chunks, s.active, s.remaining, j)]
    IN  IF s.active = {} \/ s.done THEN s
        ELSE IF s.remaining <= 0
        THEN [s EXCEPT !.done = TRUE,
                       !.stakes = [j \in DOMAIN @ |-> IF j \in s.active THEN 0 ELSE @[j]]]
        ELSE Freeze(chunks, target, s, need, {j \in s.active : need[j] > chunks[j].capacity})

Split(chunks, members, target) ==
    LET m == Cardinality(members)
        split[i \in 0 .. m] ==
            IF i = 0
            THEN [stakes |-> [j \in members |-> 0], active |-> members,
                  remaining |-> target, done |-> FALSE]
            ELSE SplitRound(chunks, target, split[i - 1])
    IN  split[m].stakes

\* The chunk that buys the most payout per cent with one more increment.
BestStep(chunks, stakes) ==
    LET can     == {j \in DOMAIN stakes :
                      stakes[j] + chunks[j].increment <= chunks[j].capacity}
        gain(j) == Payout(chunks[j], stakes[j] + chunks[j].increment)
                     - Payout(chunks[j], stakes[j])
        rate(j, k) == gain(j) * chunks[k].increment
    IN  {j \in can : \A k \in can \ {j} :
            rate(j, k) > rate(k, j) \/ (rate(j, k) = rate(k, j) /\ j < k)}

\* One repair: at most one chunk grows by one increment.
RepairRound(chunks, target, stakes) ==
    LET grow == IF PaidBy(chunks, stakes, DOMAIN stakes) >= target THEN {}
                ELSE BestStep(chunks, stakes)
    IN  [j \in DOMAIN stakes |->
            stakes[j] + (IF j \in grow THEN chunks[j].increment ELSE 0)]

Repair(chunks, target, stakes) ==
    LET m == Cardinality(DOMAIN stakes)
        repair[i \in 0 .. m] ==
            IF i = 0 THEN stakes ELSE RepairRound(chunks, target, repair[i - 1])
    IN  repair[m]

Distribute(chunks, g, target) ==
    Repair(chunks, target, Split(chunks, Members(chunks, g), target))

\* feasible: the plan that reaches target in every outcome, if the depth
\* and the budget allow it.
PlanFor(chunks, n, target) ==
    LET of == [g \in 1 .. n |-> Distribute(chunks, g, target)]
    IN  [j \in DOMAIN chunks |-> of[chunks[j].group][j]]

Feasible(chunks, n, budget, target, stakes) ==
    /\ \A g \in 1 .. n : GroupPayout(chunks, stakes, g) >= target
    /\ Total(stakes) <= budget

(***************************************************************************)
(* The search                                                              *)
(***************************************************************************)
NothingFound == [found |-> FALSE, profit |-> 0]

\* Best::offer: only strictly more profit replaces the plan held.
Offer(best, chunks, n, stakes) ==
    LET profit == Profit(chunks, n, stakes)
    IN  IF Total(stakes) > 0 /\ (~best.found \/ profit > best.profit)
        THEN [found |-> TRUE, profit |-> profit, stakes |-> stakes]
        ELSE best

\* The closed-form equal-payoff plan on the best price of each outcome.
ClosedForm(chunks, n, budget, overround) ==
    LET ceiling == Min({budget} \cup
                       {(chunks[g].resting * overround) \div chunks[g].price : g \in 1 .. n})
    IN  [j \in DOMAIN chunks |->
            IF j \in 1 .. n
            THEN RoundDownTo((ceiling * chunks[j].price) \div overround,
                             chunks[j].increment)
            ELSE 0]

\* Mutant of OfferClosedForm: the search starts from nothing.
OfferNothing(chunks, n, budget, overround) == NothingFound

\* Offered only when it stakes something on every outcome.
OfferClosedForm(chunks, n, budget, overround) ==
    LET stakes == ClosedForm(chunks, n, budget, overround)
    IN  IF \A g \in 1 .. n : stakes[g] > 0
        THEN Offer(NothingFound, chunks, n, stakes)
        ELSE NothingFound

\* The most that any plan could be made to pay in every outcome.
Highest(chunks, n, budget) ==
    LET cheapest == Min({chunks[j].price : j \in DOMAIN chunks})
        full == [j \in DOMAIN chunks |-> chunks[j].capacity]
    IN  Min({(budget * PPM) \div cheapest} \cup
            {GroupPayout(chunks, full, g) : g \in 1 .. n})

\* The half of the interval of guaranteed payouts that mid leaves.
Narrow(chunks, n, budget, s, mid, stakes) ==
    IF Feasible(chunks, n, budget, mid, stakes)
    THEN [s EXCEPT !.low = mid, !.best = Offer(@, chunks, n, stakes)]
    ELSE [s EXCEPT !.high = mid - 1]

Probe(chunks, n, budget, s) ==
    LET mid == s.low + (s.high - s.low + 1) \div 2
    IN  IF s.low >= s.high THEN s
        ELSE Narrow(chunks, n, budget, s, mid, PlanFor(chunks, n, mid))

Search(chunks, n, budget, overround) ==
    LET probe[i \in 0 .. MAX_SEARCH_STEPS] ==
            IF i = 0
            THEN [low |-> 0, high |-> Highest(chunks, n, budget),
                  best |-> OfferClosedForm(chunks, n, budget, overround)]
            ELSE Probe(chunks, n, budget, probe[i - 1])
    IN  probe[MAX_SEARCH_STEPS].best

\* The signal, if there is profit: an allocation per staked chunk, in order.
Report(chunks, best) ==
    LET staked == Ordered({j \in DOMAIN chunks : best.stakes[j] > 0}, <)
    IN  IF ~best.found \/ best.profit <= 0 THEN NoSignal
        ELSE [kind        |-> "signal",
              allocations |-> [a \in DOMAIN staked |->
                                 [leg    |-> chunks[staked[a]].leg,
                                  stake  |-> best.stakes[staked[a]],
                                  payout |-> Payout(chunks[staked[a]], best.stakes[staked[a]])]],
              total_stake |-> Total(best.stakes),
              worst_case_profit |-> best.profit]

SizeUp(chunks, n, budget) ==
    LET overround == SumFunction([g \in 1 .. n |-> chunks[g].price])
    IN  IF overround >= PPM THEN NoSignal
        ELSE Report(chunks, Search(chunks, n, budget, overround))

Plan(legs, groups, budget) ==
    IF \E i \in DOMAIN legs : legs[i].levels # <<>> /\ legs[i].increment <= 0
    THEN Malformed
    ELSE IF budget <= 0 \/ Range(groups) # {legs[il[1]].outcome : il \in Usable(legs)}
    THEN NoSignal
    ELSE SizeUp(Flatten(legs, groups), Len(groups), budget)

DetectBook(legs, budget) ==
    IF Len(legs) \notin 2 .. MAX_CHUNKS \/ Len(Outcomes(legs)) < 2
    THEN Malformed
    ELSE Plan(legs, Outcomes(legs), budget)
=============================================================================
