----------------------------- MODULE Simulator ------------------------------
(***************************************************************************)
(* Simulated execution of a plan (arbkit-sim simulator.rs, order.rs,       *)
(* latency.rs, accounting.rs, phantom.rs): each leg meets a price and a    *)
(* depth on arrival and fills, partly fills or not; the results give the   *)
(* profit and the classification of the execution.                         *)
(*                                                                         *)
(* legs and prices are sequences of the same length; a leg is what         *)
(* Aggregation!ExecutionLeg builds.                                        *)
(***************************************************************************)
EXTENDS Fees, Sequences, FiniteSetsExt

CONSTANTS FrontRun,  \* share of the depth lost in the queue, per venue
          Latency    \* wire delay and processing time, per venue

NoQuote == 0

\* LatencyProfile::effective_depth
EffectiveDepth(venue, raw) ==
    IF raw <= 0 THEN 0 ELSE (raw * (BPS - Lesser(FrontRun[venue], BPS))) \div BPS

(***************************************************************************)
(* One leg                                                                 *)
(***************************************************************************)
Unfilled(leg, stake, reason) ==
    [venue |-> leg.venue, outcome |-> leg.outcome, status |-> reason,
     requested |-> stake, filled |-> 0, net_payout |-> 0]

ComputeFill(leg, stake, filled, price, status) ==
    [venue |-> leg.venue, outcome |-> leg.outcome, status |-> status,
     requested |-> stake, filled |-> filled,
     net_payout |-> (filled * PPM) \div Effective(leg.fee, price)]

\* What the depth on arrival fills, in whole increments when it is short.
FillAt(leg, stake, price, raw) ==
    LET depth    == EffectiveDepth(leg.venue, raw)
        fillable == RoundDownTo(depth, Greater(leg.increment, 1))
    IN  IF depth <= 0 THEN Unfilled(leg, stake, "depth_exhausted")
        ELSE IF depth >= stake THEN ComputeFill(leg, stake, stake, price, "filled")
        ELSE IF fillable <= 0 THEN Unfilled(leg, stake, "increment")
        ELSE ComputeFill(leg, stake, fillable, price, "partial")

EvaluateLeg(leg, stake, price, raw) ==
    IF price = NoQuote \/ price > leg.quoted
    THEN Unfilled(leg, stake, "price_moved")
    ELSE FillAt(leg, stake, price, raw)

(***************************************************************************)
(* Chasing: policy is [enabled, max_chase_bps, ttl].                       *)
(***************************************************************************)
AdverseMove(quoted, price) == CeilDiv((price - quoted) * BPS, quoted)

\* All legs together, or none, may be filled at their arrival prices.
MayChase(policy, legs, prices, results) ==
    /\ policy.enabled
    /\ \E i \in DOMAIN results : results[i].status = "price_moved"
    /\ policy.ttl = 0 \/ Max({Latency[legs[i].venue] : i \in DOMAIN legs}) <= policy.ttl
    /\ \A i \in DOMAIN legs :
          /\ prices[i] # NoQuote
          /\ prices[i] > legs[i].quoted =>
                AdverseMove(legs[i].quoted, prices[i]) <= policy.max_chase_bps
    /\ SumFunction([i \in DOMAIN legs |-> Effective(legs[i].fee, prices[i])]) < PPM

(***************************************************************************)
(* The execution                                                           *)
(***************************************************************************)
FilledStake(results) == SumFunction([i \in DOMAIN results |-> results[i].filled])

\* ExecutionPnl::compute: the least net payout of a leg less what was staked.
RealizedProfit(results) ==
    IF FilledStake(results) <= 0 THEN 0
    ELSE Min({results[i].net_payout : i \in DOMAIN results}) - FilledStake(results)

FirstReason(results) ==
    LET reason == results[1].status
    IN  IF reason = "increment" THEN "depth_exhausted" ELSE reason

\* Mutant of Classify: any complete set of partial fills counts as a hedge.
ClassifyGenerously(results) ==
    LET filled == {i \in DOMAIN results : results[i].filled > 0}
    IN  IF \A i \in DOMAIN results : results[i].status = "filled"
        THEN IF RealizedProfit(results) > 0 THEN "clean" ELSE "unprofitable"
        ELSE IF filled = {} THEN FirstReason(results)
        ELSE IF filled # DOMAIN results THEN "broken_leg"
        ELSE "proportional"

Classify(results) ==
    LET filled == {i \in DOMAIN results : results[i].filled > 0}
    IN  IF \A i \in DOMAIN results : results[i].status = "filled"
        THEN IF RealizedProfit(results) > 0 THEN "clean" ELSE "unprofitable"
        ELSE IF filled = {} THEN FirstReason(results)
        ELSE IF filled # DOMAIN results THEN "broken_leg"
        ELSE IF RealizedProfit(results) > 0 THEN "proportional" ELSE "asymmetric"

\* simulate_with_quotes, with the capacity of each leg as its arrival depth.
Simulate(policy, legs, stakes, prices) ==
    LET direct  == [i \in DOMAIN legs |->
                      EvaluateLeg(legs[i], stakes[i], prices[i], legs[i].capacity)]
        chased  == MayChase(policy, legs, prices, direct)
        results == IF chased
                   THEN [i \in DOMAIN legs |->
                           FillAt(legs[i], stakes[i], prices[i], legs[i].capacity)]
                   ELSE direct
    IN  [results |-> results, chased |-> chased,
         realized |-> RealizedProfit(results), class |-> Classify(results)]
=============================================================================
