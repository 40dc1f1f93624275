-------------------------- MODULE VenueOrdersProofs --------------------------
(***************************************************************************)
(* Proofs about the orders and their reconciliation: an order leaves the   *)
(* in-flight set once, when its venue is done with it, and the ledger      *)
(* books its profit once, however often frames, polls and restarts restate *)
(* it.                                                                     *)
(***************************************************************************)
EXTENDS VenueOrders, DataLemmas, TLAPS

Replies == {"none", "awaited", "filled", "unfilled", "failed"}
States == {"absent", "open", "settled", "canceled"}
ProfitStated == {<< >>} \cup {<<p>> : p \in Int}
AtVenue == [state : States, spent : Int, filled : Int, fee : Int, profit : ProfitStated]
Frames == [filled : Int, fee : Int, profit : ProfitStated, status : States]

IsLedger(led) ==
    /\ led = [orders |-> led.orders, profit |-> led.profit, fees |-> led.fees, applied |-> led.applied]
    /\ led.profit \in Int

TypeInv ==
    /\ leg \in [Orders -> LegChoices \cup {Unplanned}]
    /\ reply \in [Orders -> Replies]
    /\ venue \in [Orders -> AtVenue]
    /\ stream \in [Orders -> Seq(Frames)]
    /\ delivered \in [Orders -> Nat] /\ closed \in [Orders -> Nat]
    /\ IsLedger(ledger) /\ DOMAIN ledger.orders \subseteq Orders
    /\ inflight \subseteq Orders

\* What a leg costs and fills is a number.
LEMMA LegNumbers ==
    ASSUME NEW l \in LegChoices
    PROVE  SpentOn(l) \in Int /\ FilledOf(l) \in Int /\ l # Unplanned
<1>1. l \in [venue : Venues, instrument : Venues, stake : Nat, ppm : Nat]
  BY OrdersAssumption
<1>2. l.stake \in Int /\ l.ppm \div 10000 \in Int
  BY <1>1
<1>3. \A a, b \in Int : a * b \in Int
  OBVIOUS
<1>4. l.stake * (l.ppm \div 10000) \in Int
  BY <1>2, <1>3
<1>5. KalshiRequest(l).count = l.stake /\ KalshiRequest(l).price = l.ppm \div 10000
      /\ PolymarketRequest(l).size = l.stake
  BY DEF KalshiRequest, PolymarketRequest
<1>6. l.venue \in Venues /\ "none" \notin Venues /\ Unplanned.venue = "none"
  BY <1>1 DEF Venues, Unplanned
<1> QED BY <1>2, <1>4, <1>5, <1>6 DEF SpentOn, FilledOf

\* What folding a frame of each of some orders does to the ledger.
LEMMA FoldEffect ==
    ASSUME IsLedger(ledger), IsFiniteSet(DOMAIN ledger.orders), NEW frames,
           \A o \in DOMAIN frames : frames[o] \in Frames
    PROVE  LET led == Fold(ledger, frames)
               print(o) == <<o, frames[o].filled, frames[o].fee, frames[o].profit>>
               new == {o \in DOMAIN frames \cap DOMAIN ledger.orders : print(o) \notin ledger.applied}
           IN  /\ IsLedger(led)
               /\ DOMAIN led.orders = DOMAIN ledger.orders
               /\ led.applied = ledger.applied \cup {print(o) : o \in new}
               /\ led.profit = ledger.profit + SumFunctionOnSet(
                      [o \in new |-> IF frames[o].profit = << >> THEN 0 ELSE frames[o].profit[1]], new)
               /\ IsFiniteSet(new)
<1> DEFINE led == Fold(ledger, frames)
           print(o) == <<o, frames[o].filled, frames[o].fee, frames[o].profit>>
           new == {o \in DOMAIN frames \cap DOMAIN ledger.orders : print(o) \notin ledger.applied}
           prints == {print(o) : o \in new}
           gains == [o \in new |-> IF frames[o].profit = << >> THEN 0 ELSE frames[o].profit[1]]
           statuses == [o \in DOMAIN ledger.orders |->
                            IF o \in new THEN [filled |-> frames[o].filled, status |-> frames[o].status]
                            ELSE ledger.orders[o]]
           fees == SumFunctionOnSet([o \in new |-> frames[o].fee], new)
<1>1. led = [ledger EXCEPT !.applied = @ \cup prints, !.orders = statuses, !.fees = @ + fees,
                           !.profit = @ + SumFunctionOnSet(gains, new)]
  BY DEF Fold, Booked, IsLedger
<1>2. DOMAIN statuses = DOMAIN ledger.orders
  OBVIOUS
<1>3. IsFiniteSet(new)
  <2>1. new \subseteq DOMAIN ledger.orders
    OBVIOUS
  <2> HIDE DEF new
  <2> QED BY <2>1, FS_Subset
<1>4. SumFunctionOnSet(gains, new) \in Int
  <2>1. \A o \in new : gains[o] \in Int
    BY DEF Frames, ProfitStated
  <2> HIDE DEF new, gains
  <2> QED BY <1>3, <2>1, SumType
<1> HIDE DEF led, new, prints, gains, statuses, fees
<1>5. /\ led = [orders |-> statuses, profit |-> ledger.profit + SumFunctionOnSet(gains, new),
                fees |-> ledger.fees + fees, applied |-> ledger.applied \cup prints]
  BY <1>1 DEF IsLedger
<1>6. /\ led.orders = statuses /\ led.profit = ledger.profit + SumFunctionOnSet(gains, new)
      /\ led.applied = ledger.applied \cup prints /\ led.fees = ledger.fees + fees
  BY <1>5
<1>7. led.profit \in Int
  BY <1>4, <1>6 DEF IsLedger
<1>8. IsLedger(led)
  BY <1>5, <1>6, <1>7 DEF IsLedger
<1> QED BY <1>2, <1>3, <1>6, <1>8 DEF led, new, prints, gains

\* A registration adds the order to the ledger, a restart starts a new one.
LEMMA LedgerEffects ==
    ASSUME IsLedger(ledger), NEW o
    PROVE  /\ IsLedger(Registered(ledger, o))
           /\ DOMAIN Registered(ledger, o).orders = DOMAIN ledger.orders \cup {o}
           /\ Registered(ledger, o).applied = ledger.applied
           /\ Registered(ledger, o).profit = ledger.profit
           /\ \A os : /\ IsLedger(Seeded(os)) /\ DOMAIN Seeded(os).orders = os
                     /\ Seeded(os).applied = {} /\ Seeded(os).profit = 0
<1>1. ASSUME NEW f
      PROVE  LET led == [ledger EXCEPT !.orders = f]
             IN  /\ IsLedger(led) /\ led.orders = f
                 /\ led.applied = ledger.applied /\ led.profit = ledger.profit
  <2>1. [ledger EXCEPT !.orders = f] = [orders |-> f, profit |-> ledger.profit, fees |-> ledger.fees,
                                        applied |-> ledger.applied]
    BY DEF IsLedger
  <2> QED BY <2>1 DEF IsLedger
<1>2. ASSUME NEW f
      PROVE  [EmptyLedger EXCEPT !.orders = f] = [orders |-> f, profit |-> 0, fees |-> 0, applied |-> {}]
  <2>1. \A e : [[orders |-> e, profit |-> 0, fees |-> 0, applied |-> {}] EXCEPT !.orders = f]
                = [orders |-> f, profit |-> 0, fees |-> 0, applied |-> {}]
    OBVIOUS
  <2> QED BY <2>1, Zenon DEF EmptyLedger
<1>3. \A os : Seeded(os) = [orders |-> [x \in os |-> Entry(x)], profit |-> 0, fees |-> 0, applied |-> {}]
  BY <1>2 DEF Seeded
<1>4. \A os : /\ IsLedger(Seeded(os)) /\ DOMAIN Seeded(os).orders = os
             /\ Seeded(os).applied = {} /\ Seeded(os).profit = 0
  <2>1. TAKE os
  <2> DEFINE seeds == [x \in os |-> Entry(x)]
  <2>2. DOMAIN seeds = os
    OBVIOUS
  <2>3. Seeded(os) = [orders |-> seeds, profit |-> 0, fees |-> 0, applied |-> {}]
    BY <1>3
  <2> HIDE DEF seeds
  <2> QED BY <2>2, <2>3 DEF IsLedger
<1> QED BY <1>1, <1>4 DEF Registered

\* A delivered frame, or a pass over polled orders, folded into the ledger.
LEMMA FoldType ==
    ASSUME TypeInv, NEW frames, \A o \in DOMAIN frames : frames[o] \in Frames
    PROVE  /\ IsFiniteSet(DOMAIN ledger.orders)
           /\ IsLedger(Fold(ledger, frames))
           /\ DOMAIN Fold(ledger, frames).orders = DOMAIN ledger.orders
<1>1. IsFiniteSet(DOMAIN ledger.orders)
  BY FS_Subset, OrdersAssumption DEF TypeInv
<1> QED BY <1>1, FoldEffect DEF TypeInv

LEMMA PolledType ==
    ASSUME TypeInv, NEW o \in Orders
    PROVE  /\ Polled(o) \in Frames /\ Polled(o).profit = << >>
           /\ Frame(o) \in Frames
           /\ Frame(o) = [filled |-> venue[o].filled, fee |-> venue[o].fee, profit |-> venue[o].profit,
                          status |-> venue[o].state]
<1>1. venue[o] \in AtVenue
  BY DEF TypeInv
<1>2. << >> \in ProfitStated
  BY DEF ProfitStated
<1> QED BY <1>1, <1>2 DEF Polled, Frame, Frames, AtVenue, States

LEMMA TypeStep == TypeInv /\ [Next]_vars => TypeInv'
<1> SUFFICES ASSUME TypeInv, [Next]_vars PROVE TypeInv'
  OBVIOUS
<1>1. ASSUME NEW o \in Orders, NEW l \in LegChoices, Register(o, l) PROVE TypeInv'
  <2>1. /\ IsLedger(ledger') /\ DOMAIN ledger'.orders = DOMAIN ledger.orders \cup {o}
    BY <1>1, LedgerEffects DEF Register, TypeInv
  <2> QED BY <1>1, <2>1 DEF Register, TypeInv
<1>2. ASSUME NEW o \in Orders, NEW b \in BOOLEAN, Submit(o, b) PROVE TypeInv'
  <2>1. reply' \in [Orders -> Replies]
    BY <1>2 DEF Submit, TypeInv, Replies
  <2>2. venue' \in [Orders -> AtVenue]
    <3>1. leg[o] \in LegChoices
      BY <1>2 DEF Submit, Planned, TypeInv
    <3>2. SpentOn(leg[o]) \in Int /\ FilledOf(leg[o]) \in Int
      BY <3>1, LegNumbers
    <3>3. venue[o] \in AtVenue /\ venue \in [Orders -> AtVenue]
      BY DEF TypeInv
    <3>4. /\ [venue[o] EXCEPT !.state = "open", !.spent = SpentOn(leg[o]), !.filled = FilledOf(leg[o])] \in AtVenue
          /\ [venue[o] EXCEPT !.state = "canceled"] \in AtVenue
      BY <3>2, <3>3 DEF AtVenue, States
    <3>5. venue' = venue \/ \E r \in AtVenue : venue' = [venue EXCEPT ![o] = r]
      BY <1>2, <3>4 DEF Submit
    <3> QED BY <3>3, <3>5
  <2> QED BY <1>2, <2>1, <2>2 DEF Submit, TypeInv
<1>3. ASSUME NEW o \in Orders, NEW b \in BOOLEAN, Answer(o, b) PROVE TypeInv'
  BY <1>3 DEF Answer, TypeInv, Replies
<1>4. ASSUME NEW o \in Orders, TimesOut(o) PROVE TypeInv'
  BY <1>4 DEF TimesOut, TypeInv, Replies
<1>5. CASE Restart
  <2>1. IsLedger(ledger') /\ DOMAIN ledger'.orders = inflight
    BY <1>5, LedgerEffects DEF Restart, TypeInv
  <2>2. reply' \in [Orders -> Replies] /\ delivered' \in [Orders -> Nat]
    BY <1>5 DEF Restart, TypeInv, Replies
  <2> QED BY <1>5, <2>1, <2>2 DEF Restart, TypeInv
<1>6. ASSUME NEW o \in Orders, NEW fee \in Fees, Charge(o, fee) PROVE TypeInv'
  <2>1. venue[o] \in AtVenue /\ venue \in [Orders -> AtVenue] /\ fee \in Int
    BY OrdersAssumption DEF TypeInv
  <2>2. [venue[o] EXCEPT !.fee = fee] \in AtVenue
    BY <2>1 DEF AtVenue
  <2>3. venue' = [venue EXCEPT ![o] = [venue[o] EXCEPT !.fee = fee]]
    BY <1>6 DEF Charge
  <2>4. venue' \in [Orders -> AtVenue]
    BY <2>1, <2>2, <2>3
  <2> QED BY <1>6, <2>4 DEF Charge, TypeInv
<1>7. ASSUME NEW o \in Orders, NEW profit \in Profits, VenueSettles(o, profit) PROVE TypeInv'
  <2>1. venue[o] \in AtVenue /\ venue \in [Orders -> AtVenue] /\ profit \in Int
    BY OrdersAssumption DEF TypeInv
  <2>2. [venue[o] EXCEPT !.state = "settled", !.profit = <<profit>>] \in AtVenue
    BY <2>1 DEF AtVenue, States, ProfitStated
  <2>3. venue' = [venue EXCEPT ![o] = [venue[o] EXCEPT !.state = "settled", !.profit = <<profit>>]]
    BY <1>7, <2>1 DEF VenueSettles
  <2>4. venue' \in [Orders -> AtVenue]
    BY <2>1, <2>2, <2>3
  <2> QED BY <1>7, <2>4 DEF VenueSettles, TypeInv
<1>8. ASSUME NEW o \in Orders, VenueStates(o) PROVE TypeInv'
  <2>1. stream' \in [Orders -> Seq(Frames)]
    <3>1. stream[o] \in Seq(Frames) /\ Frame(o) \in Frames
      BY PolledType DEF TypeInv
    <3>2. Append(stream[o], Frame(o)) \in Seq(Frames)
      BY <3>1
    <3>3. stream' = [stream EXCEPT ![o] = Append(stream[o], Frame(o))]
      BY <1>8 DEF VenueStates
    <3> QED BY <3>2, <3>3 DEF TypeInv
  <2> QED BY <1>8, <2>1 DEF VenueStates, TypeInv
<1>9. ASSUME NEW o \in Orders, NEW i \in 1 .. Len(stream[o]), Deliver(o, i) PROVE TypeInv'
  <2> DEFINE frames == [x \in {o} |-> stream[o][i]]
  <2>1. \A x \in DOMAIN frames : frames[x] \in Frames
    BY DEF TypeInv
  <2>2. ledger' = Fold(ledger, frames)
    BY <1>9 DEF Deliver
  <2> HIDE DEF frames
  <2>3. IsLedger(ledger') /\ DOMAIN ledger'.orders = DOMAIN ledger.orders
    BY <2>1, <2>2, FoldType
  <2>4. delivered' \in [Orders -> Nat]
    BY <1>9 DEF Deliver, TypeInv
  <2> QED BY <1>9, <2>3, <2>4 DEF Deliver, TypeInv
<1>10. ASSUME NEW polled \in SUBSET Orders, Reconcile(polled) PROVE TypeInv'
  <2> DEFINE frames == [o \in polled |-> Polled(o)]
  <2>1. \A x \in DOMAIN frames : frames[x] \in Frames
    BY PolledType
  <2>2. ledger' = Fold(ledger, frames)
    BY <1>10 DEF Reconcile
  <2> HIDE DEF frames
  <2>3. IsLedger(ledger') /\ DOMAIN ledger'.orders = DOMAIN ledger.orders
    BY <2>1, <2>2, FoldType
  <2>4. closed' \in [Orders -> Nat]
    BY <1>10 DEF Reconcile, TypeInv
  <2> QED BY <1>10, <2>3, <2>4 DEF Reconcile, TypeInv
<1>11. CASE UNCHANGED vars
  BY <1>11 DEF vars, TypeInv
<1> QED BY <1>1, <1>2, <1>3, <1>4, <1>5, <1>6, <1>7, <1>8, <1>9, <1>10, <1>11 DEF Next, Runner, World, Reconciles

----------------------------------------------------------------------------
(***************************************************************************)
(* An order's life.  Nothing happens to an order before its plan and its   *)
(* submission; what the venue says of it once its profit is stated is      *)
(* final; and it is in flight from its plan until it is closed.            *)
(***************************************************************************)

Final(o, f) ==
    f.filled = venue[o].filled /\ f.fee = venue[o].fee /\ f.profit = venue[o].profit

Life(o) ==
    /\ leg[o] = Unplanned => reply[o] = "none" /\ o \notin inflight /\ closed[o] = 0
    /\ reply[o] = "none" => venue[o].state = "absent"
    /\ venue[o].state = "absent" => stream[o] = << >>
    /\ venue[o].profit # << >> <=> venue[o].state = "settled"
    /\ delivered[o] <= Len(stream[o])
    /\ \A i \in 1 .. Len(stream[o]) : stream[o][i].profit # << >> => Final(o, stream[o][i])

Ended(o) ==
    leg[o] # Unplanned =>
        /\ o \in inflight <=> closed[o] = 0
        /\ closed[o] <= 1
        /\ o \in inflight => o \in DOMAIN ledger.orders
        /\ closed[o] = 1 => venue[o].state \in VenueDone

OrdersInv == TypeInv /\ \A o \in Orders : Life(o) /\ Ended(o)

\* What a step does not touch stays as it was.
Untouched(o) ==
    /\ leg'[o] = leg[o] /\ reply'[o] = reply[o] /\ venue'[o] = venue[o]
    /\ stream'[o] = stream[o] /\ delivered'[o] = delivered[o] /\ closed'[o] = closed[o]
    /\ o \in inflight' <=> o \in inflight
    /\ o \in DOMAIN ledger.orders => o \in DOMAIN ledger'.orders

LEMMA UntouchedLives ==
    ASSUME NEW o \in Orders, Life(o), Ended(o), Untouched(o)
    PROVE  Life(o)' /\ Ended(o)'
BY DEF Life, Ended, Untouched, Final

\* The steps up to the answer.
LEMMA LifeRunner ==
    ASSUME OrdersInv, TypeInv', NEW o \in Orders,
           \/ \E l \in LegChoices : Register(o, l)
           \/ \E b \in BOOLEAN : Submit(o, b) \/ Answer(o, b)
           \/ TimesOut(o)
    PROVE  OrdersInv'
<1>t. TypeInv /\ Life(o) /\ Ended(o)
  BY DEF OrdersInv
<1>1. CASE \E l \in LegChoices : Register(o, l)
  <2>1. PICK l \in LegChoices : Register(o, l)
    BY <1>1
  <2>2. /\ leg[o] = Unplanned /\ leg' = [leg EXCEPT ![o] = l] /\ inflight' = inflight \cup {o}
        /\ UNCHANGED <<reply, venue, stream, delivered, closed>>
        /\ DOMAIN ledger'.orders = DOMAIN ledger.orders \cup {o}
    BY <1>t, <2>1, LedgerEffects DEF Register, Planned, TypeInv
  <2>3. leg'[o] # Unplanned /\ \A p \in Orders \ {o} : Untouched(p)
    BY <1>t, <2>2, LegNumbers DEF Untouched, TypeInv
  <2>4. Life(o)' /\ Ended(o)'
    BY <1>t, <2>2, <2>3 DEF Life, Ended, Final
  <2> QED BY <2>3, <2>4, UntouchedLives DEF OrdersInv
<1>2. CASE \E b \in BOOLEAN : Submit(o, b)
  <2>1. PICK b \in BOOLEAN : Submit(o, b)
    BY <1>2
  <2>2. /\ leg[o] # Unplanned /\ reply[o] = "none"
        /\ reply'[o] # "none"
        /\ \A p \in Orders \ {o} : reply'[p] = reply[p] /\ venue'[p] = venue[p]
        /\ UNCHANGED <<leg, stream, delivered, closed, inflight, ledger>>
    BY <1>t, <2>1 DEF Submit, Planned, TypeInv
  <2>3. /\ venue'[o].state \in {"absent", "open", "canceled"} /\ venue'[o].profit = venue[o].profit
    <3>1. venue[o] \in AtVenue /\ venue[o].state = "absent" /\ venue \in [Orders -> AtVenue]
      BY <1>t, <2>2 DEF Life, TypeInv
    <3>2. /\ venue' = venue
          \/ venue' = [venue EXCEPT ![o] = [venue[o] EXCEPT !.state = "open", !.spent = SpentOn(leg[o]),
                                                            !.filled = FilledOf(leg[o])]]
          \/ venue' = [venue EXCEPT ![o] = [venue[o] EXCEPT !.state = "canceled"]]
      BY <2>1 DEF Submit
    <3>3. /\ [venue[o] EXCEPT !.state = "canceled"].profit = venue[o].profit
          /\ [venue[o] EXCEPT !.state = "canceled"].state = "canceled"
          /\ LET r == [venue[o] EXCEPT !.state = "open", !.spent = SpentOn(leg[o]), !.filled = FilledOf(leg[o])]
             IN  r.profit = venue[o].profit /\ r.state = "open"
      BY <3>1 DEF AtVenue
    <3> QED BY <3>1, <3>2, <3>3
  <2>4. venue[o].state = "absent" /\ stream[o] = << >> /\ Len(stream[o]) = 0 /\ closed[o] # 1
        /\ venue[o].profit = << >>
    BY <1>t, <2>2 DEF Life, Ended, VenueDone
  <2>5. Life(o)'
    <3>1. stream'[o] = << >> /\ Len(stream'[o]) = 0 /\ delivered'[o] = delivered[o]
      BY <2>2, <2>4
    <3> QED BY <1>t, <2>2, <2>3, <2>4, <3>1 DEF Life
  <2>6. Ended(o)'
    BY <1>t, <2>2, <2>4 DEF Ended
  <2>7. \A p \in Orders \ {o} : Untouched(p)
    BY <2>2 DEF Untouched
  <2> QED BY <2>5, <2>6, <2>7, UntouchedLives DEF OrdersInv
<1>3. CASE (\E b \in BOOLEAN : Answer(o, b)) \/ TimesOut(o)
  <2>1. /\ reply[o] = "awaited" /\ reply'[o] # "none" /\ \A p \in Orders \ {o} : reply'[p] = reply[p]
        /\ UNCHANGED <<leg, venue, stream, delivered, closed, inflight, ledger>>
    BY <1>t, <1>3 DEF Answer, TimesOut, TypeInv
  <2>2. Life(o)' /\ Ended(o)'
    BY <1>t, <2>1 DEF Life, Ended, Final
  <2>3. \A p \in Orders \ {o} : Untouched(p)
    BY <2>1 DEF Untouched
  <2> QED BY <2>2, <2>3, UntouchedLives DEF OrdersInv
<1> QED BY <1>1, <1>2, <1>3

\* What happens at the venue and what it says of it.
LEMMA LifeWorld ==
    ASSUME OrdersInv, TypeInv', NEW o \in Orders,
           \/ \E fee \in Fees : Charge(o, fee)
           \/ \E profit \in Profits : VenueSettles(o, profit)
           \/ VenueStates(o)
    PROVE  OrdersInv'
<1>t. TypeInv /\ Life(o) /\ Ended(o) /\ venue[o] \in AtVenue /\ stream[o] \in Seq(Frames)
  BY DEF OrdersInv, TypeInv
<1>1. CASE (\E fee \in Fees : Charge(o, fee)) \/ (\E profit \in Profits : VenueSettles(o, profit))
  <2>1. /\ venue[o].state = "open" /\ \A p \in Orders \ {o} : venue'[p] = venue[p]
        /\ UNCHANGED <<leg, reply, stream, delivered, closed, inflight, ledger>>
    BY <1>t, <1>1 DEF Charge, VenueSettles, TypeInv
  <2>2. venue'[o].state # "absent" /\ (venue'[o].profit # << >> <=> venue'[o].state = "settled")
    <3>1. ASSUME NEW fee, Charge(o, fee)
          PROVE  venue'[o].state = venue[o].state /\ venue'[o].profit = venue[o].profit
      <4>1. venue' = [venue EXCEPT ![o] = [venue[o] EXCEPT !.fee = fee]]
        BY <3>1 DEF Charge
      <4> QED BY <1>t, <4>1 DEF AtVenue, TypeInv
    <3>2. ASSUME NEW profit, VenueSettles(o, profit)
          PROVE  venue'[o].state = "settled" /\ venue'[o].profit = <<profit>>
      <4>1. venue' = [venue EXCEPT ![o] = [venue[o] EXCEPT !.state = "settled", !.profit = <<profit>>]]
        BY <1>t, <3>2 DEF VenueSettles, TypeInv
      <4> QED BY <1>t, <4>1 DEF AtVenue, TypeInv
    <3>3. \A profit : <<profit>> # << >>
      OBVIOUS
    <3> QED BY <1>t, <1>1, <2>1, <3>1, <3>2, <3>3 DEF Life
  <2>3. \A i \in 1 .. Len(stream[o]) : stream[o][i].profit = << >>
    BY <1>t, <2>1 DEF Life, Final
  <2>4. reply[o] # "none" /\ closed[o] # 1
    BY <1>t, <2>1 DEF Life, Ended, VenueDone
  <2>4a. leg[o] # Unplanned
    BY <1>t, <2>4 DEF Life
  <2>5. Life(o)'
    BY <1>t, <2>1, <2>2, <2>3, <2>4, <2>4a DEF Life
  <2>6. Ended(o)'
    BY <1>t, <2>1, <2>4, <2>4a DEF Ended
  <2>7. \A p \in Orders \ {o} : Untouched(p)
    BY <2>1 DEF Untouched
  <2> QED BY <2>5, <2>6, <2>7, UntouchedLives DEF OrdersInv
<1>2. CASE VenueStates(o)
  <2>1. /\ venue[o].state # "absent" /\ stream'[o] = Append(stream[o], Frame(o))
        /\ \A p \in Orders \ {o} : stream'[p] = stream[p]
        /\ UNCHANGED <<leg, reply, venue, delivered, closed, inflight, ledger>>
    BY <1>t, <1>2 DEF VenueStates, TypeInv
  <2>2. /\ Len(stream'[o]) = Len(stream[o]) + 1 /\ Len(stream[o]) \in Nat
        /\ stream'[o][Len(stream[o]) + 1] = Frame(o)
        /\ \A i \in 1 .. Len(stream[o]) : stream'[o][i] = stream[o][i]
    <3>1. Frame(o) \in Frames
      BY <1>t, PolledType
    <3> QED BY <1>t, <2>1, <3>1
  <2>3. Final(o, Frame(o))
    BY <1>t, PolledType DEF Final
  <2>4. \A i \in 1 .. Len(stream'[o]) : stream'[o][i].profit # << >> => Final(o, stream'[o][i])
    BY SMTT(30), <1>t, <2>2, <2>3 DEF Life
  <2>5. delivered[o] \in Nat /\ delivered[o] <= Len(stream'[o])
    BY <1>t, <2>2 DEF Life, TypeInv
  <2>6. Life(o)' /\ Ended(o)'
    BY <1>t, <2>1, <2>4, <2>5 DEF Life, Ended, Final
  <2>7. \A p \in Orders \ {o} : Untouched(p)
    BY <2>1 DEF Untouched
  <2> QED BY <2>6, <2>7, UntouchedLives DEF OrdersInv
<1> QED BY <1>1, <1>2

\* Frames that arrive change the ledger only.
LEMMA LifeDelivers ==
    ASSUME OrdersInv, TypeInv', NEW o \in Orders, NEW i \in 1 .. Len(stream[o]), Deliver(o, i)
    PROVE  /\ OrdersInv'
           /\ ledger' = Fold(ledger, [x \in {o} |-> stream[o][i]]) /\ stream[o][i] \in Frames
           /\ i <= delivered[o] + 1
           /\ delivered'[o] = (IF i > delivered[o] THEN i ELSE delivered[o]) /\ delivered[o] \in Nat
           /\ \A p \in Orders \ {o} : delivered'[p] = delivered[p]
           /\ UNCHANGED <<leg, reply, venue, stream, closed, inflight>>
           /\ DOMAIN ledger'.orders = DOMAIN ledger.orders
<1>t. TypeInv /\ Life(o) /\ Ended(o)
  BY DEF OrdersInv
<1> DEFINE frames == [x \in {o} |-> stream[o][i]]
<1>1. /\ i <= delivered[o] + 1
      /\ delivered'[o] = (IF i > delivered[o] THEN i ELSE delivered[o])
      /\ \A p \in Orders \ {o} : delivered'[p] = delivered[p]
      /\ UNCHANGED <<leg, reply, venue, stream, closed, inflight>>
      /\ ledger' = Fold(ledger, frames) /\ stream[o][i] \in Frames /\ delivered[o] \in Nat
  BY <1>t DEF Deliver, TypeInv
<1>2. DOMAIN ledger'.orders = DOMAIN ledger.orders
  <2>1. \A x \in DOMAIN frames : frames[x] \in Frames
    BY <1>1
  <2> HIDE DEF frames
  <2> QED BY <1>t, <1>1, <2>1, FoldType
<1>3. Life(o)' /\ Ended(o)'
  BY <1>t, <1>1, <1>2 DEF Life, Ended, Final
<1>4. \A p \in Orders \ {o} : Untouched(p)
  BY <1>1, <1>2 DEF Untouched
<1>5. OrdersInv'
  BY <1>3, <1>4, UntouchedLives DEF OrdersInv
<1> QED BY <1>1, <1>2, <1>5

\* A pass closes the orders whose venue is done with them.
LEMMA LifeReconciles ==
    ASSUME OrdersInv, TypeInv', NEW polled \in SUBSET Orders, Reconcile(polled)
    PROVE  /\ OrdersInv' /\ DOMAIN ledger'.orders = DOMAIN ledger.orders
           /\ UNCHANGED <<leg, reply, venue, stream, delivered>>
<1>t. TypeInv
  BY DEF OrdersInv
<1> DEFINE frames == [o \in polled |-> Polled(o)]
<1>1. /\ polled \subseteq inflight /\ inflight' = inflight \ Closing(polled)
      /\ closed' = [o \in Orders |-> closed[o] + (IF o \in Closing(polled) THEN 1 ELSE 0)]
      /\ UNCHANGED <<leg, reply, venue, stream, delivered>>
      /\ ledger' = Fold(ledger, frames)
  BY DEF Reconcile, Pollable
<1>2. DOMAIN ledger'.orders = DOMAIN ledger.orders
  <2>1. \A x \in DOMAIN frames : frames[x] \in Frames
    BY <1>t, PolledType
  <2> HIDE DEF frames
  <2> QED BY <1>t, <1>1, <2>1, FoldType
<1>3. ASSUME NEW o \in Orders PROVE Life(o)' /\ Ended(o)'
  <2>1. Life(o) /\ Ended(o) /\ venue[o] \in AtVenue /\ closed[o] \in Nat
    BY DEF OrdersInv, TypeInv
  <2>2. CASE o \in Closing(polled)
    <3>1. o \in inflight /\ venue[o].state \in VenueDone
      BY <1>1, <2>1, <2>2 DEF Closing, Terminal, VenueDone, AtVenue, States
    <3>2. closed[o] = 0 /\ leg[o] # Unplanned
      BY <2>1, <3>1 DEF Life, Ended
    <3>3. closed'[o] = 1 /\ o \notin inflight'
      BY <1>1, <2>2, <3>2
    <3> QED BY <1>1, <2>1, <3>1, <3>2, <3>3 DEF Life, Ended, Final
  <2>3. CASE o \notin Closing(polled)
    <3>1. Untouched(o)
      BY <1>1, <1>2, <2>1, <2>3 DEF Untouched
    <3> QED BY <2>1, <3>1, UntouchedLives
  <2> QED BY <2>2, <2>3
<1> QED BY <1>1, <1>2, <1>3 DEF OrdersInv

\* A restart keeps the in-flight set.
LEMMA LifeRestarts ==
    ASSUME OrdersInv, TypeInv', Restart
    PROVE  OrdersInv'
<1>1. ASSUME NEW o \in Orders PROVE Life(o)' /\ Ended(o)'
  <2>1. TypeInv /\ Life(o) /\ Ended(o)
    BY DEF OrdersInv
  <2>2. /\ leg' = leg /\ venue' = venue /\ stream' = stream /\ closed' = closed /\ inflight' = inflight
        /\ reply'[o] = (IF reply[o] = "awaited" THEN "failed" ELSE reply[o]) /\ delivered'[o] = 0
        /\ DOMAIN ledger'.orders = inflight
    BY <2>1, LedgerEffects DEF Restart, TypeInv
  <2>3. Len(stream[o]) \in Nat
    BY <2>1 DEF TypeInv
  <2> QED BY <2>1, <2>2, <2>3 DEF Life, Ended, Final
<1> QED BY <1>1 DEF OrdersInv

LEMMA LifeStep == OrdersInv /\ [Next]_vars => OrdersInv'
<1> SUFFICES ASSUME OrdersInv, [Next]_vars PROVE OrdersInv'
  OBVIOUS
<1>1. TypeInv'
  BY TypeStep DEF OrdersInv
<1>2. CASE UNCHANGED vars
  <2>1. \A o \in Orders : Untouched(o)
    BY <1>2 DEF Untouched, vars
  <2> QED BY <1>1, <2>1, UntouchedLives DEF OrdersInv
<1> QED BY <1>1, <1>2, LifeRunner, LifeWorld, LifeDelivers, LifeReconciles, LifeRestarts
        DEF Next, Runner, World, Reconciles

LEMMA InitOrders == Init => OrdersInv
<1> SUFFICES ASSUME Init PROVE OrdersInv
  OBVIOUS
<1>1. Absent \in AtVenue
  BY DEF Absent, AtVenue, States, ProfitStated
<1>2. IsLedger(EmptyLedger) /\ EmptyLedger.orders = << >> /\ DOMAIN EmptyLedger.orders = {}
  <2>1. EmptyLedger.orders = << >> /\ EmptyLedger.profit = 0 /\ EmptyLedger.fees = 0
        /\ EmptyLedger.applied = {}
    BY DEF EmptyLedger
  <2>2. DOMAIN << >> = {} /\ 0 \in Int
    OBVIOUS
  <2>3. EmptyLedger = [orders |-> EmptyLedger.orders, profit |-> EmptyLedger.profit,
                       fees |-> EmptyLedger.fees, applied |-> EmptyLedger.applied]
    BY ONLY <2>1, Zenon DEF EmptyLedger
  <2>4. EmptyLedger.profit \in Int
    BY ONLY <2>1, <2>2
  <2> QED BY <2>1, <2>2, <2>3, <2>4, Zenon DEF IsLedger
<1>3. TypeInv
  <2>1. << >> \in Seq(Frames)
    OBVIOUS
  <2> QED BY <1>1, <1>2, <2>1 DEF Init, TypeInv, Replies
<1>4. \A o \in Orders : Life(o) /\ Ended(o)
  <2>1. Absent.state = "absent" /\ Absent.profit = << >> /\ Len(<< >>) = 0
    BY DEF Absent
  <2> QED BY <2>1 DEF Init, Life, Ended
<1> QED BY <1>3, <1>4 DEF OrdersInv

LEMMA OrdersInvariant == Spec => []OrdersInv
BY InitOrders, LifeStep, PTL DEF Spec

\* An order leaves the in-flight set once, when its venue is done with it, and
\* no pass meets one the ledger does not know, whatever is lost, fails or
\* restarts (Reconciler::reconcile).
THEOREM Closure == Spec => []ClosedOnceAtTheEnd
<1>1. OrdersInv => ClosedOnceAtTheEnd
  BY DEF OrdersInv, Ended, ClosedOnceAtTheEnd, Planned
<1> QED BY <1>1, OrdersInvariant, PTL

----------------------------------------------------------------------------
(***************************************************************************)
(* The books.  An order's profit is stated by frames that all have the     *)
(* same fingerprint, and it is in the books exactly when that fingerprint  *)
(* is: one such frame was delivered since the process started.             *)
(***************************************************************************)

Told(o) == \E i \in 1 .. delivered[o] : stream[o][i].profit # << >>

FinalPrint(o) == <<o, venue[o].filled, venue[o].fee, venue[o].profit>>

PrintsAgree(o) ==
    /\ o \in DOMAIN ledger.orders /\ Told(o) => FinalPrint(o) \in ledger.applied
    /\ \A n, fee \in Int, p \in ProfitStated :
          <<o, n, fee, p>> \in ledger.applied /\ p # << >> => Told(o)

BooksInv == OrdersInv /\ (\A o \in Orders : PrintsAgree(o)) /\ ProfitBookedOnce

\* An order told of is settled, and its profit is a number.
LEMMA ToldIsFinal ==
    ASSUME OrdersInv, NEW o \in Orders
    PROVE  /\ Told(o) => venue[o].state = "settled"
           /\ Earned(o) \in Int
           /\ Earned(o) = IF o \in DOMAIN ledger.orders /\ Told(o) THEN venue[o].profit[1] ELSE 0
<1>1. Life(o) /\ venue[o] \in AtVenue /\ Len(stream[o]) \in Nat /\ delivered[o] \in Nat
  BY DEF OrdersInv, TypeInv
<1>2. \A i \in 1 .. delivered[o] : i \in 1 .. Len(stream[o])
  BY <1>1 DEF Life
<1>3. Told(o) => venue[o].profit # << >>
  BY <1>1, <1>2 DEF Told, Life, Final
<1>4. venue[o].profit # << >> => venue[o].profit[1] \in Int
  <2>1. venue[o].profit \in ProfitStated
    BY <1>1 DEF AtVenue
  <2> QED BY <2>1 DEF ProfitStated
<1> QED BY <1>1, <1>3, <1>4 DEF Life, Earned, Told

\* Steps that keep what was told, to whom, and the books.
LEMMA BooksQuiet ==
    ASSUME BooksInv, OrdersInv', ledger'.applied = ledger.applied, ledger'.profit = ledger.profit,
           \A o \in Orders :
               /\ Told(o)' <=> Told(o)
               /\ Told(o) => venue'[o] = venue[o]
               /\ Told(o) => (o \in DOMAIN ledger'.orders <=> o \in DOMAIN ledger.orders)
    PROVE  BooksInv'
<1>1. ASSUME NEW o \in Orders PROVE PrintsAgree(o)' /\ Earned(o)' = Earned(o)
  <2>1. PrintsAgree(o)
    BY DEF BooksInv
  <2>2. PrintsAgree(o)'
    BY <2>1 DEF PrintsAgree, FinalPrint
  <2>3. Earned(o)' = Earned(o)
    BY DEF Earned, Told
  <2> QED BY <2>2, <2>3
<1>2. [o \in Orders |-> Earned(o)'] = [o \in Orders |-> Earned(o)]
  BY <1>1
<1>3. ProfitBookedOnce'
  BY <1>2 DEF BooksInv, ProfitBookedOnce
<1> QED BY <1>1, <1>3 DEF BooksInv

LEMMA BooksUntold ==
    ASSUME BooksInv, OrdersInv', NEW o \in Orders,
           \/ \E l \in LegChoices : Register(o, l)
           \/ \E b \in BOOLEAN : Submit(o, b) \/ Answer(o, b)
           \/ TimesOut(o)
           \/ \E fee \in Fees : Charge(o, fee)
           \/ \E profit \in Profits : VenueSettles(o, profit)
           \/ VenueStates(o)
    PROVE  BooksInv'
<1>t. OrdersInv /\ TypeInv /\ Life(o) /\ (Told(o) => venue[o].state = "settled")
  BY ToldIsFinal DEF BooksInv, OrdersInv
<1>1. delivered' = delivered /\ ledger'.applied = ledger.applied /\ ledger'.profit = ledger.profit
  BY <1>t, LedgerEffects DEF Register, Submit, Answer, TimesOut, Charge, VenueSettles, VenueStates, TypeInv
<1>2. /\ \A p \in Orders \ {o} : venue'[p] = venue[p] /\ stream'[p] = stream[p]
      /\ \A p \in Orders \ {o} : p \in DOMAIN ledger'.orders <=> p \in DOMAIN ledger.orders
  <2>1. \A p \in Orders \ {o} : venue'[p] = venue[p] /\ stream'[p] = stream[p]
    BY <1>t DEF Register, Submit, Answer, TimesOut, Charge, VenueSettles, VenueStates, TypeInv
  <2>2. \A p \in Orders \ {o} : p \in DOMAIN ledger'.orders <=> p \in DOMAIN ledger.orders
    BY <1>t, LedgerEffects DEF Register, Submit, Answer, TimesOut, Charge, VenueSettles, VenueStates, TypeInv
  <2> QED BY <2>1, <2>2
<1>3. \A i \in 1 .. delivered[o] : stream'[o][i] = stream[o][i]
  <2>1. \A i \in 1 .. delivered[o] : i \in 1 .. Len(stream[o])
    BY <1>t DEF Life, TypeInv
  <2>2. CASE VenueStates(o)
    <3>1. stream'[o] = Append(stream[o], Frame(o)) /\ stream[o] \in Seq(Frames) /\ Frame(o) \in Frames
      BY <1>t, <2>2, PolledType DEF VenueStates, TypeInv
    <3> QED BY <2>1, <3>1
  <2>3. CASE ~VenueStates(o)
    BY <2>3 DEF Register, Submit, Answer, TimesOut, Charge, VenueSettles
  <2> QED BY <2>2, <2>3
<1>4. Told(o) => /\ venue'[o] = venue[o]
                 /\ o \in DOMAIN ledger'.orders <=> o \in DOMAIN ledger.orders
  <2>1. Told(o) => leg[o] # Unplanned /\ reply[o] # "none" /\ venue[o].state # "open"
    BY <1>t DEF Life
  <2>2. Told(o) => venue'[o] = venue[o] /\ ledger' = ledger
    BY <2>1 DEF Register, Planned, Submit, Answer, TimesOut, Charge, VenueSettles, VenueStates
  <2> QED BY <2>2
<1>5. \A p \in Orders : Told(p)' <=> Told(p)
  BY <1>1, <1>2, <1>3 DEF Told
<1> QED BY <1>1, <1>2, <1>4, <1>5, BooksQuiet

\* A frame adds an order's profit when it is the first that states it.
LEMMA BooksDeliver ==
    ASSUME BooksInv, OrdersInv', NEW o \in Orders, NEW i \in 1 .. Len(stream[o]), Deliver(o, i)
    PROVE  BooksInv'
<1>t. OrdersInv /\ TypeInv /\ TypeInv' /\ Life(o) /\ ProfitBookedOnce /\ PrintsAgree(o)
  BY DEF BooksInv, OrdersInv
<1> DEFINE f == stream[o][i]
           frames == [x \in {o} |-> f]
           print == <<o, f.filled, f.fee, f.profit>>
           new == {x \in DOMAIN frames \cap DOMAIN ledger.orders :
                       <<x, frames[x].filled, frames[x].fee, frames[x].profit>> \notin ledger.applied}
           gains == [x \in new |-> IF frames[x].profit = << >> THEN 0 ELSE frames[x].profit[1]]
<1>0. /\ ledger' = Fold(ledger, frames) /\ f \in Frames /\ i <= delivered[o] + 1
      /\ delivered'[o] = (IF i > delivered[o] THEN i ELSE delivered[o]) /\ delivered[o] \in Nat
      /\ \A p \in Orders \ {o} : delivered'[p] = delivered[p]
      /\ stream' = stream /\ venue' = venue
      /\ DOMAIN ledger'.orders = DOMAIN ledger.orders
  BY <1>t, LifeDelivers
<1>1. /\ ledger'.applied = ledger.applied \cup {<<x, frames[x].filled, frames[x].fee, frames[x].profit>> : x \in new}
      /\ ledger'.profit = ledger.profit + SumFunctionOnSet(gains, new)
  <2>1. \A x \in DOMAIN frames : frames[x] \in Frames
    BY <1>0
  <2>2. IsFiniteSet(DOMAIN ledger.orders)
    BY <1>t, <2>1, FoldType
  <2> QED BY <1>t, <1>0, <2>1, <2>2, FoldEffect DEF TypeInv
<1>2. /\ Told(o)' <=> (Told(o) \/ f.profit # << >>)
      /\ \A p \in Orders \ {o} : Told(p)' <=> Told(p)
  BY <1>0 DEF Told
<1>3. f.profit # << >> => print = FinalPrint(o)
  BY <1>t DEF Life, Final, FinalPrint
<1>4. new = IF o \in DOMAIN ledger.orders /\ print \notin ledger.applied THEN {o} ELSE {}
  OBVIOUS
<1>5. \A p \in Orders \ {o} : PrintsAgree(p)' /\ Earned(p)' = Earned(p)
  <2>1. TAKE p \in Orders \ {o}
  <2>2. PrintsAgree(p)
    BY DEF BooksInv
  <2>3. \A n, fee \in Int, q \in ProfitStated : <<p, n, fee, q>> \in ledger'.applied
                                               => <<p, n, fee, q>> \in ledger.applied
    BY <1>1, <1>4
  <2>4. ledger.applied \subseteq ledger'.applied
    BY <1>1
  <2>5. PrintsAgree(p)'
    BY <1>0, <1>2, <2>2, <2>3, <2>4 DEF PrintsAgree, FinalPrint
  <2>6. Earned(p)' = Earned(p)
    BY <1>0, <1>2 DEF Earned, Told
  <2> QED BY <2>5, <2>6
<1>6. PrintsAgree(o)'
  <2>1. /\ ledger.applied \subseteq ledger'.applied
        /\ ledger'.applied = ledger.applied \/ ledger'.applied = ledger.applied \cup {print}
        /\ o \in DOMAIN ledger.orders => print \in ledger'.applied
    <3>1. ledger'.applied = ledger.applied \cup {<<x, frames[x].filled, frames[x].fee, frames[x].profit>> : x \in new}
      BY <1>1
    <3>2. \A x \in {o} : <<x, frames[x].filled, frames[x].fee, frames[x].profit>> = print
      OBVIOUS
    <3>3. new = {} \/ new = {o}
      BY <1>4
    <3>4. o \in DOMAIN ledger.orders /\ print \notin ledger.applied => new = {o}
      BY <1>4
    <3> HIDE DEF new, print, frames
    <3>5. CASE new = {}
      <4>1. ledger'.applied = ledger.applied
        BY <3>1, <3>5
      <4> QED BY <3>4, <3>5, <4>1
    <3>6. CASE new = {o}
      <4>1. ledger'.applied = ledger.applied \cup {print}
        BY <3>1, <3>2, <3>6
      <4> QED BY <4>1
    <3> QED BY <3>3, <3>5, <3>6
  <2> HIDE DEF print, f
  <2>2. o \in DOMAIN ledger'.orders /\ Told(o)' => FinalPrint(o) \in ledger'.applied
    BY <1>t, <1>0, <1>2, <1>3, <2>1 DEF PrintsAgree
  <2>3. ASSUME NEW n \in Int, NEW fee \in Int, NEW q \in ProfitStated, <<o, n, fee, q>> \in ledger'.applied,
               q # << >>
        PROVE  Told(o)'
    <3>1. <<o, n, fee, q>> \in ledger.applied \/ <<o, n, fee, q>> = print
      BY <2>1, <2>3
    <3>2. <<o, n, fee, q>> = print => q = f.profit
      BY DEF print
    <3> QED BY <1>t, <1>2, <2>3, <3>1, <3>2 DEF PrintsAgree
  <2> QED BY <1>0, <2>2, <2>3 DEF PrintsAgree, FinalPrint
<1>7. ledger'.profit = ledger.profit + (Earned(o)' - Earned(o))
  <2>1. /\ Earned(o)' = IF o \in DOMAIN ledger.orders /\ Told(o)' THEN venue[o].profit[1] ELSE 0
        /\ Earned(o) = IF o \in DOMAIN ledger.orders /\ Told(o) THEN venue[o].profit[1] ELSE 0
        /\ Earned(o) \in Int
    BY <1>t, <1>0, ToldIsFinal DEF Earned, Told
  <2>2. ledger.profit \in Int
    BY <1>t DEF TypeInv, IsLedger
  <2>3. CASE f.profit # << >> /\ o \in DOMAIN ledger.orders /\ print \notin ledger.applied
    <3>1. new = {o} /\ gains[o] = f.profit[1]
      BY <1>4, <2>3
    <3>2. f.profit[1] \in Int
      <4>1. f.profit \in ProfitStated
        BY <1>0 DEF Frames
      <4> HIDE DEF f
      <4> QED BY <2>3, <4>1 DEF ProfitStated
    <3>3. SumFunctionOnSet(gains, new) = f.profit[1]
      <4> HIDE DEF gains, new, f
      <4> QED BY <3>1, <3>2, SumOfOne
    <3>4. ~Told(o) /\ Told(o)' /\ venue[o].profit = f.profit
      BY <1>t, <1>2, <1>3, <2>3 DEF PrintsAgree, FinalPrint
    <3> HIDE DEF gains, new, f
    <3> QED BY <1>1, <2>1, <2>2, <2>3, <3>2, <3>3, <3>4
  <2>4. CASE f.profit = << >> \/ o \notin DOMAIN ledger.orders \/ print \in ledger.applied
    <3>1. SumFunctionOnSet(gains, new) = 0
      <4>1. IsFiniteSet(new)
        <5> HIDE DEF new
        <5> QED BY <1>4, FS_EmptySet, FS_Singleton
      <4>2. \A x \in new : gains[x] = 0
        BY <1>4, <2>4
      <4> HIDE DEF gains, new
      <4> QED BY <4>1, <4>2, SumOfZeros
    <3>2. o \in DOMAIN ledger.orders => (Told(o)' <=> Told(o))
      <4>1. f.filled \in Int /\ f.fee \in Int /\ f.profit \in ProfitStated
        BY <1>0 DEF Frames
      <4> HIDE DEF f
      <4> QED BY <1>t, <1>2, <2>4, <4>1 DEF PrintsAgree
    <3>3. Earned(o)' = Earned(o)
      BY <2>1, <3>2
    <3> HIDE DEF gains, new
    <3> QED BY <1>1, <2>1, <2>2, <3>1, <3>3
  <2> QED BY <2>3, <2>4
<1>8. ProfitBookedOnce'
  <2> DEFINE e == [p \in Orders |-> Earned(p)]
             g == [p \in Orders |-> Earned(p)']
  <2>1. /\ \A p \in Orders : e[p] \in Int /\ g[p] \in Int
        /\ \A p \in Orders \ {o} : e[p] = g[p]
        /\ e[o] = Earned(o) /\ g[o] = Earned(o)'
    <3>1. \A p \in Orders : Earned(p) \in Int
      BY <1>t, ToldIsFinal
    <3>2. Earned(o)' \in Int
      <4>1. Earned(o)' = (IF o \in DOMAIN ledger.orders /\ Told(o)' THEN venue[o].profit[1] ELSE 0)
        BY <1>0 DEF Earned, Told
      <4>2. Told(o)' => venue[o].profit # << >>
        <5>1. Told(o) => venue[o].profit # << >>
          BY <1>t, ToldIsFinal DEF Life
        <5>2. f.profit # << >> => f.profit = venue[o].profit
          BY <1>t DEF Life, Final
        <5> HIDE DEF f
        <5> QED BY <1>2, <5>1, <5>2
      <4>3. venue[o].profit \in ProfitStated
        BY <1>t DEF TypeInv, AtVenue
      <4>4. venue[o].profit # << >> => venue[o].profit[1] \in Int
        BY <4>3 DEF ProfitStated
      <4> QED BY <4>1, <4>2, <4>4
    <3> QED BY <1>5, <3>1, <3>2
  <2> HIDE DEF e, g
  <2>2. SumFunctionOnSet(g, Orders) = SumFunctionOnSet(e, Orders) + g[o] - e[o]
    BY <2>1, SumOfChanged, OrdersAssumption
  <2>3. SumFunctionOnSet(e, Orders) \in Int
    BY <2>1, SumType, OrdersAssumption
  <2>4. ledger.profit = SumFunctionOnSet(e, Orders)
    BY <1>t DEF ProfitBookedOnce, e
  <2>5. ledger'.profit = SumFunctionOnSet(g, Orders)
    BY <1>7, <2>1, <2>2, <2>3, <2>4
  <2> QED BY <2>5 DEF ProfitBookedOnce, g
<1> QED BY <1>5, <1>6, <1>8 DEF BooksInv

\* A poll states no profit.
LEMMA BooksReconcile ==
    ASSUME BooksInv, OrdersInv', NEW polled \in SUBSET Orders, Reconcile(polled)
    PROVE  BooksInv'
<1>t. OrdersInv /\ TypeInv /\ TypeInv' /\ ProfitBookedOnce
  BY DEF BooksInv, OrdersInv
<1> DEFINE frames == [o \in polled |-> Polled(o)]
           new == {x \in DOMAIN frames \cap DOMAIN ledger.orders :
                       <<x, frames[x].filled, frames[x].fee, frames[x].profit>> \notin ledger.applied}
           gains == [x \in new |-> IF frames[x].profit = << >> THEN 0 ELSE frames[x].profit[1]]
<1>0. /\ DOMAIN ledger'.orders = DOMAIN ledger.orders
      /\ UNCHANGED <<leg, reply, venue, stream, delivered>>
      /\ ledger' = Fold(ledger, frames)
  BY <1>t, LifeReconciles DEF Reconcile
<1>1. /\ ledger'.applied = ledger.applied \cup {<<x, frames[x].filled, frames[x].fee, frames[x].profit>> : x \in new}
      /\ ledger'.profit = ledger.profit + SumFunctionOnSet(gains, new)
      /\ IsFiniteSet(new)
  <2>1. \A x \in DOMAIN frames : frames[x] \in Frames
    BY <1>t, PolledType
  <2>2. IsFiniteSet(DOMAIN ledger.orders)
    BY <1>t, <2>1, FoldType
  <2> QED BY <1>t, <1>0, <2>1, <2>2, FoldEffect DEF TypeInv
<1>2. \A x \in new : frames[x].profit = << >> /\ gains[x] = 0
  BY <1>t, PolledType
<1>3. ledger'.profit = ledger.profit
  <2>1. ledger.profit \in Int
    BY <1>t DEF TypeInv, IsLedger
  <2> HIDE DEF new, gains
  <2>2. SumFunctionOnSet(gains, new) = 0
    BY <1>1, <1>2, SumOfZeros
  <2> QED BY <1>1, <2>1, <2>2
<1>4. \A o \in Orders : PrintsAgree(o)'
  <2>1. TAKE o \in Orders
  <2>2. PrintsAgree(o)
    BY DEF BooksInv
  <2>3. \A n, fee \in Int, p \in ProfitStated :
            <<o, n, fee, p>> \in ledger'.applied /\ p # << >> => <<o, n, fee, p>> \in ledger.applied
    BY <1>1, <1>2
  <2>4. ledger.applied \subseteq ledger'.applied
    BY <1>1
  <2> HIDE DEF new, frames
  <2> QED BY <1>0, <2>2, <2>3, <2>4 DEF PrintsAgree, FinalPrint, Told
<1>5. [o \in Orders |-> Earned(o)'] = [o \in Orders |-> Earned(o)]
  BY <1>0 DEF Earned
<1>6. ProfitBookedOnce'
  BY <1>t, <1>3, <1>5 DEF ProfitBookedOnce
<1> QED BY <1>4, <1>6 DEF BooksInv

LEMMA BooksRestart ==
    ASSUME BooksInv, OrdersInv', Restart
    PROVE  BooksInv'
<1>1. ledger'.applied = {} /\ ledger'.profit = 0 /\ \A o \in Orders : delivered'[o] = 0
  BY LedgerEffects DEF Restart, BooksInv, OrdersInv, TypeInv
<1>2. \A o \in Orders : ~Told(o)' /\ Earned(o)' = 0
  BY <1>1 DEF Told, Earned
<1>3. \A o \in Orders : PrintsAgree(o)'
  BY <1>1, <1>2 DEF PrintsAgree
<1>4. ProfitBookedOnce'
  <2> DEFINE g == [o \in Orders |-> Earned(o)']
  <2>1. \A o \in Orders : g[o] = 0
    BY <1>2
  <2> HIDE DEF g
  <2>2. SumFunctionOnSet(g, Orders) = 0
    BY <2>1, SumOfZeros, OrdersAssumption
  <2> QED BY <1>1, <2>2 DEF ProfitBookedOnce, g
<1> QED BY <1>3, <1>4 DEF BooksInv

LEMMA BooksStep == BooksInv /\ [Next]_vars => BooksInv'
<1> SUFFICES ASSUME BooksInv, [Next]_vars PROVE BooksInv'
  OBVIOUS
<1>1. OrdersInv'
  BY LifeStep DEF BooksInv
<1>2. CASE UNCHANGED vars
  BY <1>1, <1>2, BooksQuiet DEF vars, Told
<1> QED BY <1>1, <1>2, BooksUntold, BooksDeliver, BooksReconcile, BooksRestart
        DEF Next, Runner, World, Reconciles

\* Replayed frames, polls and restarts book an order's profit once: the ledger
\* holds the sum of what the orders this process was told of have earned
\* (ReconciliationLedger.apply_fill).
THEOREM Bookkeeping == Spec => []ProfitBookedOnce
<1>1. Init => BooksInv
  <2> SUFFICES ASSUME Init PROVE BooksInv
    OBVIOUS
  <2>1. EmptyLedger.applied = {} /\ EmptyLedger.profit = 0
    BY DEF EmptyLedger
  <2>2. \A o \in Orders : ~Told(o) /\ Earned(o) = 0 /\ PrintsAgree(o)
    BY <2>1 DEF Init, Told, Earned, PrintsAgree
  <2>3. ProfitBookedOnce
    <3> DEFINE g == [o \in Orders |-> Earned(o)]
    <3>1. \A o \in Orders : g[o] = 0
      BY <2>2
    <3> HIDE DEF g
    <3>2. SumFunctionOnSet(g, Orders) = 0
      BY <3>1, SumOfZeros, OrdersAssumption
    <3> QED BY <2>1, <3>2 DEF Init, ProfitBookedOnce, g
  <2> QED BY <2>2, <2>3, InitOrders DEF BooksInv
<1>2. BooksInv => ProfitBookedOnce
  BY DEF BooksInv
<1> QED BY <1>1, <1>2, BooksStep, PTL DEF Spec
=============================================================================
