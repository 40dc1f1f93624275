-------------------------- MODULE ProdTraderProofs --------------------------
(***************************************************************************)
(* Proofs about the production runner: its types, that the durable         *)
(* in-flight set covers every order that may be open at a venue, that a    *)
(* live restart therefore meets none, that what is reported of a hedge     *)
(* agrees with its legs, that a filled hedge stays pollable, that the      *)
(* first session's limits hold for every later one, and that no capital    *)
(* leaks from the gate's accounts.                                         *)
(***************************************************************************)
EXTENDS ProdTrader, DataLemmas, TLAPS

VenueStates == OpenAtVenue \cup Terminal \cup {"none", "rejected", "flattened"}
Replies == {"none", "full", "short", "err"}
DiskType == [exists : BOOLEAN, config : PolicyType, loss : Int, open : Nat,
             inflight : SUBSET Entries]

\* Replacing one trade keeps the history's length and its other trades.
LEMMA EditTrade ==
    ASSUME trades \in Seq(Trade), NEW t \in 1 .. Len(trades), NEW r \in Trade
    PROVE  LET ts == [trades EXCEPT ![t] = r] IN
           /\ ts \in Seq(Trade)
           /\ Len(ts) = Len(trades)
           /\ ts[t] = r
           /\ \A u \in 1 .. Len(trades) : u # t => ts[u] = trades[u]
  OBVIOUS

\* Each field of a trade can be updated within its type.
LEMMA EditFields ==
    ASSUME NEW r \in Trade, NEW l \in Legs
    PROVE  /\ \A f \in Fates : [r EXCEPT !.fate = f] \in Trade
           /\ \A a \in Replies : [r EXCEPT !.resp[l] = a] \in Trade
           /\ \A v \in VenueStates : [r EXCEPT !.venue[l] = v] \in Trade
  BY DEF Trade, Replies, VenueStates

\* The gate's operations keep its type.
LEMMA GateTypes ==
    ASSUME NEW g \in Gate, NEW stake \in Amounts, NEW edge \in Nat
    PROVE  /\ AfterPreflight(g, stake, edge) \in Gate
           /\ ReleaseTrade(g, stake) \in Gate
           /\ SettleGate(g, 0) \in Gate
<1>0. ASSUME NEW h \in Gate, NEW a \in Amounts PROVE [h EXCEPT !.cash = a] \in Gate
  BY DEF Gate
<1>1. \A ls \in SUBSET Legs : Reserve(g, stake, ls) \in Gate
  <2>1. SUFFICES ASSUME NEW ls \in SUBSET Legs PROVE Reserve(g, stake, ls) \in Gate
    OBVIOUS
  <2>2. [l \in Legs |-> IF l \in ls THEN g.cash[l] - stake[l] ELSE g.cash[l]] \in Amounts
    BY DEF Amounts, Gate
  <2>. QED BY <1>0, <2>2 DEF Reserve
<1>2. ASSUME NEW h \in Gate PROVE \A ls \in SUBSET Legs : Release(h, stake, ls) \in Gate
  <2>1. SUFFICES ASSUME NEW ls \in SUBSET Legs PROVE Release(h, stake, ls) \in Gate
    OBVIOUS
  <2>2. [l \in Legs |-> IF l \in ls THEN h.cash[l] + stake[l] ELSE h.cash[l]] \in Amounts
    BY DEF Amounts, Gate
  <2>. QED BY <1>0, <2>2 DEF Release
<1>3. Reservable(g, stake) \subseteq Legs
  BY DEF Reservable
<1>4. ASSUME NEW h \in Gate
      PROVE  /\ [h EXCEPT !.open = @ + 1] \in Gate
             /\ [h EXCEPT !.open = SaturatingDec(@)] \in Gate
  BY DEF Gate, SaturatingDec
<1>5. AfterPreflight(g, stake, edge) \in Gate
  BY <1>1, <1>2, <1>3, <1>4 DEF AfterPreflight
<1>6. ReleaseTrade(g, stake) \in Gate
  BY <1>2, <1>4 DEF ReleaseTrade
<1>7. SettleGate(g, 0) \in Gate
  <2>1. ASSUME NEW x \in Int, NEW n \in Nat
        PROVE [g EXCEPT !.loss = x, !.open = n] \in Gate
    BY DEF Gate
  <2>2. g.loss \in Int /\ SaturatingDec(g.open) \in Nat
    BY DEF Gate, SaturatingDec
  <2>3. ~(0 < 0)
    OBVIOUS
  <2>4. SettleGate(g, 0) = [g EXCEPT !.loss = g.loss, !.open = SaturatingDec(g.open)]
    BY <2>3 DEF SettleGate
  <2>. QED BY <2>1, <2>2, <2>4
<1>. QED BY <1>5, <1>6, <1>7

\* The state a registration starts from when nothing is stored.
LEMMA FreshDisk == [NoDisk EXCEPT !.exists = TRUE] \in DiskType
<1>1. DefaultPolicy \in PolicyType
  BY TraderAssumption
<1>2. NoDisk \in DiskType
  BY <1>1 DEF NoDisk, DiskType
<1>3. \A d \in DiskType : [d EXCEPT !.exists = TRUE] \in DiskType
  BY DEF DiskType
<1>. QED BY <1>2, <1>3

\* The store's operations keep its type, whatever the outcome of the call.
LEMMA StoreTypes ==
    ASSUME NEW d \in DiskType, NEW o
    PROVE  /\ \A g \in Gate : Checkpoint(d, g, o) \in DiskType
           /\ \A e \in Entries : RegisterInflight(d, e, o) \in DiskType
           /\ \A id : \A n \in Nat : Acknowledge(d, id, n, o) \in DiskType
           /\ \A id : ClearInflight(d, id, o) \in DiskType
<1>1. \A g \in Gate : Checkpoint(d, g, o) \in DiskType
  BY DEF Checkpoint, DiskType, Gate
<1>2. ASSUME NEW d2 \in DiskType, NEW es \in SUBSET Entries
      PROVE  [d2 EXCEPT !.inflight = es] \in DiskType
  BY DEF DiskType
<1>3. \A d2 \in DiskType : d2.inflight \in SUBSET Entries
  BY DEF DiskType
<1>4. [NoDisk EXCEPT !.exists = TRUE] \in DiskType
  BY FreshDisk
<1>5. ASSUME NEW e \in Entries PROVE RegisterInflight(d, e, o) \in DiskType
  <2>1. \A es \in SUBSET Entries : Put(es, e) \in SUBSET Entries
    BY DEF Put
  <2>2. \A d2 \in DiskType : [d2 EXCEPT !.inflight = Put(@, e)] \in DiskType
    BY <1>2, <1>3, <2>1
  <2>. QED BY <1>4, <2>2 DEF RegisterInflight
<1>6. ASSUME NEW id, NEW n \in Nat PROVE Acknowledge(d, id, n, o) \in DiskType
  <2>1. \A f \in Entries : [f EXCEPT !.order = n] \in Entries
    BY DEF Entries
  <2>2. AckEntry(d.inflight, id, n) \in SUBSET Entries
    BY <1>3, <2>1 DEF AckEntry
  <2>. QED BY <1>2, <2>2 DEF Acknowledge
<1>7. ASSUME NEW id PROVE ClearInflight(d, id, o) \in DiskType
  <2>1. Drop(d.inflight, id) \in SUBSET Entries
    BY <1>3 DEF Drop
  <2>. QED BY <1>2, <2>1 DEF ClearInflight
<1>. QED BY <1>1, <1>5, <1>6, <1>7

\* Each update of the history the runner and the venues make, at trade t.
LEMMA EditHistory ==
    ASSUME trades \in Seq(Trade), NEW t \in 1 .. cur, NEW l \in Legs
    PROVE  /\ \A f \in Fates :
                /\ [trades EXCEPT ![t].fate = f] \in Seq(Trade)
                /\ Len([trades EXCEPT ![t].fate = f]) = cur
           /\ \A a \in Replies :
                /\ [trades EXCEPT ![t].resp[l] = a] \in Seq(Trade)
                /\ Len([trades EXCEPT ![t].resp[l] = a]) = cur
           /\ \A v \in VenueStates :
                /\ [trades EXCEPT ![t].venue[l] = v] \in Seq(Trade)
                /\ Len([trades EXCEPT ![t].venue[l] = v]) = cur
<1>1. trades[t] \in Trade
  BY DEF cur
<1>2. ASSUME NEW r \in Trade
      PROVE  [trades EXCEPT ![t] = r] \in Seq(Trade) /\ Len([trades EXCEPT ![t] = r]) = cur
  BY DEF cur
<1>3. /\ \A f \in Fates : [trades[t] EXCEPT !.fate = f] \in Trade
      /\ \A a \in Replies : [trades[t] EXCEPT !.resp[l] = a] \in Trade
      /\ \A v \in VenueStates : [trades[t] EXCEPT !.venue[l] = v] \in Trade
  BY <1>1, EditFields
<1>. QED BY <1>2, <1>3

\* The pc's between TakeSignal and the end of its plan.
Working == {"persist", "rollback", "preflight", "submit", "unwind", "ack"}

\* TypeOK and what it needs to be inductive: a plan in hand is the last one.
TypeInv ==
    /\ TypeOK
    /\ pc \in Working => cur > 0
    /\ pc = "persist" => step \in Legs

LEMMA InitType == Init => TypeInv
<1>. SUFFICES ASSUME Init PROVE TypeInv
  OBVIOUS
<1>1. DefaultPolicy \in PolicyType
  BY TraderAssumption
<1>2. NoCash \in Amounts
  BY DEF NoCash, Amounts
<1>3. gate \in Gate
  BY <1>1, <1>2 DEF Init, NoGate, NewGate, Gate
<1>4. disk \in DiskType
  BY <1>1 DEF Init, NoDisk, DiskType
<1>5. session \in [first : Nat, base : Amounts, policy : PolicyType]
  BY <1>1, <1>2 DEF Init
<1>6. trades \in Seq(Trade)
  BY DEF Init
<1>. QED BY <1>3, <1>4, <1>5, <1>6 DEF Init, TypeInv, TypeOK, DiskType, Working

\* The facts about the current state that the steps below use.
LEMMA TypeFacts ==
    ASSUME TypeInv
    PROVE  /\ gate \in Gate /\ disk \in DiskType /\ trades \in Seq(Trade) /\ cur \in Nat
           /\ book \subseteq Entries /\ todo \subseteq Entries
           /\ \A t \in 1 .. cur : trades[t] \in Trade
           /\ pc \in Working => cur \in 1 .. cur
           /\ \A t \in 1 .. cur : \A l \in Legs :
                /\ EntryFor(t, l) \in Entries
                /\ trades[t].stake \in Amounts /\ trades[t].edge \in Nat
                /\ trades[t].venue[l] \in VenueStates
                /\ trades[t].resp[l] \in Replies
<1>1. trades \in Seq(Trade) /\ cur \in Nat
  BY DEF TypeInv, TypeOK, cur
<1>2. \A t \in 1 .. cur : trades[t] \in Trade
  BY <1>1 DEF cur
<1>3. \A t \in 1 .. cur : \A l \in Legs : EntryFor(t, l) \in Entries
  BY <1>2 DEF EntryFor, ClientId, Entries, Trade
<1>4. \A t \in 1 .. cur : \A l \in Legs :
                /\ trades[t].stake \in Amounts /\ trades[t].edge \in Nat
                /\ trades[t].venue[l] \in VenueStates
                /\ trades[t].resp[l] \in Replies
  BY <1>2 DEF Trade, VenueStates, Replies
<1>. QED BY <1>1, <1>2, <1>3, <1>4 DEF TypeInv, TypeOK, DiskType

LEMMA TypeRunner ==
    ASSUME TypeInv, RunnerStep
    PROVE  TypeInv'
<1>. USE TypeFacts
<1>1. ASSUME NEW o, PersistLeg(o) PROVE TypeInv'
  <2>1. disk' \in DiskType
    BY <1>1, StoreTypes DEF PersistLeg, TypeInv, Working
  <2>2. book' \subseteq Entries
    BY <1>1 DEF PersistLeg, TypeInv, Working, Put, Legs
  <2>3. trades' \in Seq(Trade) /\ Len(trades') = cur
    <3>1. cur \in 1 .. cur /\ 1 \in Legs /\ "skipped" \in Fates
      BY <1>1 DEF PersistLeg, Working, Fates, Legs
    <3>2. trades' = trades \/ trades' = [trades EXCEPT ![cur].fate = "skipped"]
      BY <1>1 DEF PersistLeg
    <3>3. [trades EXCEPT ![cur].fate = "skipped"] \in Seq(Trade)
          /\ Len([trades EXCEPT ![cur].fate = "skipped"]) = cur
      BY <3>1, EditHistory
    <3>. QED BY <3>2, <3>3 DEF cur
  <2>. QED BY <1>1, <2>1, <2>2, <2>3 DEF PersistLeg, TypeInv, TypeOK, Working, DiskType, cur, Legs
<1>2. ASSUME NEW o, RollBack(o) PROVE TypeInv'
  <2>1. disk' \in DiskType
    BY <1>2, StoreTypes DEF RollBack
  <2>2. trades' \in Seq(Trade) /\ Len(trades') = cur
    BY <1>2, EditHistory DEF RollBack, Working, Fates, Legs
  <2>. QED BY <1>2, <2>1, <2>2 DEF RollBack, TypeInv, TypeOK, Working, DiskType, cur
<1>3. ASSUME NEW o, AckLeg(o) PROVE TypeInv'
  <2>1. disk' \in DiskType
    BY <1>3, StoreTypes DEF AckLeg
  <2>2. book' \subseteq Entries
    <3>1. \A f \in Entries : [f EXCEPT !.order = cur] \in Entries
      BY DEF Entries
    <3>. QED BY <1>3, <3>1 DEF AckLeg, AckEntry
  <2>. QED BY <1>3, <2>1, <2>2 DEF AckLeg, TypeInv, TypeOK, Working, DiskType, cur, Legs
<1>4. ASSUME NEW o, CheckpointTrade(o) PROVE TypeInv'
  <2>1. disk' \in DiskType
    BY <1>4, StoreTypes DEF CheckpointTrade
  <2>. QED BY <1>4, <2>1 DEF CheckpointTrade, TypeInv, TypeOK, Working, DiskType, cur
<1>5. ASSUME NEW o, CheckpointSettled(o) PROVE TypeInv'
  <2>1. disk' \in DiskType
    BY <1>5, StoreTypes DEF CheckpointSettled
  <2>. QED BY <1>5, <2>1 DEF CheckpointSettled, TypeInv, TypeOK, Working, DiskType, cur
<1>6. ASSUME NEW o, NEW e \in todo, SettleEntry(e, o) PROVE TypeInv'
  <2>1. disk' \in DiskType
    BY <1>6, StoreTypes DEF SettleEntry
  <2>2. gate' \in Gate
    <3>1. NoCash \in Amounts
      BY DEF NoCash, Amounts
    <3>. QED BY <1>6, <3>1, GateTypes DEF SettleEntry
  <2>. QED BY <1>6, <2>1, <2>2 DEF SettleEntry, TypeInv, TypeOK, Working, DiskType, cur
<1>7. ASSUME PreflightRejects \/ PreflightAdmits PROVE TypeInv'
  <2>1. gate' \in Gate
    BY <1>7, GateTypes DEF PreflightRejects, PreflightAdmits, Working, Legs
  <2>2. trades' \in Seq(Trade) /\ Len(trades') = cur
    BY <1>7, EditHistory DEF PreflightRejects, PreflightAdmits, Working, Fates, Legs
  <2>. QED BY <1>7, <2>1, <2>2 DEF PreflightRejects, PreflightAdmits, TypeInv, TypeOK, Working, cur
<1>8. ASSUME Classify PROVE TypeInv'
  <2>1. trades' \in Seq(Trade) /\ Len(trades') = cur
    BY <1>8, EditHistory DEF Classify, Working, Fates, Legs, cur
  <2>. QED BY <1>8, <2>1 DEF Classify, TypeInv, TypeOK, Working, cur
<1>9. ASSUME UnwindSkips PROVE TypeInv'
  BY <1>9 DEF UnwindSkips, TypeInv, TypeOK, Working, Legs, cur
<1>10. ASSUME UnwindSucceeds PROVE TypeInv'
  <2>1. trades' \in Seq(Trade) /\ Len(trades') = cur
    <3>1. cur \in 1 .. cur /\ step \in Legs /\ "unwound" \in VenueStates
      BY <1>10 DEF UnwindSucceeds, Working, VenueStates, Terminal
    <3>2. trades' = [trades EXCEPT ![cur].venue[step] = "unwound"]
      BY <1>10 DEF UnwindSucceeds
    <3>. QED BY <3>1, <3>2, EditHistory
  <2>. QED BY <1>10, <2>1 DEF UnwindSucceeds, TypeInv, TypeOK, Working, Legs, cur
<1>11. ASSUME UnwindFails PROVE TypeInv'
  <2>1. trades' \in Seq(Trade) /\ Len(trades') = cur
    <3>1. cur \in 1 .. cur /\ step \in Legs /\ "stuck" \in Fates
      BY <1>11 DEF UnwindFails, Working, Fates
    <3>2. trades' = [trades EXCEPT ![cur].fate = "stuck"]
      BY <1>11 DEF UnwindFails
    <3>. QED BY <3>1, <3>2, EditHistory
  <2>. QED BY <1>11, <2>1 DEF UnwindFails, TypeInv, TypeOK, Working, cur
<1>12. ASSUME ReleasePhantom PROVE TypeInv'
  <2>1. gate' \in Gate
    BY <1>12, GateTypes DEF ReleasePhantom, Working, Legs
  <2>2. trades' \in Seq(Trade) /\ Len(trades') = cur
    BY <1>12, EditHistory DEF ReleasePhantom, Working, Fates, Legs
  <2>. QED BY <1>12, <2>1, <2>2 DEF ReleasePhantom, TypeInv, TypeOK, Working, cur
<1>13. ASSUME NEW l \in Legs, Send(l) PROVE TypeInv'
  <2>1. trades' \in Seq(Trade) /\ Len(trades') = cur
    <3>1. cur \in 1 .. cur /\ "sent" \in VenueStates /\ "full" \in VenueStates
      BY <1>13 DEF Send, Working, VenueStates, OpenAtVenue
    <3>2. PICK v \in VenueStates : trades' = [trades EXCEPT ![cur].venue[l] = v]
      BY <1>13, <3>1 DEF Send
    <3>3. [trades EXCEPT ![cur].venue[l] = v] \in Seq(Trade)
          /\ Len([trades EXCEPT ![cur].venue[l] = v]) = cur
      BY <3>1, EditHistory
    <3>. QED BY <3>2, <3>3
  <2>. QED BY <1>13, <2>1 DEF Send, TypeInv, TypeOK, Working, cur
<1>14. ASSUME NEW l \in Legs, NEW r \in {"full", "short", "err"}, Reply(l, r) PROVE TypeInv'
  <2>1. trades' \in Seq(Trade) /\ Len(trades') = cur
    <3>1. cur \in 1 .. cur /\ r \in Replies
      BY <1>14 DEF Reply, Working, Replies
    <3>2. trades' = [trades EXCEPT ![cur].resp[l] = r]
      BY <1>14 DEF Reply
    <3>. QED BY <3>1, <3>2, EditHistory
  <2>. QED BY <1>14, <2>1 DEF Reply, TypeInv, TypeOK, Working, cur
<1>. QED BY <1>1, <1>2, <1>3, <1>4, <1>5, <1>6, <1>7, <1>8, <1>9, <1>10, <1>11, <1>12,
            <1>13, <1>14 DEF RunnerStep

LEMMA TypeOutside ==
    ASSUME TypeInv, Outside
    PROVE  TypeInv'
<1>. USE TypeFacts
<1>1. ASSUME Forget, disk' \in DiskType, UNCHANGED <<trades, session, starts>>
      PROVE  TypeInv'
  <2>1. gate' \in Gate
    <3>1. DefaultPolicy \in PolicyType
      BY TraderAssumption
    <3>2. NoCash \in Amounts
      BY DEF NoCash, Amounts
    <3>. QED BY <1>1, <3>1, <3>2 DEF Forget, NoGate, NewGate, Gate
  <2>. QED BY <1>1, <2>1 DEF Forget, TypeInv, TypeOK, Working, DiskType, cur
<1>2. ASSUME NEW config \in Policies, NEW kill \in BOOLEAN, NEW balances \in [Legs -> Balances],
             NEW ol, NEW oc, Startup(config, kill, balances, ol, oc)
      PROVE  TypeInv'
  <2>1. config \in PolicyType /\ balances \in Amounts
    BY TraderAssumption DEF Amounts
  <2>2. gate' \in Gate
    BY <1>2, <2>1 DEF Startup, NewGate, Gate, DiskType
  <2>3. disk' \in DiskType
    BY <1>2, <2>2, StoreTypes DEF Startup
  <2>4. book' \subseteq Entries
    BY <1>2 DEF Startup, DiskType
  <2>5. session' \in [first : Nat, base : Amounts, policy : PolicyType]
    BY <1>2, <2>1, <2>2 DEF Startup, Gate, TypeInv, TypeOK
  <2>. QED BY <1>2, <2>2, <2>3, <2>4, <2>5 DEF Startup, TypeInv, TypeOK, Working, DiskType, cur
<1>3. ASSUME NEW key \in Keys, SkipUnresolved(key) PROVE TypeInv'
  BY <1>3 DEF SkipUnresolved, TypeInv, TypeOK, Working, cur
<1>4. ASSUME NEW market \in Markets, NEW key \in Keys, NEW stake \in [Legs -> Stakes],
             NEW edge \in Edges, TakeSignal(market, key, stake, edge)
      PROVE  TypeInv'
  <2>1. stake \in Amounts /\ edge \in Nat
    BY TraderAssumption DEF Amounts
  <2>2. [market |-> market, stake |-> stake, edge |-> edge, fate |-> "planned",
         resp |-> [l \in Legs |-> "none"],
         venue |-> [l \in Legs |-> "none"]] \in Trade
    BY <2>1 DEF Trade, Fates
  <2>3. trades' \in Seq(Trade) /\ Len(trades') = cur + 1
    BY <1>4, <2>2 DEF TakeSignal, cur
  <2>. QED BY <1>4, <2>3 DEF TakeSignal, TypeInv, TypeOK, Working, cur, Legs
<1>5. ASSUME NEW engage \in BOOLEAN, NEW confirm \in BOOLEAN, KillSwitch(engage, confirm)
      PROVE  TypeInv'
  <2>1. gate' \in Gate
    BY <1>5 DEF KillSwitch, Gate
  <2>. QED BY <1>5, <2>1 DEF KillSwitch, TypeInv, TypeOK, Working, cur
<1>6. ASSUME NEW o, EndSession(o) PROVE TypeInv'
  <2>1. disk' \in DiskType
    BY <1>6, StoreTypes DEF EndSession
  <2>. QED BY <1>1, <1>6, <2>1 DEF EndSession
<1>7. ASSUME Crash PROVE TypeInv'
  BY <1>1, <1>7 DEF Crash
<1>. QED BY <1>2, <1>3, <1>4, <1>5, <1>6, <1>7 DEF Outside

LEMMA TypeVenue ==
    ASSUME TypeInv, Reconciling \/ Venue \/ OperatorReconciles
    PROVE  TypeInv'
<1>. USE TypeFacts
<1>1. ASSUME NEW es, Reconcile(es) PROVE TypeInv'
  BY <1>1 DEF Reconcile, Pollable, TypeInv, TypeOK, Working, cur
<1>2. ASSUME trades' \in Seq(Trade), Len(trades') = cur, disk' \in DiskType,
             UNCHANGED <<pc, step, mem, session, starts>>
      PROVE  TypeInv'
  BY <1>2 DEF mem, TypeInv, TypeOK, Working, DiskType, cur
<1>3. ASSUME NEW t \in 1 .. cur, NEW l \in Legs, NEW v \in Handlings, VenueHandles(t, l, v)
      PROVE  TypeInv'
  <2>1. v \in VenueStates
    BY TraderAssumption DEF VenueStates, OpenAtVenue
  <2>2. trades' \in Seq(Trade) /\ Len(trades') = cur
    BY <1>3, <2>1, EditHistory DEF VenueHandles
  <2>. QED BY <1>2, <1>3, <2>2 DEF VenueHandles
<1>4. ASSUME NEW t \in 1 .. cur, NEW l \in Legs, VenueSettles(t, l) PROVE TypeInv'
  <2>1. "settled" \in VenueStates /\ "canceled" \in VenueStates
    BY DEF VenueStates, Terminal
  <2>2. PICK v \in VenueStates : trades' = [trades EXCEPT ![t].venue[l] = v]
    BY <1>4, <2>1 DEF VenueSettles
  <2>3. trades' \in Seq(Trade) /\ Len(trades') = cur
    BY <2>2, EditHistory
  <2>. QED BY <1>2, <1>4, <2>3 DEF VenueSettles
<1>5. ASSUME OperatorReconciles PROVE TypeInv'
  <2>1. \A t \in 1 .. cur :
            [trades[t] EXCEPT !.venue =
               [l \in Legs |-> IF @[l] \in OpenAtVenue THEN "flattened" ELSE @[l]]] \in Trade
    <3>1. SUFFICES ASSUME NEW t \in 1 .. cur
                   PROVE  [trades[t] EXCEPT !.venue =
               [l \in Legs |-> IF @[l] \in OpenAtVenue THEN "flattened" ELSE @[l]]] \in Trade
      OBVIOUS
    <3>2. "flattened" \in VenueStates
      BY DEF VenueStates
    <3>3. [l \in Legs |-> IF trades[t].venue[l] \in OpenAtVenue THEN "flattened"
                          ELSE trades[t].venue[l]] \in [Legs -> VenueStates]
      BY <3>2
    <3>4. \A r \in Trade : \A f \in [Legs -> VenueStates] : [r EXCEPT !.venue = f] \in Trade
      BY DEF Trade, VenueStates
    <3>. QED BY <3>3, <3>4
  <2>2. trades' \in Seq(Trade) /\ Len(trades') = cur
    <3>1. ASSUME NEW f, f \in [1 .. cur -> Trade] PROVE f \in Seq(Trade) /\ Len(f) = cur
      BY <3>1
    <3>2. trades' \in [1 .. cur -> Trade]
      BY <1>5, <2>1 DEF OperatorReconciles
    <3>. QED BY <3>1, <3>2
  <2>3. disk' \in DiskType
    BY <1>5 DEF OperatorReconciles, DiskType
  <2>. QED BY <1>2, <1>5, <2>2, <2>3 DEF OperatorReconciles
<1>. QED BY <1>1, <1>3, <1>4, <1>5 DEF Reconciling, Venue

LEMMA TypeStep == TypeInv /\ [Next]_vars => TypeInv'
<1>. SUFFICES ASSUME TypeInv, [Next]_vars PROVE TypeInv'
  OBVIOUS
<1>1. CASE UNCHANGED vars
  BY <1>1 DEF vars, TypeInv, TypeOK, Working, cur
<1>. QED BY <1>1, TypeRunner, TypeOutside, TypeVenue DEF Next

LEMMA TypeInvariant == Spec => []TypeInv
  BY InitType, TypeStep, PTL DEF Spec

\* The runner's gate, history, in-flight lists and durable state stay in their
\* types: in particular a plan in hand is always the newest of the history,
\* and saturating_sub keeps the count of open trades a natural number.
THEOREM TypeCorrect == Spec => []TypeOK
<1>1. TypeInv => TypeOK
  BY DEF TypeInv
<1>. QED BY <1>1, TypeInvariant, PTL

----------------------------------------------------------------------------
(***************************************************************************)
(* Recovery.  NoOrderUnrecorded is not inductive: clearing a settled       *)
(* entry could drop the id of a newer order, and a plan could be sent      *)
(* before its entries are durable.  OrderInv adds that an acknowledged     *)
(* entry's order is the newest one sent under its id and that what is      *)
(* about to be cleared is terminal; PlanInv adds what the runner has       *)
(* written at each pc before anything of a plan is sent.                   *)
(***************************************************************************)
Sound(e) ==
    e.order # 0 =>
       /\ e.order <= cur
       /\ trades[e.order].market = e.id[1]
       /\ \A t \in (e.order + 1) .. cur :
             trades[t].market = e.id[1] => trades[t].venue[e.id[2]] = "none"

OrderInv ==
    /\ disk.inflight # {} => disk.exists
    /\ \A e \in disk.inflight \cup book \cup todo : Sound(e)
    /\ \A e \in todo : e.order # 0 /\ trades[e.order].venue[e.id[2]] \in Terminal
    /\ NoOrderUnrecorded

Unacked(es, id) == \A e \in es : e.id = id => e.order = 0

PlanInv ==
    /\ pc \in {"persist", "rollback", "preflight"} =>
          \A l \in Legs : trades[cur].venue[l] = "none"
    /\ \A l \in Legs : pc \in {"preflight", "submit"} \/ (pc = "persist" /\ l < step) =>
          /\ ClientId(cur, l) \in Ids(disk.inflight)
          /\ Unacked(disk.inflight, ClientId(cur, l))
    /\ \A l \in Legs : pc \in {"preflight", "submit"} => Unacked(book, ClientId(cur, l))
    /\ pc # "settle" => todo = {}

RecoveryInv == TypeInv /\ PlanInv /\ OrderInv

\* What a step may do to the orders without putting one at risk: it sends
\* none, reopens none, and leaves the newest plan of each market in place.
Calm ==
    /\ cur' >= cur
    /\ \A t \in 1 .. cur :
          /\ trades'[t].market = trades[t].market
          /\ \A l \in Legs :
                /\ trades[t].venue[l] = "none" => trades'[t].venue[l] = "none"
                /\ trades[t].venue[l] \in Terminal => trades'[t].venue[l] \in Terminal
                /\ trades'[t].venue[l] \in OpenAtVenue => trades[t].venue[l] \in OpenAtVenue
    /\ \A t \in (cur + 1) .. cur' : \A l \in Legs : trades'[t].venue[l] = "none"

\* A step that is calm, adds only sound entries, and drops no id a newest
\* order needs, keeps OrderInv.
LEMMA OrderStep ==
    ASSUME TypeInv, TypeInv', OrderInv, Calm,
           disk'.inflight # {} => disk'.exists,
           \A e \in disk'.inflight \cup book' \cup todo' :
              e \in disk.inflight \cup book \cup todo \/ e.order = 0 \/ Sound(e)',
           todo' \subseteq todo,
           \A t \in 1 .. cur : \A l \in Legs :
              Newest(t) /\ trades[t].venue[l] \in OpenAtVenue =>
                 ClientId(t, l) \in Ids(disk'.inflight)
    PROVE  OrderInv'
<1>. USE TypeFacts
<1>0. cur' \in Nat /\ todo' \subseteq Entries /\ book' \subseteq Entries /\ disk'.inflight \subseteq Entries
  BY DEF TypeInv, TypeOK, cur
<1>1. ASSUME NEW e \in Entries, Sound(e) PROVE Sound(e)'
  <2>. SUFFICES ASSUME e.order # 0
       PROVE  /\ e.order <= cur' /\ trades'[e.order].market = e.id[1]
              /\ \A t \in (e.order + 1) .. cur' :
                   trades'[t].market = e.id[1] => trades'[t].venue[e.id[2]] = "none"
    BY DEF Sound
  <2>1. e.order \in 1 .. cur /\ e.id[2] \in Legs
    BY <1>1 DEF Sound, Entries
  <2>2. trades'[e.order].market = e.id[1]
    BY <1>1, <2>1 DEF Sound, Calm
  <2>3. ASSUME NEW t \in (e.order + 1) .. cur', trades'[t].market = e.id[1]
        PROVE  trades'[t].venue[e.id[2]] = "none"
    <3>1. CASE t <= cur
      <4>1. t \in 1 .. cur /\ t \in (e.order + 1) .. cur
        BY <2>1, <3>1, <1>0
      <4>2. trades[t].venue[e.id[2]] = "none"
        BY <1>1, <2>3, <4>1 DEF Sound, Calm
      <4>. QED BY <4>1, <4>2, <2>1 DEF Calm
    <3>2. CASE t > cur
      <4>1. t \in (cur + 1) .. cur'
        BY <2>1, <3>2, <1>0
      <4>. QED BY <4>1, <2>1 DEF Calm
    <3>. QED BY <3>1, <3>2, <2>1, <1>0
  <2>. QED BY <2>1, <2>2, <2>3, <1>0 DEF Calm
<1>2. \A e \in disk.inflight \cup book \cup todo : e \in Entries /\ Sound(e)
  BY DEF OrderInv, DiskType
<1>3. ASSUME NEW e \in disk'.inflight \cup book' \cup todo' PROVE Sound(e)'
  <2>1. CASE e \in disk.inflight \cup book \cup todo
    BY <1>1, <1>2, <2>1
  <2>2. CASE e.order = 0
    BY <2>2 DEF Sound
  <2>. QED BY <2>1, <2>2
<1>4. ASSUME NEW e \in todo' PROVE e.order # 0 /\ trades'[e.order].venue[e.id[2]] \in Terminal
  <2>1. e \in todo /\ e \in Entries /\ Sound(e)
    BY <1>2, <1>4
  <2>2. e.order # 0 /\ trades[e.order].venue[e.id[2]] \in Terminal
    BY <2>1 DEF OrderInv
  <2>3. e.order \in 1 .. cur /\ e.id[2] \in Legs
    BY <2>1, <2>2 DEF Sound, Entries
  <2>. QED BY <2>2, <2>3 DEF Calm
<1>5. ASSUME NEW t \in 1 .. cur', NEW l \in Legs, Newest(t)',
             trades'[t].venue[l] \in OpenAtVenue
      PROVE  <<trades'[t].market, l>> \in Ids(disk'.inflight)
  <2>1. t \in 1 .. cur
    <3>1. "none" \notin OpenAtVenue
      BY DEF OpenAtVenue
    <3>2. CASE t > cur
      BY <1>5, <3>1, <3>2, <1>0 DEF Calm
    <3>. QED BY <3>2, <1>0
  <2>2. Newest(t)
    BY <1>5, <2>1, <1>0 DEF Newest, Calm
  <2>3. trades[t].venue[l] \in OpenAtVenue /\ trades'[t].market = trades[t].market
    BY <1>5, <2>1 DEF Calm
  <2>. QED BY <2>1, <2>2, <2>3 DEF ClientId
<1>6. NoOrderUnrecorded'
  BY <1>5 DEF NoOrderUnrecorded, ClientId
<1>. QED BY <1>3, <1>4, <1>6 DEF OrderInv

\* A step that leaves the stored entries alone and adds none keeps OrderInv.
LEMMA QuietOrders ==
    ASSUME TypeInv, TypeInv', OrderInv, Calm,
           disk'.inflight = disk.inflight, disk'.inflight # {} => disk'.exists,
           book' \subseteq book \cup disk.inflight, todo' \subseteq todo
    PROVE  OrderInv'
<1>1. \A e \in disk'.inflight \cup book' \cup todo' : e \in disk.inflight \cup book \cup todo
  OBVIOUS
<1>2. \A t \in 1 .. cur : \A l \in Legs :
          Newest(t) /\ trades[t].venue[l] \in OpenAtVenue => ClientId(t, l) \in Ids(disk'.inflight)
  BY DEF OrderInv, NoOrderUnrecorded
<1>. QED BY <1>1, <1>2, OrderStep

\* PlanInv asks nothing away from the pc's before the last send.
LEMMA IdlePlan ==
    ASSUME pc' \notin {"persist", "rollback", "preflight", "submit"}, pc' # "settle" => todo' = {}
    PROVE  PlanInv'
  BY DEF PlanInv

\* A calm step that moves nothing of the runner keeps PlanInv.
LEMMA SamePlan ==
    ASSUME TypeInv, PlanInv, Calm, cur' = cur, UNCHANGED <<pc, step, book, todo>>,
           disk'.inflight = disk.inflight
    PROVE  PlanInv'
<1>. USE TypeFacts
<1>1. CASE pc \in Working
  <2>1. cur \in 1 .. cur
    BY <1>1
  <2>2. trades'[cur].market = trades[cur].market
        /\ \A l \in Legs : trades[cur].venue[l] = "none" => trades'[cur].venue[l] = "none"
    BY <2>1 DEF Calm
  <2>. QED BY <2>2 DEF PlanInv, ClientId, Unacked
<1>2. CASE pc \notin Working
  BY <1>2 DEF PlanInv, Working
<1>. QED BY <1>1, <1>2

\* Replacing one trade by one on the same market that sends and reopens none.
LEMMA CalmEdit ==
    ASSUME TypeInv, NEW t \in 1 .. cur, NEW r, trades' = [trades EXCEPT ![t] = r],
           r.market = trades[t].market,
           \A l \in Legs :
              /\ trades[t].venue[l] = "none" => r.venue[l] = "none"
              /\ trades[t].venue[l] \in Terminal => r.venue[l] \in Terminal
              /\ r.venue[l] \in OpenAtVenue => trades[t].venue[l] \in OpenAtVenue
    PROVE  Calm /\ cur' = cur
<1>. USE TypeFacts
<1>1. cur' = cur
  BY DEF cur
<1>2. \A u \in 1 .. cur : trades'[u] = IF u = t THEN r ELSE trades[u]
  BY DEF cur
<1>. QED BY <1>1, <1>2 DEF Calm

LEMMA CalmSame ==
    ASSUME TypeInv, trades' = trades
    PROVE  Calm /\ cur' = cur
<1>. USE TypeFacts
<1>1. cur' = cur
  BY DEF cur
<1>. QED BY <1>1 DEF Calm

\* The runner's and the venues' edits are calm, except a send.
LEMMA CalmEdits ==
    ASSUME TypeInv, NEW t \in 1 .. cur, NEW l \in Legs,
           \/ \E f : trades' = [trades EXCEPT ![t].fate = f]
           \/ \E a : trades' = [trades EXCEPT ![t].resp[l] = a]
           \/ \E v : /\ trades' = [trades EXCEPT ![t].venue[l] = v]
                     /\ trades[t].venue[l] \in OpenAtVenue
    PROVE  Calm /\ cur' = cur
<1>. USE TypeFacts
<1>0. trades[t] \in Trade
  OBVIOUS
<1>1. ASSUME NEW f, trades' = [trades EXCEPT ![t].fate = f] PROVE Calm /\ cur' = cur
  <2>. DEFINE r == [trades[t] EXCEPT !.fate = f]
  <2>1. trades' = [trades EXCEPT ![t] = r]
    BY <1>1
  <2>2. r.market = trades[t].market /\ r.venue = trades[t].venue
    BY <1>0 DEF Trade
  <2>. QED BY <2>1, <2>2, CalmEdit
<1>2. ASSUME NEW a, trades' = [trades EXCEPT ![t].resp[l] = a] PROVE Calm /\ cur' = cur
  <2>. DEFINE r == [trades[t] EXCEPT !.resp[l] = a]
  <2>1. trades' = [trades EXCEPT ![t] = r]
    BY <1>2
  <2>2. r.market = trades[t].market /\ r.venue = trades[t].venue
    BY <1>0 DEF Trade
  <2>. QED BY <2>1, <2>2, CalmEdit
<1>3. ASSUME NEW v, trades' = [trades EXCEPT ![t].venue[l] = v], trades[t].venue[l] \in OpenAtVenue
      PROVE  Calm /\ cur' = cur
  <2>. DEFINE r == [trades[t] EXCEPT !.venue[l] = v]
  <2>1. r.market = trades[t].market /\ \A m \in Legs : m # l => r.venue[m] = trades[t].venue[m]
    BY <1>0 DEF Trade
  <2>2. trades[t].venue[l] # "none" /\ trades[t].venue[l] \notin Terminal
    BY <1>3 DEF OpenAtVenue, Terminal
  <2>3. \A m \in Legs :
              /\ trades[t].venue[m] = "none" => r.venue[m] = "none"
              /\ trades[t].venue[m] \in Terminal => r.venue[m] \in Terminal
              /\ r.venue[m] \in OpenAtVenue => trades[t].venue[m] \in OpenAtVenue
    BY <1>3, <2>1, <2>2
  <2>4. trades' = [trades EXCEPT ![t] = r]
    BY <1>3
  <2>. QED BY <2>1, <2>3, <2>4, CalmEdit
<1>. QED BY <1>1, <1>2, <1>3

\* What a store call that can load its file does to the recovery set.
LEMMA StoreEffects ==
    ASSUME NEW d \in DiskType, d.inflight # {} => d.exists, NEW o \in {"ok", "saveFails"}
    PROVE  /\ \A g : /\ Checkpoint(d, g, o).inflight = d.inflight
                     /\ d.exists => Checkpoint(d, g, o).exists
                     /\ d.inflight # {} => Checkpoint(d, g, o).exists
           /\ \A e : /\ RegisterInflight(d, e, o).inflight
                           = IF o = "saveFails" THEN d.inflight ELSE Put(d.inflight, e)
                     /\ RegisterInflight(d, e, o).inflight # {} => RegisterInflight(d, e, o).exists
           /\ \A id, n : /\ Acknowledge(d, id, n, o).inflight
                              \in {d.inflight, AckEntry(d.inflight, id, n)}
                         /\ Acknowledge(d, id, n, o).exists = d.exists
           /\ \A id : /\ ClearInflight(d, id, o).inflight \in {d.inflight, Drop(d.inflight, id)}
                      /\ ClearInflight(d, id, o).exists = d.exists
<1>1. ASSUME NEW g PROVE /\ Checkpoint(d, g, o).inflight = d.inflight
                         /\ d.exists => Checkpoint(d, g, o).exists
                         /\ d.inflight # {} => Checkpoint(d, g, o).exists
  BY DEF Checkpoint, Loads, DiskType
<1>2. ASSUME NEW e
      PROVE  /\ RegisterInflight(d, e, o).inflight
                           = IF o = "saveFails" THEN d.inflight ELSE Put(d.inflight, e)
             /\ RegisterInflight(d, e, o).inflight # {} => RegisterInflight(d, e, o).exists
  <2>1. CASE o = "saveFails"
    BY <2>1 DEF RegisterInflight
  <2>2. CASE o = "ok" /\ d.exists
    <3>1. RegisterInflight(d, e, o) = [d EXCEPT !.inflight = Put(d.inflight, e)]
      BY <2>2 DEF RegisterInflight, Loads
    <3>. QED BY <2>2, <3>1 DEF DiskType
  <2>3. CASE o = "ok" /\ ~d.exists
    <3>. DEFINE fresh == [NoDisk EXCEPT !.exists = TRUE]
    <3>1. RegisterInflight(d, e, o) = [fresh EXCEPT !.inflight = Put(fresh.inflight, e)]
      BY <2>3 DEF RegisterInflight, Loads
    <3>2. fresh.inflight = {} /\ fresh.exists /\ d.inflight = {}
      BY <2>3 DEF NoDisk
    <3>3. fresh \in DiskType
      BY FreshDisk
    <3>4. RegisterInflight(d, e, o).inflight = Put(fresh.inflight, e)
          /\ RegisterInflight(d, e, o).exists
      BY <3>1, <3>2, <3>3 DEF DiskType
    <3>. QED BY <2>3, <3>2, <3>4
  <2>. QED BY <2>1, <2>2, <2>3
<1>3. ASSUME NEW id, NEW n
      PROVE  /\ Acknowledge(d, id, n, o).inflight \in {d.inflight, AckEntry(d.inflight, id, n)}
             /\ Acknowledge(d, id, n, o).exists = d.exists
  BY DEF Acknowledge, DiskType
<1>4. ASSUME NEW id
      PROVE  /\ ClearInflight(d, id, o).inflight \in {d.inflight, Drop(d.inflight, id)}
             /\ ClearInflight(d, id, o).exists = d.exists
  BY DEF ClearInflight, DiskType
<1>. QED BY <1>1, <1>2, <1>3, <1>4

\* Clearing one id leaves the others.
LEMMA ClearSafe ==
    ASSUME NEW es, NEW id, NEW fs \in {es, Drop(es, id)}
    PROVE  \A x \in Ids(es) : x # id => x \in Ids(fs)
  BY DEF Ids, Drop

\* Calm steps that leave the stored entries alone and end outside a plan.
LEMMA QuietStep ==
    ASSUME RecoveryInv, TypeInv', Calm,
           disk'.inflight = disk.inflight, disk'.inflight # {} => disk'.exists,
           book' \subseteq book \cup disk.inflight, todo' \subseteq todo,
           pc' \notin {"persist", "rollback", "preflight", "submit"}, pc' # "settle" => todo' = {}
    PROVE  RecoveryInv'
  BY QuietOrders, IdlePlan DEF RecoveryInv

\* Calm steps that move nothing of the runner.
LEMMA StillStep ==
    ASSUME RecoveryInv, TypeInv', Calm, cur' = cur, UNCHANGED <<pc, step, book, todo, disk>>
    PROVE  RecoveryInv'
<1>1. OrderInv'
  BY QuietOrders DEF RecoveryInv, OrderInv
<1>2. PlanInv'
  BY SamePlan DEF RecoveryInv
<1>. QED BY <1>1, <1>2 DEF RecoveryInv

\* Registering the entries of a plan, leg by leg.
LEMMA RecoveryPersist ==
    ASSUME RecoveryInv, TypeInv', NEW o \in {"ok", "saveFails"}, PersistLeg(o)
    PROVE  RecoveryInv'
<1>. USE TypeFacts DEF RecoveryInv
<1>0. pc = "persist" /\ step \in Legs /\ cur \in 1 .. cur /\ todo = {} /\ todo' = {}
  BY DEF PersistLeg, TypeInv, Working, PlanInv
<1>1. Calm /\ cur' = cur
  BY <1>0, CalmSame, CalmEdits DEF PersistLeg, Legs
<1>2. /\ disk'.inflight = IF o = "saveFails" THEN disk.inflight
                          ELSE Put(disk.inflight, EntryFor(cur, step))
      /\ disk'.inflight # {} => disk'.exists
  BY StoreEffects DEF PersistLeg, OrderInv
<1>3. \A l \in Legs : EntryFor(cur, l).order = 0 /\ EntryFor(cur, l).id = ClientId(cur, l)
  BY DEF EntryFor
<1>4. OrderInv'
  <2>1. \A e \in disk'.inflight \cup book' \cup todo' :
            e \in disk.inflight \cup book \cup todo \/ e.order = 0
    BY <1>0, <1>2, <1>3 DEF PersistLeg, Put, Legs
  <2>2. \A x \in Ids(disk.inflight) : x \in Ids(disk'.inflight)
    BY <1>2 DEF Ids, Put
  <2>3. \A t \in 1 .. cur : \A l \in Legs :
          Newest(t) /\ trades[t].venue[l] \in OpenAtVenue => ClientId(t, l) \in Ids(disk'.inflight)
    BY <2>2 DEF OrderInv, NoOrderUnrecorded
  <2>. QED BY <1>0, <1>1, <1>2, <2>1, <2>3, OrderStep
<1>5. PlanInv'
  <2>1. \A l \in Legs : trades'[cur].venue[l] = "none" /\ ClientId(cur, l)' = ClientId(cur, l)
    BY <1>0, <1>1 DEF PlanInv, Calm, ClientId
  <2>2. CASE o = "saveFails"
    <3>1. pc' \in {"loop", "rollback"}
      BY <1>0, <2>2 DEF PersistLeg, Legs
    <3>. QED BY <1>0, <1>1, <2>1, <3>1 DEF PlanInv
  <2>3. CASE o = "ok"
    <3>1. \A l \in Legs : l < step =>
              /\ ClientId(cur, l) \in Ids(disk.inflight)
              /\ Unacked(disk.inflight, ClientId(cur, l))
      BY <1>0 DEF PlanInv
    <3>2. \A l \in Legs : l <= step =>
              /\ ClientId(cur, l) \in Ids(disk'.inflight)
              /\ Unacked(disk'.inflight, ClientId(cur, l))
      <4>1. disk'.inflight = Put(disk.inflight, EntryFor(cur, step))
        BY <1>2, <2>3
      <4>2. /\ ClientId(cur, step) \in Ids(disk'.inflight)
            /\ Unacked(disk'.inflight, ClientId(cur, step))
        BY <1>0, <1>3, <4>1 DEF Put, Ids, Unacked
      <4>3. \A l \in Legs : l < step =>
              /\ ClientId(cur, l) \in Ids(disk'.inflight)
              /\ Unacked(disk'.inflight, ClientId(cur, l))
        BY <1>0, <1>3, <3>1, <4>1 DEF Put, Ids, Unacked
      <4>. QED BY <1>0, <4>2, <4>3 DEF Legs
    <3>3. CASE step = 1
      <4>1. pc' = "persist" /\ step' = 2
        BY <2>3, <3>3 DEF PersistLeg
      <4>. QED BY <1>0, <1>1, <2>1, <3>2, <3>3, <4>1 DEF PlanInv, Legs
    <3>4. CASE step = 2
      <4>1. pc' = "preflight" /\ book' = Put(Put(book, EntryFor(cur, 1)), EntryFor(cur, 2))
        BY <2>3, <3>4 DEF PersistLeg
      <4>2. \A l \in Legs : Unacked(book', ClientId(cur, l))
        BY <1>3, <4>1 DEF Put, Unacked, Legs
      <4>. QED BY <1>0, <1>1, <2>1, <3>2, <3>4, <4>1, <4>2 DEF PlanInv, Legs
    <3>. QED BY <1>0, <3>3, <3>4 DEF Legs
  <2>. QED BY <2>2, <2>3
<1>. QED BY <1>4, <1>5

\* Giving the first leg's entry back when the second one's write failed.
LEMMA RecoveryRollBack ==
    ASSUME RecoveryInv, TypeInv', NEW o \in {"ok", "saveFails"}, RollBack(o)
    PROVE  RecoveryInv'
<1>. USE TypeFacts DEF RecoveryInv
<1>0. pc = "rollback" /\ cur \in 1 .. cur /\ todo = {} /\ todo' = {} /\ pc' = "loop" /\ book' = book
  BY DEF RollBack, Working, PlanInv
<1>1. Calm /\ cur' = cur
  BY <1>0, CalmEdits DEF RollBack, Legs
<1>2. /\ disk'.inflight \in {disk.inflight, Drop(disk.inflight, ClientId(cur, 1))}
      /\ disk'.inflight # {} => disk'.exists
  BY StoreEffects DEF RollBack, OrderInv, Drop
<1>3. \A t \in 1 .. cur : \A l \in Legs :
          Newest(t) /\ trades[t].venue[l] \in OpenAtVenue => ClientId(t, l) # ClientId(cur, 1)
  <2>. SUFFICES ASSUME NEW t \in 1 .. cur, NEW l \in Legs, Newest(t),
                       ClientId(t, l) = ClientId(cur, 1)
                PROVE  trades[t].venue[l] \notin OpenAtVenue
    OBVIOUS
  <2>1. trades[t].market = trades[cur].market
    BY DEF ClientId
  <2>2. t = cur
    BY <1>0, <2>1 DEF Newest
  <2>. QED BY <1>0, <2>2 DEF PlanInv, OpenAtVenue
<1>4. OrderInv'
  <2>1. \A e \in disk'.inflight \cup book' \cup todo' : e \in disk.inflight \cup book \cup todo
    BY <1>0, <1>2 DEF Drop
  <2>2. \A t \in 1 .. cur : \A l \in Legs :
          Newest(t) /\ trades[t].venue[l] \in OpenAtVenue => ClientId(t, l) \in Ids(disk'.inflight)
    <3>1. \A x \in Ids(disk.inflight) : x # ClientId(cur, 1) => x \in Ids(disk'.inflight)
      BY <1>2, ClearSafe
    <3>. QED BY <1>3, <3>1 DEF OrderInv, NoOrderUnrecorded
  <2>. QED BY <1>0, <1>1, <1>2, <2>1, <2>2, OrderStep
<1>. QED BY <1>0, <1>4, IdlePlan

\* Posting an order: its entry is durable and unacknowledged by now.
LEMMA RecoverySend ==
    ASSUME RecoveryInv, TypeInv', NEW l \in Legs, Send(l)
    PROVE  RecoveryInv'
<1>. USE TypeFacts DEF RecoveryInv
<1>0. /\ pc = "submit" /\ pc' = "submit" /\ cur \in 1 .. cur /\ todo = {}
      /\ UNCHANGED <<step, disk, book, todo>> /\ trades[cur].venue[l] = "none"
  BY DEF Send, Working, PlanInv
<1>1. PICK v : trades' = [trades EXCEPT ![cur].venue[l] = v]
  BY DEF Send
<1>2. cur' = cur
  BY <1>1 DEF cur
<1>3. /\ \A t \in 1 .. cur : trades'[t].market = trades[t].market
      /\ \A t \in 1 .. cur : \A m \in Legs :
            t # cur \/ m # l => trades'[t].venue[m] = trades[t].venue[m]
  <2>1. \A t \in 1 .. cur : t # cur => trades'[t] = trades[t]
    BY <1>1 DEF cur
  <2>2. trades'[cur] = [trades[cur] EXCEPT !.venue[l] = v]
    BY <1>0, <1>1 DEF cur
  <2>3. trades'[cur].market = trades[cur].market
        /\ \A m \in Legs : m # l => trades'[cur].venue[m] = trades[cur].venue[m]
    BY <1>0, <2>2 DEF Trade
  <2>. QED BY <2>1, <2>3
<1>4. \A t \in 1 .. cur : \A m \in Legs : ClientId(t, m)' = ClientId(t, m)
  BY <1>3 DEF ClientId
<1>5. PlanInv'
  BY <1>0, <1>2, <1>4 DEF PlanInv
<1>6. ASSUME NEW e \in disk.inflight \cup book PROVE Sound(e)'
  <2>1. e \in Entries /\ Sound(e)
    BY DEF OrderInv, DiskType
  <2>2. CASE e.id = ClientId(cur, l)
    BY <1>0, <2>2 DEF PlanInv, Unacked, Sound
  <2>3. CASE e.id # ClientId(cur, l)
    <3>. SUFFICES ASSUME e.order # 0
         PROVE  /\ e.order <= cur /\ trades'[e.order].market = e.id[1]
                /\ \A t \in (e.order + 1) .. cur :
                     trades'[t].market = e.id[1] => trades'[t].venue[e.id[2]] = "none"
      BY <1>2 DEF Sound
    <3>1. e.order \in 1 .. cur /\ e.id[2] \in Legs /\ e.id = <<e.id[1], e.id[2]>>
      BY <2>1 DEF Sound, Entries
    <3>2. ASSUME NEW t \in (e.order + 1) .. cur, trades'[t].market = e.id[1]
          PROVE  trades'[t].venue[e.id[2]] = "none"
      <4>1. t \in 1 .. cur /\ trades[t].market = e.id[1] /\ trades[t].venue[e.id[2]] = "none"
        BY <1>3, <2>1, <3>1, <3>2 DEF Sound
      <4>2. t # cur \/ e.id[2] # l
        BY <2>3, <3>1, <4>1 DEF ClientId
      <4>. QED BY <1>3, <3>1, <4>1, <4>2
    <3>. QED BY <1>3, <2>1, <3>1, <3>2 DEF Sound
  <2>. QED BY <2>2, <2>3
<1>7. NoOrderUnrecorded'
  <2>1. ASSUME NEW t \in 1 .. cur, NEW m \in Legs, Newest(t)', trades'[t].venue[m] \in OpenAtVenue
        PROVE  ClientId(t, m) \in Ids(disk.inflight)
    <3>1. CASE t = cur /\ m = l
      BY <1>0, <3>1 DEF PlanInv
    <3>2. CASE t # cur \/ m # l
      <4>1. Newest(t)
        BY <1>2, <1>3, <2>1 DEF Newest
      <4>. QED BY <1>3, <2>1, <3>2, <4>1 DEF OrderInv, NoOrderUnrecorded
    <3>. QED BY <3>1, <3>2
  <2>. QED BY <1>0, <1>2, <1>4, <2>1 DEF NoOrderUnrecorded
<1>. QED BY <1>0, <1>5, <1>6, <1>7 DEF OrderInv

\* Acknowledging a leg: its entry names the order of the plan in hand.
LEMMA RecoveryAck ==
    ASSUME RecoveryInv, TypeInv', NEW o \in {"ok", "saveFails"}, AckLeg(o)
    PROVE  RecoveryInv'
<1>. USE TypeFacts DEF RecoveryInv
<1>0. /\ pc = "ack" /\ pc' = "ack" /\ cur \in 1 .. cur /\ todo = {} /\ todo' = {}
      /\ step \in Legs
  BY DEF AckLeg, Working, PlanInv
<1>1. Calm /\ cur' = cur /\ trades' = trades
  BY CalmSame DEF AckLeg
<1>. DEFINE id == ClientId(cur, step)
<1>2. /\ disk'.inflight \in {disk.inflight, AckEntry(disk.inflight, id, cur)}
      /\ disk'.inflight # {} => disk'.exists
  BY StoreEffects DEF AckLeg, OrderInv, AckEntry
<1>3. book' \in {book, AckEntry(book, id, cur)}
  BY DEF AckLeg
<1>4. OrderInv'
  <2>1. ASSUME NEW es \in SUBSET Entries, NEW e \in AckEntry(es, id, cur)
        PROVE  e \in es \/ Sound(e)'
    <3>1. PICK f \in es : e = IF f.id = id THEN [f EXCEPT !.order = cur] ELSE f
      BY DEF AckEntry
    <3>2. CASE f.id = id
      <4>1. e = [f EXCEPT !.order = cur] /\ f \in Entries
        BY <3>1, <3>2
      <4>2. e.order = cur /\ e.id = id
        BY <3>2, <4>1 DEF Entries
      <4>3. trades'[cur].market = id[1]
        BY <1>1 DEF ClientId
      <4>. QED BY <1>1, <4>2, <4>3 DEF Sound
    <3>3. CASE f.id # id
      BY <3>1, <3>3
    <3>. QED BY <3>2, <3>3
  <2>2. disk.inflight \in SUBSET Entries /\ book \in SUBSET Entries
    BY DEF DiskType
  <2>3. \A e \in disk'.inflight \cup book' \cup todo' :
            e \in disk.inflight \cup book \cup todo \/ Sound(e)'
    BY <1>0, <1>2, <1>3, <2>1, <2>2
  <2>4. \A f \in Entries : [f EXCEPT !.order = cur].id = f.id
    BY DEF Entries
  <2>5. \A x \in Ids(disk.inflight) : x \in Ids(disk'.inflight)
    <3>1. ASSUME NEW f \in disk.inflight PROVE \E g \in disk'.inflight : g.id = f.id
      <4>1. CASE disk'.inflight = disk.inflight
        BY <4>1
      <4>2. CASE disk'.inflight = AckEntry(disk.inflight, id, cur)
        <5>. DEFINE g == IF f.id = id THEN [f EXCEPT !.order = cur] ELSE f
        <5>1. g \in disk'.inflight
          BY <4>2 DEF AckEntry
        <5>2. g.id = f.id
          BY <2>2, <2>4
        <5>. QED BY <5>1, <5>2
      <4>. QED BY <1>2, <4>1, <4>2
    <3>. QED BY <3>1 DEF Ids
  <2>6. \A t \in 1 .. cur : \A l \in Legs :
          Newest(t) /\ trades[t].venue[l] \in OpenAtVenue => ClientId(t, l) \in Ids(disk'.inflight)
    BY <2>5 DEF OrderInv, NoOrderUnrecorded
  <2>. QED BY <1>0, <1>1, <1>2, <2>3, <2>6, OrderStep
<1>. QED BY <1>0, <1>4, IdlePlan

\* Clearing a settled entry: the newest order under its id is the settled one,
\* or was never sent.
LEMMA RecoverySettle ==
    ASSUME RecoveryInv, TypeInv', NEW o \in {"ok", "saveFails"}, NEW e \in todo, SettleEntry(e, o)
    PROVE  RecoveryInv'
<1>. USE TypeFacts DEF RecoveryInv
<1>0. pc = "settle" /\ pc' = "settle" /\ book' = book /\ todo' \subseteq todo
  BY DEF SettleEntry
<1>1. Calm /\ cur' = cur
  BY CalmSame DEF SettleEntry
<1>2. /\ disk'.inflight \in {disk.inflight, Drop(disk.inflight, e.id)}
      /\ disk'.inflight # {} => disk'.exists
  BY StoreEffects DEF SettleEntry, OrderInv, Drop
<1>3. /\ e \in Entries /\ Sound(e) /\ e.order # 0
      /\ trades[e.order].venue[e.id[2]] \in Terminal
  BY DEF OrderInv
<1>4. ASSUME NEW t \in 1 .. cur, NEW l \in Legs, Newest(t), ClientId(t, l) = e.id
      PROVE  trades[t].venue[l] \notin OpenAtVenue
  <2>1. e.id[1] = trades[t].market /\ e.id[2] = l
    BY <1>4 DEF ClientId
  <2>2. e.order \in 1 .. cur /\ trades[e.order].market = trades[t].market
    BY <1>3, <2>1 DEF Sound, Entries
  <2>3. CASE t = e.order
    BY <1>3, <2>1, <2>3 DEF OpenAtVenue, Terminal
  <2>4. CASE t < e.order
    BY <1>4, <2>2, <2>4 DEF Newest
  <2>5. CASE t > e.order
    <3>1. t \in (e.order + 1) .. cur
      BY <2>2, <2>5
    <3>2. trades[t].venue[l] = "none"
      BY <1>3, <2>1, <3>1 DEF Sound
    <3>. QED BY <3>2 DEF OpenAtVenue
  <2>. QED BY <2>2, <2>3, <2>4, <2>5
<1>5. OrderInv'
  <2>1. \A f \in disk'.inflight \cup book' \cup todo' : f \in disk.inflight \cup book \cup todo
    BY <1>0, <1>2 DEF Drop
  <2>2. \A t \in 1 .. cur : \A l \in Legs :
          Newest(t) /\ trades[t].venue[l] \in OpenAtVenue => ClientId(t, l) \in Ids(disk'.inflight)
    <3>1. \A x \in Ids(disk.inflight) : x # e.id => x \in Ids(disk'.inflight)
      BY <1>2, ClearSafe
    <3>. QED BY <1>4, <3>1 DEF OrderInv, NoOrderUnrecorded
  <2>. QED BY <1>0, <1>1, <1>2, <2>1, <2>2, OrderStep
<1>. QED BY <1>0, <1>5, IdlePlan

\* The polls close only entries whose order they saw terminal.
LEMMA RecoveryReconcile ==
    ASSUME RecoveryInv, TypeInv', NEW es, Reconcile(es)
    PROVE  RecoveryInv'
<1>. USE TypeFacts DEF RecoveryInv
<1>0. /\ pc' = "settle" /\ book' \subseteq book /\ todo' \subseteq book
      /\ UNCHANGED <<disk, trades>> /\ cur' = cur
      /\ \A e \in todo' : e.order # 0 /\ trades[e.order].venue[e.id[2]] \in Terminal
  BY DEF Reconcile, Pollable, cur
<1>1. \A e \in disk'.inflight \cup book' \cup todo' : Sound(e)
  BY <1>0 DEF OrderInv
<1>2. \A e : Sound(e)' <=> Sound(e)
  BY <1>0 DEF Sound
<1>3. NoOrderUnrecorded'
  BY <1>0 DEF OrderInv, NoOrderUnrecorded, Newest, ClientId
<1>. QED BY <1>0, <1>1, <1>2, <1>3, IdlePlan DEF OrderInv

\* The operator's runbook leaves nothing open.
LEMMA RecoveryOperator ==
    ASSUME RecoveryInv, TypeInv', OperatorReconciles
    PROVE  RecoveryInv'
<1>. USE TypeFacts DEF RecoveryInv
<1>0. /\ pc = "down" /\ pc' = "down" /\ todo = {} /\ book' = book /\ todo' = {}
      /\ disk'.inflight = {}
  BY DEF OperatorReconciles, mem, PlanInv, DiskType
<1>1. trades' = [t \in 1 .. cur |-> [trades[t] EXCEPT !.venue =
                    [l \in Legs |-> IF @[l] \in OpenAtVenue THEN "flattened" ELSE @[l]]]]
  BY DEF OperatorReconciles
<1>2. \A t \in 1 .. cur : /\ trades'[t].market = trades[t].market
                          /\ \A l \in Legs : trades'[t].venue[l] =
                               IF trades[t].venue[l] \in OpenAtVenue THEN "flattened"
                               ELSE trades[t].venue[l]
  BY <1>1 DEF Trade
<1>3. cur' = cur
  <2>1. cur' \in Nat /\ DOMAIN trades' = 1 .. cur'
    BY DEF TypeInv, TypeOK, cur
  <2>2. DOMAIN trades' = 1 .. cur
    BY <1>1
  <2>. QED BY <2>1, <2>2
<1>4. \A t \in 1 .. cur : \A l \in Legs :
         /\ trades'[t].venue[l] \notin OpenAtVenue
         /\ trades[t].venue[l] = "none" => trades'[t].venue[l] = "none"
  BY <1>2 DEF OpenAtVenue
<1>5. ASSUME NEW e \in book PROVE Sound(e)'
  <2>1. e \in Entries /\ Sound(e)
    BY DEF OrderInv
  <2>2. CASE e.order # 0
    <3>1. e.order \in 1 .. cur /\ e.id[2] \in Legs
      BY <2>1, <2>2 DEF Sound, Entries
    <3>2. \A t \in (e.order + 1) .. cur : t \in 1 .. cur
      BY <3>1
    <3>. QED BY <1>2, <1>3, <1>4, <2>1, <2>2, <3>1, <3>2 DEF Sound
  <2>3. CASE e.order = 0
    BY <2>3 DEF Sound
  <2>. QED BY <2>2, <2>3
<1>6. NoOrderUnrecorded'
  BY <1>3, <1>4 DEF NoOrderUnrecorded
<1>. QED BY <1>0, <1>5, <1>6, IdlePlan DEF OrderInv

LEMMA RecoveryRunner ==
    ASSUME RecoveryInv, TypeInv', StoreOutcomes \subseteq {"ok", "saveFails"}, RunnerStep
    PROVE  RecoveryInv'
<1>. USE TypeFacts DEF RecoveryInv
<1>1. ASSUME NEW o \in {"ok", "saveFails"}, CheckpointTrade(o) \/ CheckpointSettled(o)
      PROVE  RecoveryInv'
  <2>1. Calm
    BY <1>1, CalmSame DEF CheckpointTrade, CheckpointSettled
  <2>2. disk'.inflight = disk.inflight /\ (disk'.inflight # {} => disk'.exists)
    BY <1>1, StoreEffects DEF CheckpointTrade, CheckpointSettled, OrderInv
  <2>3. /\ pc' = "loop" /\ todo' = {} /\ book' = book
    BY <1>1 DEF CheckpointTrade, CheckpointSettled, PlanInv
  <2>. QED BY <2>1, <2>2, <2>3, QuietStep
<1>2. ASSUME PreflightRejects PROVE RecoveryInv'
  <2>1. Calm
    BY <1>2, CalmEdits DEF PreflightRejects, Working, Legs
  <2>. QED BY <1>2, <2>1, QuietStep DEF PreflightRejects, PlanInv, OrderInv
<1>3. ASSUME PreflightAdmits PROVE RecoveryInv'
  <2>1. Calm /\ cur' = cur /\ cur \in 1 .. cur
    BY <1>3, CalmEdits DEF PreflightAdmits, Working, Legs
  <2>2. OrderInv'
    BY <1>3, <2>1, QuietOrders DEF PreflightAdmits, OrderInv
  <2>3. \A l \in Legs : ClientId(cur, l)' = ClientId(cur, l)
    BY <2>1 DEF Calm, ClientId
  <2>4. PlanInv'
    BY <1>3, <2>1, <2>3 DEF PreflightAdmits, PlanInv
  <2>. QED BY <2>2, <2>4
<1>4. ASSUME Classify PROVE RecoveryInv'
  <2>1. Calm
    BY <1>4, CalmEdits, CalmSame DEF Classify, Working, Legs
  <2>. QED BY <1>4, <2>1, QuietStep DEF Classify, PlanInv, OrderInv
<1>5. ASSUME UnwindSkips PROVE RecoveryInv'
  <2>1. Calm
    BY <1>5, CalmSame DEF UnwindSkips
  <2>. QED BY <1>5, <2>1, QuietStep DEF UnwindSkips, PlanInv, OrderInv
<1>6. ASSUME UnwindSucceeds PROVE RecoveryInv'
  <2>1. Calm
    BY <1>6, CalmEdits DEF UnwindSucceeds, Working, OpenAtVenue
  <2>. QED BY <1>6, <2>1, QuietStep DEF UnwindSucceeds, PlanInv, OrderInv
<1>7. ASSUME UnwindFails PROVE RecoveryInv'
  <2>1. Calm
    BY <1>7, CalmEdits DEF UnwindFails, Working
  <2>. QED BY <1>7, <2>1, QuietStep DEF UnwindFails, PlanInv, OrderInv
<1>8. ASSUME ReleasePhantom PROVE RecoveryInv'
  <2>1. Calm
    BY <1>8, CalmEdits DEF ReleasePhantom, Working, Legs
  <2>. QED BY <1>8, <2>1, QuietStep DEF ReleasePhantom, PlanInv, OrderInv
<1>9. ASSUME NEW l \in Legs, NEW r, Reply(l, r) PROVE RecoveryInv'
  <2>1. Calm /\ cur' = cur
    BY <1>9, CalmEdits DEF Reply, Working
  <2>. QED BY <1>9, <2>1, StillStep DEF Reply
<1>. QED BY <1>1, <1>2, <1>3, <1>4, <1>5, <1>6, <1>7, <1>8, <1>9, RecoveryPersist,
            RecoveryRollBack, RecoverySend, RecoveryAck, RecoverySettle DEF RunnerStep

LEMMA RecoveryOutside ==
    ASSUME RecoveryInv, TypeInv', StoreOutcomes \subseteq {"ok", "saveFails"},
           Outside \/ Venue
    PROVE  RecoveryInv'
<1>. USE TypeFacts DEF RecoveryInv
<1>1. ASSUME NEW config, NEW kill, NEW balances, NEW ol, NEW oc \in {"ok", "saveFails"},
             Startup(config, kill, balances, ol, oc)
      PROVE  RecoveryInv'
  <2>1. Calm
    BY <1>1, CalmSame DEF Startup
  <2>2. disk'.inflight = disk.inflight /\ (disk'.inflight # {} => disk'.exists)
    BY <1>1, StoreEffects DEF Startup, OrderInv
  <2>3. book' \subseteq disk.inflight /\ pc' = "loop" /\ todo = {} /\ todo' = {}
    BY <1>1 DEF Startup, PlanInv
  <2>. QED BY <2>1, <2>2, <2>3, QuietStep
<1>2. ASSUME NEW key, SkipUnresolved(key) PROVE RecoveryInv'
  <2>1. Calm /\ cur' = cur
    BY <1>2, CalmSame DEF SkipUnresolved
  <2>. QED BY <1>2, <2>1, StillStep DEF SkipUnresolved
<1>3. ASSUME NEW engage, NEW confirm, KillSwitch(engage, confirm) PROVE RecoveryInv'
  <2>1. Calm /\ cur' = cur
    BY <1>3, CalmSame DEF KillSwitch
  <2>. QED BY <1>3, <2>1, StillStep DEF KillSwitch
<1>4. ASSUME NEW market, NEW key, NEW stake, NEW edge, TakeSignal(market, key, stake, edge)
      PROVE  RecoveryInv'
  <2>1. /\ cur' = cur + 1 /\ \A t \in 1 .. cur : trades'[t] = trades[t]
        /\ \A l \in Legs : trades'[cur + 1].venue[l] = "none"
    BY <1>4 DEF TakeSignal, cur
  <2>2. Calm
    BY <2>1 DEF Calm
  <2>3. OrderInv'
    BY <1>4, <2>2, QuietOrders DEF TakeSignal, OrderInv
  <2>4. PlanInv'
    <3>1. pc' = "persist" /\ step' = 1 /\ todo' = {} /\ cur' = cur + 1
      BY <1>4, <2>1 DEF TakeSignal, PlanInv
    <3>2. \A l \in Legs : ~(l < 1)
      BY DEF Legs
    <3>. QED BY <2>1, <3>1, <3>2 DEF PlanInv
  <2>. QED BY <2>3, <2>4
<1>5. ASSUME NEW o \in {"ok", "saveFails"}, EndSession(o) PROVE RecoveryInv'
  <2>1. Calm
    BY <1>5, CalmSame DEF EndSession
  <2>2. disk'.inflight = disk.inflight /\ (disk'.inflight # {} => disk'.exists)
    BY <1>5, StoreEffects DEF EndSession, OrderInv
  <2>. QED BY <1>5, <2>1, <2>2, QuietStep DEF EndSession, Forget
<1>6. ASSUME Crash PROVE RecoveryInv'
  <2>1. Calm
    BY <1>6, CalmSame DEF Crash
  <2>. QED BY <1>6, <2>1, QuietStep DEF Crash, Forget, OrderInv
<1>7. ASSUME NEW t \in 1 .. cur, NEW l \in Legs, NEW v, VenueHandles(t, l, v) PROVE RecoveryInv'
  <2>1. Calm /\ cur' = cur
    BY <1>7, CalmEdits DEF VenueHandles, OpenAtVenue
  <2>. QED BY <1>7, <2>1, StillStep DEF VenueHandles, mem
<1>8. ASSUME NEW t \in 1 .. cur, NEW l \in Legs, VenueSettles(t, l) PROVE RecoveryInv'
  <2>1. \E v : trades' = [trades EXCEPT ![t].venue[l] = v]
    BY <1>8 DEF VenueSettles
  <2>2. trades[t].venue[l] \in OpenAtVenue
    BY <1>8 DEF VenueSettles, OpenAtVenue
  <2>3. Calm /\ cur' = cur
    BY <2>1, <2>2, CalmEdits
  <2>. QED BY <1>8, <2>3, StillStep DEF VenueSettles, mem
<1>. QED BY <1>1, <1>2, <1>3, <1>4, <1>5, <1>6, <1>7, <1>8 DEF Outside, Venue

LEMMA InitRecovery == Init => RecoveryInv
<1>1. Init => PlanInv
  BY DEF Init, PlanInv
<1>2. Init => OrderInv
  BY DEF Init, NoDisk, OrderInv, NoOrderUnrecorded, cur
<1>. QED BY <1>1, <1>2, InitType DEF RecoveryInv

LEMMA RecoveryStep ==
    ASSUME StoreOutcomes \subseteq {"ok", "saveFails"}
    PROVE  RecoveryInv /\ [Next]_vars => RecoveryInv'
<1>. SUFFICES ASSUME RecoveryInv, [Next]_vars PROVE RecoveryInv'
  OBVIOUS
<1>1. TypeInv'
  BY TypeStep DEF RecoveryInv
<1>2. CASE UNCHANGED vars
  <2>1. Calm /\ cur' = cur
    BY <1>2, CalmSame DEF vars, RecoveryInv
  <2>. QED BY <1>1, <1>2, <2>1, StillStep DEF vars
<1>. QED BY <1>1, <1>2, RecoveryRunner, RecoveryOutside, RecoveryReconcile, RecoveryOperator
         DEF Next, Reconciling

\* While the state file stays readable, and whatever write fails, leg times
\* out or crash cuts a hedge short, every order that may be open at a venue
\* has its client id in the durable in-flight set (register before submit,
\* clear only what a poll reported terminal).
THEOREM Recovery ==
    ASSUME StoreOutcomes \subseteq {"ok", "saveFails"}
    PROVE  Spec => []NoOrderUnrecorded
<1>1. RecoveryInv => NoOrderUnrecorded
  BY DEF RecoveryInv, OrderInv
<1>. QED BY <1>1, InitRecovery, RecoveryStep, PTL DEF Spec

\* Under the same assumption the refusal to start over a non-empty in-flight
\* set (exit 6) is enough: a live session that starts has no open order of an
\* earlier one.
THEOREM CleanRestart ==
    ASSUME StoreOutcomes \subseteq {"ok", "saveFails"}
    PROVE  Spec => RestartIsClean
<1>. DEFINE Clean == starts' # starts /\ Live =>
               \A t \in 1 .. cur : \A l \in Legs :
                  Newest(t) => trades[t].venue[l] \notin OpenAtVenue
<1>1. ASSUME RecoveryInv, [Next]_vars PROVE Clean
  <2>. SUFFICES ASSUME starts' # starts, Live
       PROVE  \A t \in 1 .. cur : \A l \in Legs :
                  Newest(t) => trades[t].venue[l] \notin OpenAtVenue
    OBVIOUS
  <2>1. \E config \in Policies, kill \in BOOLEAN, balances \in [Legs -> Balances],
           ol \in StoreOutcomes, oc \in StoreOutcomes : Startup(config, kill, balances, ol, oc)
    <3>1. ASSUME RunnerStep PROVE starts' = starts
      BY <3>1 DEF RunnerStep, PersistLeg, RollBack, AckLeg, CheckpointTrade, PreflightRejects,
         PreflightAdmits, Classify, UnwindSkips, UnwindSucceeds, UnwindFails, ReleasePhantom,
         CheckpointSettled, SettleEntry, Send, Reply
    <3>2. ASSUME Reconciling \/ Venue \/ OperatorReconciles PROVE starts' = starts
      BY <3>2 DEF Reconciling, Reconcile, Venue, VenueHandles, VenueSettles, OperatorReconciles
    <3>3. ~UNCHANGED vars
      BY DEF vars
    <3>4. Outside
      BY <1>1, <3>1, <3>2, <3>3 DEF Next
    <3>. QED BY <3>4 DEF Outside, SkipUnresolved, TakeSignal, KillSwitch, EndSession, Crash
  <2>2. disk.inflight = {}
    <3>1. "loadFails" \notin StoreOutcomes
      OBVIOUS
    <3>. QED BY <1>1, <2>1, <3>1 DEF Startup, Loads, RecoveryInv, OrderInv
  <2>. QED BY <1>1, <2>2 DEF RecoveryInv, OrderInv, NoOrderUnrecorded, Ids
<1>2. Spec => [][Clean]_vars
  BY <1>1, InitRecovery, RecoveryStep, PTL DEF Spec
<1>. QED BY <1>2 DEF RestartIsClean

----------------------------------------------------------------------------
\* What an edit of the history changes and what it leaves.

\* The three edits the runner and the venues make to a plan.
SetFate(t, f) == trades' = [trades EXCEPT ![t].fate = f]
SetReply(t, l, a) == trades' = [trades EXCEPT ![t].resp[l] = a]
SetVenue(t, l, v) == trades' = [trades EXCEPT ![t].venue[l] = v]

LEMMA SameHistory ==
    ASSUME TypeInv, trades' = trades
    PROVE  cur' = cur /\ \A u \in 1 .. cur : trades'[u] = trades[u]
BY DEF cur

LEMMA EditedFate ==
    ASSUME TypeInv, NEW t \in 1 .. cur, NEW f, SetFate(t, f)
    PROVE  /\ cur' = cur
           /\ \A u \in 1 .. cur :
                 /\ trades'[u].market = trades[u].market /\ trades'[u].stake = trades[u].stake
                 /\ trades'[u].resp = trades[u].resp /\ trades'[u].venue = trades[u].venue
                 /\ trades'[u].fate = IF u = t THEN f ELSE trades[u].fate
<1>1. cur' = cur /\ \A u \in 1 .. cur : trades[u] \in Trade
  BY TypeFacts DEF cur, SetFate
<1>2. \A u \in 1 .. cur : trades'[u] = IF u = t THEN [trades[t] EXCEPT !.fate = f] ELSE trades[u]
  BY TypeFacts DEF cur, SetFate
<1> QED BY <1>1, <1>2 DEF Trade

LEMMA EditedReply ==
    ASSUME TypeInv, NEW t \in 1 .. cur, NEW l \in Legs, NEW a, SetReply(t, l, a)
    PROVE  /\ cur' = cur
           /\ \A u \in 1 .. cur :
                 /\ trades'[u].market = trades[u].market /\ trades'[u].stake = trades[u].stake
                 /\ trades'[u].fate = trades[u].fate /\ trades'[u].venue = trades[u].venue
                 /\ \A m \in Legs : trades'[u].resp[m] =
                        IF u = t /\ m = l THEN a ELSE trades[u].resp[m]
<1>1. cur' = cur /\ \A u \in 1 .. cur : trades[u] \in Trade
  BY TypeFacts DEF cur, SetReply
<1>2. \A u \in 1 .. cur : trades'[u] = IF u = t THEN [trades[t] EXCEPT !.resp[l] = a] ELSE trades[u]
  BY TypeFacts DEF cur, SetReply
<1> QED BY <1>1, <1>2 DEF Trade

LEMMA EditedVenue ==
    ASSUME TypeInv, NEW t \in 1 .. cur, NEW l \in Legs, NEW v, SetVenue(t, l, v)
    PROVE  /\ cur' = cur
           /\ \A u \in 1 .. cur :
                 /\ trades'[u].market = trades[u].market /\ trades'[u].stake = trades[u].stake
                 /\ trades'[u].fate = trades[u].fate /\ trades'[u].resp = trades[u].resp
                 /\ \A m \in Legs : trades'[u].venue[m] =
                        IF u = t /\ m = l THEN v ELSE trades[u].venue[m]
<1>1. cur' = cur /\ \A u \in 1 .. cur : trades[u] \in Trade
  BY TypeFacts DEF cur, SetVenue
<1>2. \A u \in 1 .. cur : trades'[u] = IF u = t THEN [trades[t] EXCEPT !.venue[l] = v] ELSE trades[u]
  BY TypeFacts DEF cur, SetVenue
<1> QED BY <1>1, <1>2 DEF Trade

LEMMA OneMore ==
    ASSUME TypeInv, TypeInv', NEW market, NEW key, NEW stake, NEW edge, TakeSignal(market, key, stake, edge)
    PROVE  /\ cur' = cur + 1 /\ \A u \in 1 .. cur : trades'[u] = trades[u]
           /\ trades'[cur'].fate = "planned"
           /\ \A l \in Legs : trades'[cur'].resp[l] = "none" /\ trades'[cur'].venue[l] = "none"
BY TypeFacts DEF TakeSignal, cur

LEMMA Flattened ==
    ASSUME TypeInv, OperatorReconciles
    PROVE  /\ cur' = cur
           /\ \A u \in 1 .. cur :
                 /\ trades'[u].market = trades[u].market /\ trades'[u].stake = trades[u].stake
                 /\ trades'[u].fate = trades[u].fate /\ trades'[u].resp = trades[u].resp
                 /\ \A l \in Legs : trades'[u].venue[l] =
                        IF trades[u].venue[l] \in OpenAtVenue THEN "flattened" ELSE trades[u].venue[l]
<1>1. cur \in Nat /\ \A u \in 1 .. cur : trades[u] \in Trade
  BY TypeFacts
<1>2. trades' = [t \in 1 .. cur |-> [trades[t] EXCEPT !.venue =
                    [l \in Legs |-> IF @[l] \in OpenAtVenue THEN "flattened" ELSE @[l]]]]
  BY DEF OperatorReconciles
<1>3. cur' = cur
  <2> DEFINE edited(t) == [trades[t] EXCEPT !.venue =
                    [l \in Legs |-> IF @[l] \in OpenAtVenue THEN "flattened" ELSE @[l]]]
  <2>1. trades' = [t \in 1 .. cur |-> edited(t)]
    BY <1>2
  <2> HIDE DEF edited
  <2> QED BY <1>1, <2>1 DEF cur
<1>4. \A u \in 1 .. cur : trades'[u] = [trades[u] EXCEPT !.venue =
                    [l \in Legs |-> IF @[l] \in OpenAtVenue THEN "flattened" ELSE @[l]]]
  BY <1>2
<1>5. \A u \in 1 .. cur :
          /\ trades'[u].market = trades[u].market /\ trades'[u].stake = trades[u].stake
          /\ trades'[u].fate = trades[u].fate /\ trades'[u].resp = trades[u].resp
          /\ trades'[u].venue = [l \in Legs |-> IF trades[u].venue[l] \in OpenAtVenue
                                                THEN "flattened" ELSE trades[u].venue[l]]
  <2>1. TAKE u \in 1 .. cur
  <2> DEFINE venue == [l \in Legs |-> IF trades[u].venue[l] \in OpenAtVenue
                                     THEN "flattened" ELSE trades[u].venue[l]]
  <2>2. trades'[u] = [trades[u] EXCEPT !.venue = venue]
    BY <1>4
  <2> HIDE DEF venue
  <2>3. /\ trades'[u].market = trades[u].market /\ trades'[u].stake = trades[u].stake
        /\ trades'[u].fate = trades[u].fate /\ trades'[u].resp = trades[u].resp
        /\ trades'[u].venue = venue
    BY <1>1, <2>2 DEF Trade
  <2> QED BY <2>3 DEF venue
<1> QED BY <1>3, <1>5

----------------------------------------------------------------------------
(***************************************************************************)
(* Reports.  HedgedOrFlat is about finished hedges; PlanLegs adds what is  *)
(* known of the one in hand: a full reply means a whole leg, and the legs  *)
(* already visited by the unwind are unwound unless they were refused.     *)
(***************************************************************************)
Hedged(r) ==
    \A l \in Legs :
        /\ r.fate = "filled" => r.venue[l] \in {"full", "settled", "flattened"}
        /\ r.fate = "phantom" /\ r.resp[l] # "err" => r.venue[l] = "unwound"

PlanLegs ==
    /\ pc \in {"persist", "rollback", "preflight"} =>
          trades[cur].fate = "planned" /\ \A l \in Legs : trades[cur].resp[l] = "none"
    /\ pc \in {"submit", "unwind"} => trades[cur].fate = "reserved"
    /\ pc = "submit" =>
          \A l \in Legs : trades[cur].resp[l] = "full" => trades[cur].venue[l] \in {"full", "settled"}
    /\ pc \in {"preflight", "submit"} => step = 1
    /\ pc = "unwind" =>
          \A l \in Legs : l < step /\ trades[cur].resp[l] # "err" => trades[cur].venue[l] = "unwound"
    /\ pc = "ack" /\ trades[cur].fate = "filled" => \A l \in Legs : trades[cur].resp[l] = "full"

HedgeInv == TypeInv /\ PlanLegs /\ \A t \in 1 .. cur : Hedged(trades[t])

\* Steps that leave the history alone and end outside a plan, or stay in it.
LEMMA HedgeQuiet ==
    ASSUME HedgeInv, TypeInv', trades' = trades,
           pc' \notin Working \/ UNCHANGED <<pc, step>>
    PROVE  HedgeInv'
BY SameHistory DEF HedgeInv, PlanLegs, Working

\* A change of one plan's fate.
LEMMA HedgeFate ==
    ASSUME HedgeInv, cur \in 1 .. cur, NEW f, SetFate(cur, f),
           f = "filled" => \A l \in Legs : trades[cur].venue[l] \in {"full", "settled"},
           f = "phantom" => \A l \in Legs : trades[cur].resp[l] # "err" => trades[cur].venue[l] = "unwound"
    PROVE  /\ \A u \in 1 .. cur' : Hedged(trades'[u])
           /\ cur' = cur /\ trades'[cur].fate = f
           /\ trades'[cur].resp = trades[cur].resp /\ trades'[cur].venue = trades[cur].venue
<1>1. /\ cur' = cur
      /\ \A u \in 1 .. cur :
            /\ trades'[u].resp = trades[u].resp /\ trades'[u].venue = trades[u].venue
            /\ trades'[u].fate = IF u = cur THEN f ELSE trades[u].fate
  <2>1. TypeInv
    BY DEF HedgeInv
  <2> QED BY <2>1, EditedFate
<1>2. \A u \in 1 .. cur : Hedged(trades'[u])
  <2>1. TAKE u \in 1 .. cur
  <2>2. Hedged(trades[u])
    BY DEF HedgeInv
  <2> QED BY <1>1, <2>2 DEF Hedged
<1> QED BY <1>1, <1>2

LEMMA HedgeSame ==
    ASSUME HedgeInv, trades' = trades
    PROVE  cur' = cur /\ \A u \in 1 .. cur' : Hedged(trades'[u])
BY SameHistory DEF HedgeInv

LEMMA HedgeWrites ==
    ASSUME HedgeInv, TypeInv', NEW o, PersistLeg(o) \/ RollBack(o) \/ AckLeg(o) \/ CheckpointTrade(o)
    PROVE  HedgeInv'
<1>1. CASE trades' = trades
  <2>1. pc' \in {"loop", "persist", "preflight", "rollback", "ack"}
    BY DEF PersistLeg, RollBack, AckLeg, CheckpointTrade
  <2>2. /\ pc' \in {"persist", "preflight", "rollback"} => pc \in {"persist", "preflight", "rollback"}
        /\ pc' = "ack" => pc = "ack"
        /\ pc' = "preflight" => step' = 1
    BY DEF PersistLeg, RollBack, AckLeg, CheckpointTrade
  <2>3. PlanLegs'
    BY <1>1, <2>1, <2>2, HedgeSame DEF HedgeInv, PlanLegs
  <2> QED BY <1>1, <2>3, HedgeSame DEF HedgeInv
<1>2. CASE trades' # trades
  <2>1. SetFate(cur, "skipped") /\ pc' = "loop" /\ cur \in 1 .. cur
    BY <1>2, TypeFacts DEF PersistLeg, RollBack, AckLeg, CheckpointTrade, HedgeInv, Working, SetFate
  <2>2. \A u \in 1 .. cur' : Hedged(trades'[u])
    BY <2>1, HedgeFate
  <2> QED BY <2>1, <2>2 DEF HedgeInv, PlanLegs
<1> QED BY <1>1, <1>2

LEMMA HedgeExecutes ==
    ASSUME HedgeInv, TypeInv',
           PreflightRejects \/ PreflightAdmits \/ Classify \/ UnwindSkips \/ UnwindFails \/ ReleasePhantom
    PROVE  HedgeInv'
<1>0. cur \in 1 .. cur
  BY TypeFacts DEF HedgeInv, Working, PreflightRejects, PreflightAdmits, Classify, UnwindSkips, UnwindFails,
                   ReleasePhantom
<1>1. CASE PreflightRejects \/ UnwindFails
  <2>1. PICK f \in {"rejected", "stuck"} : SetFate(cur, f) /\ pc' = "loop"
    BY <1>1 DEF PreflightRejects, UnwindFails, SetFate
  <2>2. \A u \in 1 .. cur' : Hedged(trades'[u])
    BY <1>0, <2>1, HedgeFate
  <2> QED BY <2>1, <2>2 DEF HedgeInv, PlanLegs
<1>2. CASE PreflightAdmits
  <2>1. SetFate(cur, "reserved") /\ pc = "preflight" /\ pc' = "submit" /\ step' = step
    BY <1>2 DEF PreflightAdmits, SetFate
  <2>2. /\ \A u \in 1 .. cur' : Hedged(trades'[u])
        /\ cur' = cur /\ trades'[cur].fate = "reserved" /\ trades'[cur].resp = trades[cur].resp
    BY <1>0, <2>1, HedgeFate
  <2>3. step = 1 /\ \A l \in Legs : trades[cur].resp[l] = "none"
    BY <2>1 DEF HedgeInv, PlanLegs
  <2>4. PlanLegs'
    BY <2>1, <2>2, <2>3 DEF PlanLegs
  <2> QED BY <2>2, <2>4 DEF HedgeInv
<1>3. CASE Classify /\ \A l \in Legs : trades[cur].resp[l] = "full"
  <2>1. SetFate(cur, "filled") /\ pc = "submit" /\ pc' = "ack"
    BY <1>3 DEF Classify, SetFate
  <2>2. \A l \in Legs : trades[cur].venue[l] \in {"full", "settled"}
    BY <1>3, <2>1 DEF HedgeInv, PlanLegs
  <2>3. /\ \A u \in 1 .. cur' : Hedged(trades'[u])
        /\ cur' = cur /\ trades'[cur].resp = trades[cur].resp
    BY <1>0, <2>1, <2>2, HedgeFate
  <2>4. PlanLegs'
    BY <1>3, <2>1, <2>3 DEF PlanLegs
  <2> QED BY <2>3, <2>4 DEF HedgeInv
<1>4. CASE Classify /\ ~\A l \in Legs : trades[cur].resp[l] = "full"
  <2>1. trades' = trades /\ pc = "submit" /\ pc' = "unwind" /\ step' = step
    BY <1>4 DEF Classify
  <2>2. step = 1
    BY <2>1 DEF HedgeInv, PlanLegs
  <2>3. PlanLegs'
    BY <2>1, <2>2, HedgeSame DEF HedgeInv, PlanLegs, Legs
  <2> QED BY <2>1, <2>3, HedgeSame DEF HedgeInv
<1>5. CASE UnwindSkips
  <2>1. /\ trades' = trades /\ pc = "unwind" /\ pc' = "unwind" /\ step' = step + 1
        /\ trades[cur].resp[step] = "err" /\ step \in Legs
    BY <1>5 DEF UnwindSkips
  <2>2. PlanLegs'
    BY <2>1, HedgeSame DEF HedgeInv, PlanLegs, Legs
  <2> QED BY <2>1, <2>2, HedgeSame DEF HedgeInv
<1>6. CASE ReleasePhantom
  <2>1. SetFate(cur, "phantom") /\ pc = "unwind" /\ pc' = "ack" /\ step = 3
    BY <1>6 DEF ReleasePhantom, SetFate
  <2>2. \A l \in Legs : trades[cur].resp[l] # "err" => trades[cur].venue[l] = "unwound"
    BY <2>1 DEF HedgeInv, PlanLegs, Legs
  <2>3. /\ \A u \in 1 .. cur' : Hedged(trades'[u])
        /\ cur' = cur /\ trades'[cur].fate = "phantom"
    BY <1>0, <2>1, <2>2, HedgeFate
  <2>4. PlanLegs'
    BY <1>0, <2>1, <2>3 DEF PlanLegs
  <2> QED BY <2>3, <2>4 DEF HedgeInv
<1> QED BY <1>1, <1>2, <1>3, <1>4, <1>5, <1>6

LEMMA HedgeLegs ==
    ASSUME HedgeInv, TypeInv', NEW l \in Legs, NEW r \in {"full", "short", "err"},
           UnwindSucceeds \/ Send(l) \/ Reply(l, r)
    PROVE  HedgeInv'
<1>t. TypeInv
  BY DEF HedgeInv
<1>0. cur \in 1 .. cur /\ trades[cur].fate = "reserved"
  BY TypeFacts DEF HedgeInv, PlanLegs, Working, UnwindSucceeds, Send, Reply
<1>u. ASSUME cur' = cur, \A u \in 1 .. cur : trades'[u].fate = trades[u].fate,
             \A u \in 1 .. cur : u # cur =>
                 \A m \in Legs : /\ trades'[u].resp[m] = trades[u].resp[m]
                                 /\ trades'[u].venue[m] = trades[u].venue[m]
      PROVE  \A u \in 1 .. cur' : Hedged(trades'[u])
  <2>1. TAKE u \in 1 .. cur'
  <2>2. Hedged(trades[u])
    BY <1>u DEF HedgeInv
  <2> QED BY <1>0, <1>u, <2>2 DEF Hedged
<1>1. CASE UnwindSucceeds
  <2>1. /\ SetVenue(cur, step, "unwound") /\ step \in Legs
        /\ pc = "unwind" /\ pc' = "unwind" /\ step' = step + 1
    BY <1>1 DEF UnwindSucceeds, SetVenue
  <2>2. /\ cur' = cur
        /\ \A u \in 1 .. cur :
              /\ trades'[u].fate = trades[u].fate /\ trades'[u].resp = trades[u].resp
              /\ \A m \in Legs : trades'[u].venue[m] =
                     IF u = cur /\ m = step THEN "unwound" ELSE trades[u].venue[m]
    BY <1>t, <1>0, <2>1, EditedVenue
  <2>3. \A u \in 1 .. cur' : Hedged(trades'[u])
    BY <1>u, <2>2
  <2>4. PlanLegs'
    BY <1>0, <2>1, <2>2 DEF HedgeInv, PlanLegs, Legs
  <2> QED BY <2>3, <2>4 DEF HedgeInv
<1>2. CASE Send(l)
  <2>1. PICK v : SetVenue(cur, l, v) /\ v \in {"sent", "full"}
    BY <1>2 DEF Send, SetVenue
  <2>2. pc = "submit" /\ pc' = "submit" /\ step' = step /\ trades[cur].venue[l] = "none"
    BY <1>2 DEF Send
  <2>3. trades[cur].resp[l] # "full"
    BY <2>2 DEF HedgeInv, PlanLegs
  <2>4. /\ cur' = cur
        /\ \A u \in 1 .. cur :
              /\ trades'[u].fate = trades[u].fate /\ trades'[u].resp = trades[u].resp
              /\ \A m \in Legs : trades'[u].venue[m] = IF u = cur /\ m = l THEN v ELSE trades[u].venue[m]
    BY <1>t, <1>0, <2>1, EditedVenue
  <2>5. \A u \in 1 .. cur' : Hedged(trades'[u])
    BY <1>u, <2>4
  <2>6. PlanLegs'
    BY <1>0, <2>2, <2>3, <2>4 DEF HedgeInv, PlanLegs
  <2> QED BY <2>5, <2>6 DEF HedgeInv
<1>3. CASE Reply(l, r)
  <2>1. /\ SetReply(cur, l, r) /\ pc = "submit" /\ pc' = "submit" /\ step' = step
        /\ r = "full" => trades[cur].venue[l] \in {"full", "settled"}
    BY <1>3 DEF Reply, Answer, SetReply
  <2>2. /\ cur' = cur
        /\ \A u \in 1 .. cur :
              /\ trades'[u].fate = trades[u].fate /\ trades'[u].venue = trades[u].venue
              /\ \A m \in Legs : trades'[u].resp[m] = IF u = cur /\ m = l THEN r ELSE trades[u].resp[m]
    BY <1>t, <1>0, <2>1, EditedReply
  <2>3. \A u \in 1 .. cur' : Hedged(trades'[u])
    BY <1>u, <2>2
  <2>4. PlanLegs'
    BY <1>0, <2>1, <2>2 DEF HedgeInv, PlanLegs
  <2> QED BY <2>3, <2>4 DEF HedgeInv
<1> QED BY <1>1, <1>2, <1>3

LEMMA HedgeVenues ==
    ASSUME HedgeInv, TypeInv', Venue \/ OperatorReconciles
    PROVE  HedgeInv'
<1>t. TypeInv
  BY DEF HedgeInv
<1>1. CASE OperatorReconciles
  <2>1. pc = "down" /\ pc' = "down"
    BY <1>1 DEF OperatorReconciles
  <2> QED BY <1>1, <2>1, Flattened DEF HedgeInv, PlanLegs, Hedged, OpenAtVenue
<1>2. CASE Venue
  <2>1. PICK t \in 1 .. cur, l \in Legs :
            VenueSettles(t, l) \/ \E v \in Handlings : VenueHandles(t, l, v)
    BY <1>2 DEF Venue
  <2>2. pc' = pc /\ step' = step
    BY <2>1 DEF VenueSettles, VenueHandles
  <2>3. PICK v : /\ SetVenue(t, l, v)
                 /\ \/ trades[t].venue[l] = "sent" /\ v \in {"full", "short", "rejected"}
                    \/ trades[t].venue[l] = "full" /\ v = "settled"
                    \/ trades[t].venue[l] = "short" /\ v = "canceled"
    BY <2>1, TraderAssumption DEF VenueSettles, VenueHandles, SetVenue
  <2>4. \A u \in 1 .. cur, m \in Legs :
            /\ trades[u].venue[m] \in {"full", "settled", "flattened"} =>
                  trades'[u].venue[m] \in {"full", "settled", "flattened"}
            /\ trades[u].venue[m] \in {"full", "settled"} => trades'[u].venue[m] \in {"full", "settled"}
            /\ trades[u].venue[m] = "unwound" => trades'[u].venue[m] = "unwound"
    BY <1>t, <2>3, EditedVenue
  <2>5. /\ cur' = cur
        /\ \A u \in 1 .. cur : trades'[u].fate = trades[u].fate /\ trades'[u].resp = trades[u].resp
    BY <1>t, <2>3, EditedVenue
  <2>6. \A u \in 1 .. cur' : Hedged(trades'[u])
    BY <2>4, <2>5 DEF HedgeInv, Hedged
  <2>7. PlanLegs'
    <3>1. CASE pc \in Working
      <4>1. cur \in 1 .. cur
        BY <3>1, TypeFacts DEF HedgeInv
      <4> QED BY <2>2, <2>4, <2>5, <4>1 DEF HedgeInv, PlanLegs
    <3>2. CASE pc \notin Working
      BY <2>2, <3>2 DEF PlanLegs, Working
    <3> QED BY <3>1, <3>2
  <2> QED BY <2>6, <2>7 DEF HedgeInv
<1> QED BY <1>1, <1>2

LEMMA HedgeStep == HedgeInv /\ [Next]_vars => HedgeInv'
<1> SUFFICES ASSUME HedgeInv, [Next]_vars PROVE HedgeInv'
  OBVIOUS
<1>0. TypeInv'
  BY TypeStep DEF HedgeInv
<1>1. CASE RunnerStep
  <2>1. CASE \E o \in StoreOutcomes : CheckpointSettled(o) \/ \E e \in todo : SettleEntry(e, o)
    <3>1. trades' = trades /\ pc' \notin Working
      BY <2>1 DEF CheckpointSettled, SettleEntry, Working
    <3> QED BY <1>0, <3>1, HedgeQuiet
  <2> QED BY <1>0, <1>1, <2>1, HedgeWrites, HedgeExecutes, HedgeLegs DEF RunnerStep, Legs
<1>2. CASE \E market \in Markets, key \in Keys, stake \in [Legs -> Stakes], edge \in Edges :
               TakeSignal(market, key, stake, edge)
  <2>1. PICK market \in Markets, key \in Keys, stake \in [Legs -> Stakes], edge \in Edges :
               TakeSignal(market, key, stake, edge)
    BY <1>2
  <2>2. pc' = "persist"
    BY <2>1 DEF TakeSignal
  <2>3. cur \in Nat /\ \A u \in 1 .. cur' : u \in 1 .. cur \/ u = cur'
    BY <1>0, <2>1, OneMore, TypeFacts DEF HedgeInv
  <2> QED BY <1>0, <2>1, <2>2, <2>3, OneMore DEF HedgeInv, PlanLegs, Hedged
<1>3. CASE Venue \/ OperatorReconciles
  BY <1>0, <1>3, HedgeVenues
<1>4. CASE trades' = trades /\ (pc' \notin Working \/ UNCHANGED <<pc, step>>)
  BY <1>0, <1>4, HedgeQuiet
<1> QED BY <1>1, <1>2, <1>3, <1>4
    DEF Next, Reconciling, Reconcile, Outside, Startup, SkipUnresolved, KillSwitch, EndSession, Crash, Forget,
        Working, vars

LEMMA HedgeInvariant == Spec => []HedgeInv
<1>1. Init => HedgeInv
  BY InitType DEF HedgeInv, Init, PlanLegs, cur
<1> QED BY <1>1, HedgeStep, PTL DEF Spec

\* A hedge reported live-fill has both legs whole, and one reported live-phantom
\* has unwound every leg that was not refused, whatever is lost or times out
\* (execute_reconciled).
THEOREM Hedges == Spec => []HedgedOrFlat
<1>1. HedgeInv => HedgedOrFlat
  BY DEF HedgeInv, HedgedOrFlat, Hedged
<1> QED BY <1>1, HedgeInvariant, PTL

----------------------------------------------------------------------------
(***************************************************************************)
(* Limits.  The file and the gate both carry the first session's limits,   *)
(* as long as every call of the store works, and a plan that was admitted  *)
(* is within them until both its orders have been answered.                *)
(***************************************************************************)
WithinLimits ==
    /\ ~gate.kill /\ gate.open <= gate.config.open
    /\ \A l \in Legs : trades[cur].stake[l] \in 1 .. gate.config.stake

LimitInv ==
    /\ TypeInv
    /\ starts > 0 => disk.exists /\ disk.config = session.policy
    /\ pc # "down" => starts > 0 /\ gate.config = session.policy
    /\ pc = "submit" => WithinLimits

\* No operation of the store but a checkpoint changes the limits in the file.
LEMMA StoredLimits ==
    ASSUME NEW d \in DiskType, d.exists
    PROVE  /\ \A e : RegisterInflight(d, e, "ok").exists /\ RegisterInflight(d, e, "ok").config = d.config
           /\ \A id, n : Acknowledge(d, id, n, "ok").exists /\ Acknowledge(d, id, n, "ok").config = d.config
           /\ \A id : ClearInflight(d, id, "ok").exists /\ ClearInflight(d, id, "ok").config = d.config
           /\ \A g : Checkpoint(d, g, "ok").exists /\ Checkpoint(d, g, "ok").config = g.config
<1>1. Loads(d, "ok")
  BY DEF Loads
<1>2. \A es : [d EXCEPT !.inflight = es].exists = d.exists /\ [d EXCEPT !.inflight = es].config = d.config
  BY DEF DiskType
<1>3. \A g : Checkpoint(d, g, "ok").exists /\ Checkpoint(d, g, "ok").config = g.config
  BY DEF Checkpoint
<1> QED BY <1>1, <1>2, <1>3 DEF RegisterInflight, Acknowledge, ClearInflight

\* What an admitted plan looked like, and the gate that admitted it.
LEMMA Admitted ==
    ASSUME NEW g \in Gate, NEW stake \in Amounts, NEW edge \in Nat, Admits(g, stake, edge)
    PROVE  LET h == AfterPreflight(g, stake, edge) IN
           /\ h.config = g.config /\ ~h.kill /\ h.open <= h.config.open
           /\ \A l \in Legs : stake[l] \in 1 .. h.config.stake
<1>1. GateOpen(g, edge) /\ Reservable(g, stake) = Legs
  BY DEF Admits
<1>2. AfterPreflight(g, stake, edge) = [Reserve(g, stake, Legs) EXCEPT !.open = @ + 1]
  BY <1>1 DEF AfterPreflight
<1>3. PICK a : Reserve(g, stake, Legs) = [g EXCEPT !.cash = a]
  BY DEF Reserve
<1>4. [Reserve(g, stake, Legs) EXCEPT !.open = @ + 1] = [g EXCEPT !.cash = a, !.open = @ + 1]
  BY <1>3 DEF Gate
<1>5. \A l \in Legs : stake[l] \in 1 .. g.config.stake
  <2>1. TAKE l \in Legs
  <2>2. LegAdmitted(g, stake, l)
    BY <1>1 DEF Reservable, Legs
  <2> QED BY <2>2 DEF LegAdmitted, Amounts, Gate, PolicyType
<1>6. g.open + 1 <= g.config.open /\ ~g.kill
  BY <1>1 DEF GateOpen, Gate, PolicyType
<1>7. LET h == [g EXCEPT !.cash = a, !.open = @ + 1] IN
      h.config = g.config /\ h.kill = g.kill /\ h.open = g.open + 1
  BY DEF Gate
<1> QED BY <1>2, <1>4, <1>5, <1>6, <1>7

\* Preflight, release and settlement leave the limits alone.
LEMMA GateLimits ==
    ASSUME NEW g \in Gate, NEW stake \in Amounts, NEW edge \in Nat
    PROVE  /\ AfterPreflight(g, stake, edge).config = g.config
           /\ ReleaseTrade(g, stake).config = g.config
           /\ SettleGate(g, 0).config = g.config
<1>1. ASSUME NEW h \in Gate, NEW a \in Amounts
      PROVE  /\ [h EXCEPT !.cash = a] \in Gate /\ [h EXCEPT !.cash = a].config = h.config
  BY DEF Gate
<1>2. \A n \in Nat, h \in Gate : [h EXCEPT !.open = n].config = h.config
  BY DEF Gate
<1>3. ASSUME NEW h \in Gate, NEW ls \in SUBSET Legs
      PROVE  /\ Reserve(h, stake, ls) \in Gate /\ Reserve(h, stake, ls).config = h.config
             /\ Release(h, stake, ls) \in Gate /\ Release(h, stake, ls).config = h.config
  <2>1. /\ [l \in Legs |-> IF l \in ls THEN h.cash[l] - stake[l] ELSE h.cash[l]] \in Amounts
        /\ [l \in Legs |-> IF l \in ls THEN h.cash[l] + stake[l] ELSE h.cash[l]] \in Amounts
    BY DEF Amounts, Gate
  <2> QED BY <1>1, <2>1 DEF Reserve, Release
<1>4. Reservable(g, stake) \in SUBSET Legs
  BY DEF Reservable
<1>5. \A h \in Gate : h.open + 1 \in Nat /\ SaturatingDec(h.open) \in Nat
  BY DEF Gate, SaturatingDec
<1>6. AfterPreflight(g, stake, edge).config = g.config
  BY <1>2, <1>3, <1>4, <1>5 DEF AfterPreflight
<1>7. ReleaseTrade(g, stake).config = g.config
  BY <1>2, <1>3, <1>5 DEF ReleaseTrade
<1>8. SettleGate(g, 0).config = g.config
  BY DEF SettleGate, Gate
<1> QED BY <1>6, <1>7, <1>8

\* A step outside a submission that keeps the limits of file and gate.
LEMMA LimitKept ==
    ASSUME LimitInv, TypeInv', pc # "down", starts' = starts, session' = session,
           gate'.config = gate.config,
           disk'.exists /\ disk'.config \in {disk.config, gate.config},
           pc' # "submit" \/ WithinLimits'
    PROVE  LimitInv'
BY DEF LimitInv

LEMMA LimitRunner ==
    ASSUME LimitInv, TypeInv', StoreOutcomes \subseteq {"ok"}, RunnerStep
    PROVE  LimitInv'
<1> USE TypeFacts
<1>t. TypeInv
  BY DEF LimitInv
<1>0. /\ pc # "down" => disk.exists
      /\ disk \in DiskType /\ gate \in Gate /\ cur \in Nat
      /\ pc \in Working => /\ cur \in 1 .. cur /\ trades[cur].stake \in Amounts
                           /\ trades[cur].edge \in Nat
  BY <1>t DEF LimitInv, Legs
<1>1. ASSUME PersistLeg("ok") \/ RollBack("ok") \/ AckLeg("ok") \/ CheckpointTrade("ok")
                \/ CheckpointSettled("ok") \/ \E e \in todo : SettleEntry(e, "ok")
      PROVE  LimitInv'
  <2>1. /\ pc # "down" /\ pc' # "submit" /\ starts' = starts /\ session' = session
    BY <1>1 DEF PersistLeg, RollBack, AckLeg, CheckpointTrade, CheckpointSettled, SettleEntry
  <2>2. gate'.config = gate.config
    <3>1. CASE \E e \in todo : SettleEntry(e, "ok")
      <4>1. gate' = SettleGate(gate, 0)
        BY <3>1 DEF SettleEntry
      <4>2. NoCash \in Amounts /\ 0 \in Nat
        BY DEF NoCash, Amounts
      <4> QED BY <1>0, <4>1, <4>2, GateLimits
    <3>2. CASE gate' = gate
      BY <3>2
    <3> QED BY <1>1, <3>1, <3>2 DEF PersistLeg, RollBack, AckLeg, CheckpointTrade, CheckpointSettled
  <2>3. disk'.exists /\ disk'.config \in {disk.config, gate.config}
    <3>1. disk.exists
      BY <1>0, <2>1
    <3>2. \/ disk' = disk
          \/ \E e : disk' = RegisterInflight(disk, e, "ok")
          \/ \E id, n : disk' = Acknowledge(disk, id, n, "ok")
          \/ \E id : disk' = ClearInflight(disk, id, "ok")
          \/ disk' = Checkpoint(disk, gate, "ok")
          \/ disk' = Checkpoint(disk, gate', "ok")
      BY <1>1 DEF PersistLeg, RollBack, AckLeg, CheckpointTrade, CheckpointSettled, SettleEntry
    <3> QED BY <1>0, <2>2, <3>1, <3>2, StoredLimits
  <2> QED BY <2>1, <2>2, <2>3, LimitKept
<1>2. ASSUME PreflightAdmits PROVE LimitInv'
  <2>1. /\ pc = "preflight" /\ starts' = starts /\ session' = session /\ disk' = disk
        /\ gate' = AfterPreflight(gate, trades[cur].stake, trades[cur].edge)
        /\ Admits(gate, trades[cur].stake, trades[cur].edge)
        /\ SetFate(cur, "reserved")
    BY <1>2 DEF PreflightAdmits, SetFate
  <2>2. pc \in Working
    BY <2>1 DEF Working
  <2>3. /\ gate'.config = gate.config /\ ~gate'.kill /\ gate'.open <= gate'.config.open
        /\ \A l \in Legs : trades[cur].stake[l] \in 1 .. gate'.config.stake
    BY <1>0, <2>1, <2>2, Admitted
  <2>4. cur' = cur /\ trades'[cur].stake = trades[cur].stake
    BY <1>t, <1>0, <2>1, <2>2, EditedFate
  <2>5. WithinLimits'
    BY <2>3, <2>4 DEF WithinLimits
  <2> QED BY <1>0, <2>1, <2>3, <2>5, LimitKept
<1>3. ASSUME PreflightRejects \/ ReleasePhantom PROVE LimitInv'
  <2>1. /\ pc \in Working /\ pc # "down" /\ starts' = starts /\ session' = session /\ disk' = disk
        /\ pc' # "submit"
        /\ \/ gate' = AfterPreflight(gate, trades[cur].stake, trades[cur].edge)
           \/ gate' = ReleaseTrade(gate, trades[cur].stake)
    BY <1>3 DEF PreflightRejects, ReleasePhantom, Working
  <2>2. gate'.config = gate.config
    BY <1>0, <2>1, GateLimits
  <2> QED BY <1>0, <2>1, <2>2, LimitKept
<1>4. ASSUME Classify \/ UnwindSkips \/ UnwindSucceeds \/ UnwindFails PROVE LimitInv'
  <2>1. /\ pc # "down" /\ starts' = starts /\ session' = session /\ disk' = disk /\ gate' = gate
        /\ pc' # "submit"
    BY <1>4 DEF Classify, UnwindSkips, UnwindSucceeds, UnwindFails
  <2> QED BY <1>0, <2>1, LimitKept
<1>5. ASSUME NEW l \in Legs, NEW r \in {"full", "short", "err"}, Send(l) \/ Reply(l, r) PROVE LimitInv'
  <2>1. /\ pc = "submit" /\ starts' = starts /\ session' = session /\ disk' = disk /\ gate' = gate
        /\ SetReply(cur, l, r) \/ SetVenue(cur, l, IF Live THEN "sent" ELSE "full")
    BY <1>5 DEF Send, Reply, SetReply, SetVenue
  <2>2. pc \in Working
    BY <2>1 DEF Working
  <2>3. cur' = cur /\ trades'[cur].stake = trades[cur].stake
    BY <1>t, <1>0, <2>1, <2>2, EditedReply, EditedVenue
  <2>4. WithinLimits'
    BY <2>1, <2>3 DEF WithinLimits, LimitInv
  <2> QED BY <1>0, <2>1, <2>4, LimitKept
<1> QED BY <1>1, <1>2, <1>3, <1>4, <1>5 DEF RunnerStep

LEMMA LimitStep ==
    ASSUME StoreOutcomes \subseteq {"ok"}
    PROVE  LimitInv /\ [Next]_vars => LimitInv'
<1> SUFFICES ASSUME LimitInv, [Next]_vars PROVE LimitInv'
  OBVIOUS
<1>t. TypeInv /\ TypeInv'
  BY TypeStep DEF LimitInv
<1>0. disk \in DiskType /\ gate \in Gate /\ cur \in Nat
  BY <1>t, TypeFacts
<1>1. CASE RunnerStep
  BY <1>t, <1>1, LimitRunner
<1>2. CASE Reconciling \/ (\E key \in Keys : SkipUnresolved(key))
              \/ (\E engage, confirm \in BOOLEAN : KillSwitch(engage, confirm))
              \/ (\E market \in Markets, key \in Keys, stake \in [Legs -> Stakes], edge \in Edges :
                    TakeSignal(market, key, stake, edge))
  <2>1. /\ pc = "loop" /\ pc' # "submit" /\ starts' = starts /\ session' = session /\ disk' = disk
        /\ gate' = gate \/ \E engage \in BOOLEAN : gate' = [gate EXCEPT !.kill = engage]
    BY <1>2 DEF Reconciling, Reconcile, SkipUnresolved, KillSwitch, TakeSignal
  <2>2. gate'.config = gate.config
    BY <1>0, <2>1 DEF Gate
  <2> QED BY <1>t, <2>1, <2>2, LimitKept DEF LimitInv
<1>3. CASE \E config \in Policies, kill \in BOOLEAN, balances \in [Legs -> Balances],
              ol \in StoreOutcomes, oc \in StoreOutcomes : Startup(config, kill, balances, ol, oc)
  <2>1. PICK config \in Policies, kill \in BOOLEAN, balances \in [Legs -> Balances] :
            Startup(config, kill, balances, "ok", "ok")
    BY <1>3
  <2>2. /\ pc' = "loop" /\ starts' = starts + 1 /\ starts \in Nat
        /\ disk' = Checkpoint(disk, gate', "ok")
        /\ session'.policy = IF starts = 0 THEN gate'.config ELSE session.policy
    BY <1>t, <2>1 DEF Startup, TypeInv, TypeOK
  <2>3. disk'.exists /\ disk'.config = gate'.config
    BY <2>2 DEF Checkpoint
  <2>4. starts > 0 => gate'.config = session.policy
    BY <2>1 DEF Startup, LimitInv, Loads, NewGate
  <2> QED BY <1>t, <2>2, <2>3, <2>4 DEF LimitInv
<1>4. CASE Crash \/ \E o \in StoreOutcomes : EndSession(o)
  <2>1. /\ pc' = "down" /\ starts' = starts /\ session' = session
        /\ disk' = disk \/ (pc = "loop" /\ disk' = Checkpoint(disk, gate, "ok"))
    BY <1>4 DEF Crash, EndSession, Forget
  <2>2. CASE disk' = disk
    BY <1>t, <2>1, <2>2 DEF LimitInv
  <2>3. CASE pc = "loop" /\ disk' = Checkpoint(disk, gate, "ok")
    <3>1. disk'.exists /\ disk'.config = gate.config
      BY <2>3 DEF Checkpoint
    <3> QED BY <1>t, <2>1, <2>3, <3>1 DEF LimitInv
  <2> QED BY <2>1, <2>2, <2>3
<1>5. CASE Venue
  <2>1. PICK t \in 1 .. cur, l \in Legs : \E v : SetVenue(t, l, v)
    BY <1>5 DEF Venue, VenueSettles, VenueHandles, SetVenue
  <2>2. pc' = pc /\ gate' = gate /\ disk' = disk /\ starts' = starts /\ session' = session
    BY <1>5 DEF Venue, VenueSettles, VenueHandles, mem
  <2>3. cur' = cur /\ \A u \in 1 .. cur : trades'[u].stake = trades[u].stake
    BY <1>t, <2>1, EditedVenue
  <2>4. pc = "submit" => WithinLimits'
    <3>1. pc = "submit" => cur \in 1 .. cur
      BY <1>t, TypeFacts DEF Working
    <3> QED BY <2>2, <2>3, <3>1 DEF LimitInv, WithinLimits
  <2> QED BY <1>t, <2>2, <2>4 DEF LimitInv
<1>6. CASE OperatorReconciles
  <2>1. /\ pc = "down" /\ pc' = "down" /\ starts' = starts /\ session' = session
        /\ disk' = [disk EXCEPT !.inflight = {}]
    BY <1>6 DEF OperatorReconciles
  <2>2. disk'.exists = disk.exists /\ disk'.config = disk.config
    BY <1>0, <2>1 DEF DiskType
  <2> QED BY <1>t, <2>1, <2>2 DEF LimitInv
<1>7. CASE UNCHANGED vars
  BY <1>t, <1>7 DEF vars, LimitInv, WithinLimits, cur
<1> QED BY <1>1, <1>2, <1>3, <1>4, <1>5, <1>6, <1>7 DEF Next, Outside

\* Only the submission of the plan in hand sends an order.
LEMMA OnlySubmissionSends ==
    ASSUME TypeInv, TypeInv', [Next]_vars, NEW t \in 1 .. cur, NEW l \in Legs,
           trades[t].venue[l] = "none", trades'[t].venue[l] # "none"
    PROVE  pc = "submit" /\ t = cur
<1>1. CASE trades' = trades
  BY <1>1
<1>2. CASE OperatorReconciles
  BY <1>2, Flattened DEF OpenAtVenue
<1>3. CASE Venue
  <2>1. PICK u \in 1 .. cur, m \in Legs : \E v : SetVenue(u, m, v) /\ trades[u].venue[m] # "none"
    BY <1>3 DEF Venue, VenueSettles, VenueHandles, SetVenue
  <2> QED BY <2>1, EditedVenue
<1>4. CASE \E market \in Markets, key \in Keys, stake \in [Legs -> Stakes], edge \in Edges :
               TakeSignal(market, key, stake, edge)
  BY <1>4, OneMore
<1>5. CASE pc \in Working /\ ((\E f : SetFate(cur, f)) \/ (\E m \in Legs : \E a : SetReply(cur, m, a)))
  <2>1. cur \in 1 .. cur
    BY <1>5, TypeFacts
  <2> QED BY <1>5, <2>1, EditedFate, EditedReply
<1>6. CASE UnwindSucceeds
  <2>1. /\ SetVenue(cur, step, "unwound") /\ step \in Legs /\ trades[cur].venue[step] # "none"
        /\ cur \in 1 .. cur
    BY <1>6, TypeFacts DEF UnwindSucceeds, SetVenue, Working
  <2> QED BY <2>1, EditedVenue
<1>7. CASE \E m \in Legs : Send(m)
  <2>1. PICK m \in Legs : Send(m)
    BY <1>7
  <2>2. PICK v : SetVenue(cur, m, v)
    BY <2>1 DEF Send, SetVenue
  <2>3. pc = "submit" /\ cur \in 1 .. cur
    BY <2>1, TypeFacts DEF Send, Working
  <2> QED BY <2>2, <2>3, EditedVenue
<1>8. ASSUME RunnerStep
      PROVE  \/ trades' = trades \/ UnwindSucceeds \/ \E m \in Legs : Send(m)
             \/ pc \in Working /\ ((\E f : SetFate(cur, f)) \/ (\E m \in Legs : \E a : SetReply(cur, m, a)))
  BY <1>8 DEF RunnerStep, PersistLeg, RollBack, AckLeg, CheckpointTrade, PreflightRejects, PreflightAdmits,
     Classify, UnwindSkips, UnwindFails, ReleasePhantom, CheckpointSettled, SettleEntry, Reply, SetFate,
     SetReply, Working
<1> QED BY <1>1, <1>2, <1>3, <1>4, <1>5, <1>6, <1>7, <1>8
        DEF Next, Reconciling, Reconcile, Outside, Startup, SkipUnresolved, KillSwitch, EndSession, Crash, vars

\* While every call of the store works, an order is sent only within the
\* limits of the first session, whatever environment a later one is launched
\* in, and never with the kill switch engaged (main's startup, preflight).
THEOREM Limits ==
    ASSUME StoreOutcomes \subseteq {"ok"}
    PROVE  Spec => LimitsHold
<1> DEFINE Obeyed ==
        \A t \in 1 .. cur : \A l \in Legs :
            trades[t].venue[l] = "none" /\ trades'[t].venue[l] # "none" =>
               /\ ~gate.kill
               /\ trades[t].stake[l] \in 1 .. session.policy.stake
               /\ gate.open <= session.policy.open
<1>1. Init => LimitInv
  BY InitType DEF LimitInv, Init
<1>2. LimitInv /\ [Next]_vars => LimitInv'
  BY LimitStep
<1>3. ASSUME LimitInv, [Next]_vars PROVE Obeyed
  <2>1. TypeInv /\ TypeInv'
    BY <1>3, TypeStep DEF LimitInv
  <2>2. SUFFICES ASSUME NEW t \in 1 .. cur, NEW l \in Legs,
                        trades[t].venue[l] = "none", trades'[t].venue[l] # "none"
        PROVE  /\ ~gate.kill
               /\ trades[t].stake[l] \in 1 .. session.policy.stake
               /\ gate.open <= session.policy.open
    OBVIOUS
  <2>3. pc = "submit" /\ t = cur
    BY <1>3, <2>1, <2>2, OnlySubmissionSends
  <2> QED BY <1>3, <2>3 DEF LimitInv, WithinLimits
<1>4. Spec => [][Obeyed]_vars
  BY <1>1, <1>2, <1>3, PTL DEF Spec
<1> QED BY <1>4 DEF LimitsHold

----------------------------------------------------------------------------
(***************************************************************************)
(* Polling.  A filled hedge is pollable because its two entries are in the *)
(* reconciler before it is submitted, and get its order ids one by one     *)
(* while it is acknowledged.                                               *)
(***************************************************************************)
Polled(t, l) == [id |-> ClientId(t, l), order |-> t] \in book

ToPoll(t, l) == trades[t].fate = "filled" /\ trades[t].venue[l] \in OpenAtVenue

PollInv ==
    /\ HedgeInv
    /\ pc \in {"preflight", "submit", "unwind", "ack"} => \A l \in Legs : ClientId(cur, l) \in Ids(book)
    /\ pc = "ack" /\ trades[cur].fate = "filled" => \A l \in Legs : l < step => Polled(cur, l)
    /\ session.first <= cur
    /\ FillsStayPolled

\* What Put and AckEntry do to the other entries and to their own.
LEMMA EntryEffects ==
    ASSUME NEW es \in SUBSET Entries, NEW e \in Entries, NEW f \in Entries, NEW n \in Nat
    PROVE  /\ e \in Put(es, e)
           /\ f \in es /\ f.id # e.id => f \in Put(es, e)
           /\ f \in es /\ f.id # e.id => f \in AckEntry(es, e.id, n)
           /\ e.id \in Ids(es) => [id |-> e.id, order |-> n] \in AckEntry(es, e.id, n)
           /\ f \in es => f.id \in Ids(AckEntry(es, e.id, n))
           /\ Put(es, e) \in SUBSET Entries
<1>1. e \in Put(es, e) /\ (f \in es /\ f.id # e.id => f \in Put(es, e)) /\ Put(es, e) \in SUBSET Entries
  BY DEF Put
<1>2. ASSUME NEW g \in es
      PROVE  (IF g.id = e.id THEN [g EXCEPT !.order = n] ELSE g) \in AckEntry(es, e.id, n)
  BY DEF AckEntry
<1>3. f \in es /\ f.id # e.id => f \in AckEntry(es, e.id, n)
  BY <1>2
<1>4. \A g \in Entries : [g EXCEPT !.order = n] = [id |-> g.id, order |-> n]
  <2>1. \A a \in Entries : a = [id |-> a.id, order |-> a.order]
    BY DEF Entries
  <2>2. \A g \in Entries : /\ [g EXCEPT !.order = n] \in Entries
                           /\ [g EXCEPT !.order = n].id = g.id /\ [g EXCEPT !.order = n].order = n
    BY DEF Entries
  <2> QED BY <2>1, <2>2
<1>5. e.id \in Ids(es) => [id |-> e.id, order |-> n] \in AckEntry(es, e.id, n)
  <2>1. SUFFICES ASSUME e.id \in Ids(es) PROVE [id |-> e.id, order |-> n] \in AckEntry(es, e.id, n)
    OBVIOUS
  <2>2. PICK g \in es : g.id = e.id
    BY <2>1 DEF Ids
  <2>3. [g EXCEPT !.order = n] \in AckEntry(es, e.id, n)
    BY <1>2, <2>2
  <2>4. [g EXCEPT !.order = n] = [id |-> e.id, order |-> n]
    BY <1>4, <2>2
  <2> QED BY <2>3, <2>4, Zenon
<1>6. f \in es => f.id \in Ids(AckEntry(es, e.id, n))
  <2>1. \A g \in Entries : [g EXCEPT !.order = n].id = g.id
    BY DEF Entries
  <2> QED BY <1>2, <2>1 DEF Ids
<1> QED BY <1>1, <1>3, <1>5, <1>6

\* What must hold of a step for the filled hedges to stay pollable.
LEMMA StaysPolled ==
    ASSUME PollInv, pc # "down", session' = session, cur' = cur,
           \A u \in 1 .. cur : trades'[u].market = trades[u].market,
           pc = "ack" => pc' = "ack",
           \A u \in 1 .. cur : \A l \in Legs :
               ToPoll(u, l)' => ToPoll(u, l) \/ (u = cur /\ pc' = "ack"),
           \A u \in 1 .. cur : \A l \in Legs :
               Newest(u) /\ ToPoll(u, l) /\ ~(u = cur /\ pc = "ack") /\ Polled(u, l)
                   => [id |-> ClientId(u, l), order |-> u] \in book'
    PROVE  FillsStayPolled'
<1>0. TypeInv /\ cur \in Nat /\ session.first \in Nat
  BY TypeFacts DEF PollInv, HedgeInv, TypeInv, TypeOK
<1>1. ASSUME NEW u \in (session.first + 1) .. cur, NEW l \in Legs,
             ~(u = cur /\ pc' = "ack"), Newest(u)', ToPoll(u, l)'
      PROVE  Polled(u, l)'
  <2>1. u \in 1 .. cur
    BY <1>0
  <2>2. \A v \in (u + 1) .. cur : v \in 1 .. cur
    BY <1>0, <2>1
  <2>3. Newest(u)
    BY <1>1, <2>1, <2>2 DEF Newest
  <2>4. ToPoll(u, l) /\ ~(u = cur /\ pc = "ack")
    BY <1>1, <2>1
  <2>5. Polled(u, l)
    BY <2>3, <2>4 DEF PollInv, FillsStayPolled, ToPoll, Polled
  <2>6. ClientId(u, l)' = ClientId(u, l)
    BY <2>1 DEF ClientId
  <2> QED BY <2>1, <2>3, <2>4, <2>5, <2>6 DEF Polled
<1> QED BY <1>1 DEF FillsStayPolled, ToPoll, Polled

\* Steps that touch neither the reconciler nor the plan's fate.
LEMMA PollQuiet ==
    ASSUME PollInv, HedgeInv', pc # "down", session' = session, cur' = cur, book' = book,
           \A u \in 1 .. cur : trades'[u].market = trades[u].market,
           pc = "ack" => pc' = "ack" /\ step' = step,
           pc' \in {"preflight", "submit", "unwind", "ack"} =>
               pc \in {"preflight", "submit", "unwind", "ack"},
           pc' = "ack" /\ pc # "ack" => step' = 1,
           pc = "ack" => trades'[cur].fate = trades[cur].fate,
           \A u \in 1 .. cur : \A l \in Legs :
               ToPoll(u, l)' => ToPoll(u, l) \/ (u = cur /\ pc' = "ack")
    PROVE  PollInv'
<1>0. TypeInv /\ cur \in Nat /\ (pc \in Working => cur \in 1 .. cur)
  BY TypeFacts DEF PollInv, HedgeInv
<1>1. FillsStayPolled'
  BY StaysPolled DEF Polled
<1>2. pc' \in {"preflight", "submit", "unwind", "ack"} =>
          \A l \in Legs : ClientId(cur, l)' = ClientId(cur, l) /\ ClientId(cur, l) \in Ids(book)
  BY <1>0 DEF PollInv, ClientId, Working
<1>3. pc' = "ack" /\ trades'[cur].fate = "filled" => \A l \in Legs : l < step' => Polled(cur, l)'
  <2>1. SUFFICES ASSUME pc' = "ack", trades'[cur].fate = "filled", NEW l \in Legs, l < step'
        PROVE  Polled(cur, l)'
    OBVIOUS
  <2>2. CASE pc = "ack"
    BY <1>2, <2>1, <2>2 DEF PollInv, Polled
  <2>3. CASE pc # "ack"
    BY <2>1, <2>3 DEF Legs
  <2> QED BY <2>2, <2>3
<1> QED BY <1>1, <1>2, <1>3 DEF PollInv

LEMMA PollPersist ==
    ASSUME PollInv, TypeInv', HedgeInv', NEW o, PersistLeg(o) \/ RollBack(o)
    PROVE  PollInv'
<1>t. TypeInv /\ cur \in 1 .. cur /\ book \in SUBSET Entries /\ cur \in Nat
  BY TypeFacts DEF PollInv, HedgeInv, Working, PersistLeg, RollBack
<1>0. /\ pc \in {"persist", "rollback"} /\ session' = session
      /\ trades' = trades \/ SetFate(cur, "skipped")
  BY DEF PersistLeg, RollBack, SetFate
<1>1. /\ cur' = cur
      /\ \A u \in 1 .. cur :
            /\ trades'[u].market = trades[u].market /\ trades'[u].venue = trades[u].venue
            /\ trades'[u].fate = trades[u].fate \/ trades'[u].fate = "skipped"
  BY <1>t, <1>0, SameHistory, EditedFate
<1>2. \A u \in 1 .. cur : \A l \in Legs : ToPoll(u, l)' => ToPoll(u, l)
  BY <1>1 DEF ToPoll
<1>3. CASE pc' # "preflight"
  <2>1. book' = book /\ pc' \notin {"preflight", "submit", "unwind", "ack"}
    BY <1>3 DEF PersistLeg, RollBack
  <2> QED BY <1>0, <1>1, <1>2, <2>1, PollQuiet
<1>4. CASE pc' = "preflight"
  <2> DEFINE one == EntryFor(cur, 1)
             two == EntryFor(cur, 2)
  <2>1. /\ book' = Put(Put(book, one), two) /\ pc = "persist" /\ pc' = "preflight"
        /\ trades' = trades
    BY <1>4 DEF PersistLeg, RollBack
  <2>2. /\ one \in Entries /\ two \in Entries /\ one.id = ClientId(cur, 1) /\ two.id = ClientId(cur, 2)
    BY <1>t, TypeFacts DEF EntryFor, Legs
  <2>3. one.id # two.id
    BY <2>2 DEF ClientId
  <2> HIDE DEF one, two
  <2>4. Put(book, one) \in SUBSET Entries /\ one \in Put(book, one)
    BY <1>t, <2>2, EntryEffects
  <2>5. one \in book' /\ two \in book'
    BY <2>1, <2>2, <2>3, <2>4, EntryEffects
  <2>6. \A l \in Legs : ClientId(cur, l)' \in Ids(book')
    <3>1. \A l \in Legs : ClientId(cur, l)' = ClientId(cur, l)
      BY <1>1, <2>1 DEF ClientId
    <3> QED BY <2>2, <2>5, <3>1 DEF Ids, Legs
  <2>7. \A f \in book : f.id # one.id /\ f.id # two.id => f \in book'
    BY <1>t, <2>1, <2>2, <2>4, EntryEffects
  <2>8. FillsStayPolled'
    <3>1. ASSUME NEW u \in 1 .. cur, NEW l \in Legs, Newest(u), ToPoll(u, l), Polled(u, l)
          PROVE  [id |-> ClientId(u, l), order |-> u] \in book'
      <4>1. u # cur
        BY <1>0, <2>1, <3>1 DEF ToPoll, PollInv, HedgeInv, PlanLegs
      <4>2. trades[cur].market # trades[u].market
        BY <1>t, <3>1, <4>1 DEF Newest
      <4>3. ClientId(u, l) # one.id /\ ClientId(u, l) # two.id
        BY <2>2, <4>2 DEF ClientId
      <4> QED BY <2>7, <3>1, <4>3 DEF Polled
    <3> QED BY <1>0, <1>1, <1>2, <2>1, <3>1, StaysPolled
  <2> QED BY <1>0, <1>1, <2>1, <2>6, <2>8 DEF PollInv
<1> QED BY <1>3, <1>4

LEMMA PollAck ==
    ASSUME PollInv, TypeInv', HedgeInv', NEW o, AckLeg(o)
    PROVE  PollInv'
<1>t. TypeInv /\ cur \in 1 .. cur /\ book \in SUBSET Entries /\ cur \in Nat
  BY TypeFacts DEF PollInv, HedgeInv, Working, AckLeg
<1>0. /\ pc = "ack" /\ pc' = "ack" /\ step \in Legs /\ step' = step + 1
      /\ session' = session /\ trades' = trades
      /\ book' = IF trades[cur].resp[step] # "err" THEN AckEntry(book, ClientId(cur, step), cur) ELSE book
  BY DEF AckLeg
<1>1. /\ cur' = cur /\ \A u \in 1 .. cur : trades'[u] = trades[u]
      /\ \A u \in 1 .. cur : \A l \in Legs :
            ClientId(u, l)' = ClientId(u, l) /\ (ToPoll(u, l)' <=> ToPoll(u, l))
  BY <1>t, <1>0, SameHistory DEF ClientId, ToPoll
<1>2. \A l \in Legs : EntryFor(cur, l) \in Entries /\ EntryFor(cur, l).id = ClientId(cur, l)
  BY <1>t, TypeFacts DEF EntryFor
<1>3. \A f \in book : f.id # ClientId(cur, step) => f \in book'
  BY <1>t, <1>0, <1>2, EntryEffects
<1>4. \A f \in book : f.id \in Ids(book')
  <2>1. book' = book => \A f \in book : f.id \in Ids(book')
    BY DEF Ids
  <2> QED BY <1>t, <1>0, <1>2, <2>1, EntryEffects
<1>5. \A l \in Legs : ClientId(cur, l)' \in Ids(book')
  BY <1>0, <1>1, <1>t, <1>4 DEF PollInv, Ids
<1>6. trades[cur].fate = "filled" => \A l \in Legs : l < step' => Polled(cur, l)'
  <2>1. SUFFICES ASSUME trades[cur].fate = "filled", NEW l \in Legs, l < step'
        PROVE  [id |-> ClientId(cur, l), order |-> cur] \in book'
    BY <1>1, <1>t DEF Polled
  <2>2. trades[cur].resp[step] # "err"
    BY <1>0, <2>1 DEF PollInv, HedgeInv, PlanLegs
  <2>3. CASE l = step
    <3>1. ClientId(cur, l) \in Ids(book)
      BY <1>0, <2>1 DEF PollInv
    <3> QED BY <1>t, <1>0, <1>2, <2>1, <2>2, <2>3, <3>1, EntryEffects
  <2>4. CASE l # step
    <3>1. Polled(cur, l)
      BY <1>0, <2>1, <2>4 DEF PollInv, Legs
    <3>2. ClientId(cur, l) # ClientId(cur, step)
      BY <2>4 DEF ClientId
    <3> QED BY <1>3, <3>1, <3>2 DEF Polled
  <2> QED BY <2>3, <2>4
<1>7. FillsStayPolled'
  <2>1. ASSUME NEW u \in 1 .. cur, NEW l \in Legs, Newest(u), u # cur, Polled(u, l)
        PROVE  [id |-> ClientId(u, l), order |-> u] \in book'
    <3>1. trades[cur].market # trades[u].market
      BY <1>t, <2>1 DEF Newest
    <3>2. ClientId(u, l) # ClientId(cur, step)
      BY <3>1 DEF ClientId
    <3> QED BY <1>3, <2>1, <3>2 DEF Polled
  <2> QED BY <1>0, <1>1, <2>1, StaysPolled
<1> QED BY <1>0, <1>1, <1>5, <1>6, <1>7 DEF PollInv

LEMMA PollReconciles ==
    ASSUME PollInv, TypeInv', HedgeInv', NEW es, Reconcile(es)
    PROVE  PollInv'
<1>t. TypeInv /\ cur \in Nat
  BY TypeFacts DEF PollInv, HedgeInv
<1>0. /\ pc = "loop" /\ pc' = "settle" /\ session' = session /\ trades' = trades
      /\ book' = book \ es /\ es \subseteq Pollable(book)
  BY DEF Reconcile
<1>1. /\ cur' = cur /\ \A u \in 1 .. cur : trades'[u] = trades[u]
  BY <1>t, <1>0, SameHistory
<1>2. ASSUME NEW u \in 1 .. cur, NEW l \in Legs, ToPoll(u, l), Polled(u, l)
      PROVE  [id |-> ClientId(u, l), order |-> u] \in book'
  <2> DEFINE e == [id |-> ClientId(u, l), order |-> u]
  <2>1. e.order = u /\ e.id[2] = l
    BY DEF ClientId
  <2>2. trades[e.order].venue[e.id[2]] \notin Terminal
    BY <1>2, <2>1 DEF ToPoll, OpenAtVenue, Terminal
  <2>3. e \notin Pollable(book)
    BY <2>2 DEF Pollable
  <2> QED BY <1>0, <1>2, <2>3 DEF Polled
<1>3. \A u \in 1 .. cur : \A l \in Legs : ToPoll(u, l)' => ToPoll(u, l)
  BY <1>1 DEF ToPoll
<1>4. FillsStayPolled'
  BY <1>0, <1>1, <1>2, <1>3, StaysPolled
<1> QED BY <1>0, <1>1, <1>4 DEF PollInv

LEMMA PollExecutes ==
    ASSUME PollInv, TypeInv', HedgeInv',
           \/ PreflightRejects \/ PreflightAdmits \/ Classify
           \/ UnwindSkips \/ UnwindFails \/ ReleasePhantom
    PROVE  PollInv'
<1>t. TypeInv /\ cur \in 1 .. cur /\ cur \in Nat
  BY TypeFacts DEF PollInv, HedgeInv, Working, PreflightRejects, PreflightAdmits, Classify, UnwindSkips,
                   UnwindFails, ReleasePhantom
<1>0. /\ pc \in {"preflight", "submit", "unwind"} /\ session' = session /\ book' = book
      /\ pc' \in {"submit", "unwind", "ack", "loop"}
      /\ pc' = "ack" => step' = 1 \/ (pc = "submit" /\ step' = step)
      /\ \/ trades' = trades
         \/ SetFate(cur, "filled") /\ pc' = "ack"
         \/ \E f \in {"rejected", "reserved", "stuck", "phantom"} : SetFate(cur, f)
  BY DEF PreflightRejects, PreflightAdmits, Classify, UnwindSkips, UnwindFails, ReleasePhantom, SetFate
<1>1. pc' = "ack" => step' = 1
  BY <1>0 DEF PollInv, HedgeInv, PlanLegs
<1>2. /\ cur' = cur
      /\ \A u \in 1 .. cur :
            /\ trades'[u].market = trades[u].market /\ trades'[u].venue = trades[u].venue
            /\ trades'[u].fate = "filled" => trades[u].fate = "filled" \/ (u = cur /\ pc' = "ack")
  <2>1. CASE trades' = trades
    BY <1>t, <2>1, SameHistory
  <2>2. CASE SetFate(cur, "filled") /\ pc' = "ack"
    BY <1>t, <2>2, EditedFate
  <2>3. CASE \E f \in {"rejected", "reserved", "stuck", "phantom"} : SetFate(cur, f)
    BY <1>t, <2>3, EditedFate
  <2> QED BY <1>0, <2>1, <2>2, <2>3
<1>3. \A u \in 1 .. cur : \A l \in Legs : ToPoll(u, l)' => ToPoll(u, l) \/ (u = cur /\ pc' = "ack")
  BY <1>2 DEF ToPoll
<1> QED BY <1>0, <1>1, <1>2, <1>3, PollQuiet

\* Changes at the venues, and what the executor does to one leg's order.
LEMMA PollLegs ==
    ASSUME PollInv, TypeInv', HedgeInv', pc # "down", session' = session, book' = book,
           pc' = pc, pc = "ack" => step' = step,
           NEW t \in 1 .. cur, NEW l \in Legs,
           \/ \E a : SetReply(t, l, a)
           \/ \E v : SetVenue(t, l, v) /\ (v \in OpenAtVenue => trades[t].venue[l] \in OpenAtVenue
                                                                \/ trades[t].fate # "filled")
    PROVE  PollInv'
<1>t. TypeInv
  BY DEF PollInv, HedgeInv
<1>1. CASE \E a : SetReply(t, l, a)
  <2>1. cur' = cur /\ \A u \in 1 .. cur : /\ trades'[u].market = trades[u].market
                                          /\ trades'[u].fate = trades[u].fate
                                          /\ trades'[u].venue = trades[u].venue
    BY <1>t, <1>1, EditedReply
  <2>2. \A u \in 1 .. cur : \A m \in Legs : ToPoll(u, m)' => ToPoll(u, m)
    BY <2>1 DEF ToPoll
  <2>3. pc = "ack" => trades'[cur].fate = trades[cur].fate
    BY <1>t, <2>1, TypeFacts DEF Working
  <2> QED BY <2>1, <2>2, <2>3, PollQuiet
<1>2. CASE \E v : SetVenue(t, l, v) /\ (v \in OpenAtVenue => trades[t].venue[l] \in OpenAtVenue
                                                             \/ trades[t].fate # "filled")
  <2>1. PICK v : SetVenue(t, l, v) /\ (v \in OpenAtVenue => trades[t].venue[l] \in OpenAtVenue
                                                            \/ trades[t].fate # "filled")
    BY <1>2
  <2>2. cur' = cur /\ \A u \in 1 .. cur :
            /\ trades'[u].market = trades[u].market /\ trades'[u].fate = trades[u].fate
            /\ \A m \in Legs : trades'[u].venue[m] = IF u = t /\ m = l THEN v ELSE trades[u].venue[m]
    BY <1>t, <2>1, EditedVenue
  <2>3. \A u \in 1 .. cur : \A m \in Legs : ToPoll(u, m)' => ToPoll(u, m)
    BY <2>1, <2>2 DEF ToPoll
  <2>4. pc = "ack" => trades'[cur].fate = trades[cur].fate
    BY <1>t, <2>2, TypeFacts DEF Working
  <2> QED BY <2>2, <2>3, <2>4, PollQuiet
<1> QED BY <1>1, <1>2

\* The end of a plan: both its orders were acknowledged.
LEMMA PollCheckpoint ==
    ASSUME PollInv, TypeInv', HedgeInv', NEW o, CheckpointTrade(o)
    PROVE  PollInv'
<1>t. TypeInv /\ cur \in 1 .. cur /\ cur \in Nat /\ session.first \in Nat
  BY TypeFacts DEF PollInv, HedgeInv, Working, CheckpointTrade, TypeInv, TypeOK
<1>0. /\ pc = "ack" /\ step = 3 /\ pc' = "loop" /\ session' = session /\ book' = book /\ trades' = trades
  BY DEF CheckpointTrade
<1>1. cur' = cur /\ \A u \in 1 .. cur : trades'[u] = trades[u]
  BY <1>t, <1>0, SameHistory
<1>2. ASSUME NEW u \in (session.first + 1) .. cur, NEW l \in Legs, Newest(u)', ToPoll(u, l)'
      PROVE  Polled(u, l)'
  <2>1. u \in 1 .. cur /\ \A v \in (u + 1) .. cur : v \in 1 .. cur
    BY <1>t
  <2>2. Newest(u) /\ ToPoll(u, l) /\ ClientId(u, l)' = ClientId(u, l)
    BY <1>1, <1>2, <2>1 DEF Newest, ToPoll, ClientId
  <2>3. Polled(u, l)
    <3>1. CASE u = cur
      BY <1>0, <2>2, <3>1 DEF PollInv, ToPoll, Legs
    <3>2. CASE u # cur
      BY <1>0, <2>2, <3>2 DEF PollInv, FillsStayPolled, ToPoll, Polled
    <3> QED BY <3>1, <3>2
  <2> QED BY <1>0, <2>2, <2>3 DEF Polled
<1>3. FillsStayPolled'
  BY <1>0, <1>1, <1>2 DEF FillsStayPolled, ToPoll, Polled
<1> QED BY <1>0, <1>1, <1>3 DEF PollInv

\* A new plan takes over the ids of older plans on its market only.
LEMMA PollTakes ==
    ASSUME PollInv, TypeInv', HedgeInv', NEW market, NEW key, NEW stake, NEW edge,
           TakeSignal(market, key, stake, edge)
    PROVE  PollInv'
<1>t. TypeInv /\ cur \in Nat /\ session.first \in Nat /\ session.first <= cur
  BY TypeFacts DEF PollInv, HedgeInv, TypeInv, TypeOK
<1>0. pc = "loop" /\ pc' = "persist" /\ session' = session /\ book' = book
  BY DEF TakeSignal
<1>1. /\ cur' = cur + 1 /\ \A u \in 1 .. cur : trades'[u] = trades[u]
      /\ trades'[cur'].fate = "planned"
  BY <1>t, OneMore
<1>2. ASSUME NEW u \in (session.first + 1) .. cur', NEW l \in Legs, Newest(u)', ToPoll(u, l)'
      PROVE  Polled(u, l)'
  <2>1. u # cur'
    BY <1>2, <1>1 DEF ToPoll
  <2>2. u \in 1 .. cur /\ u \in (session.first + 1) .. cur
    BY <1>t, <1>1, <2>1
  <2>3. \A v \in (u + 1) .. cur : v \in 1 .. cur /\ v \in (u + 1) .. cur'
    BY <1>t, <1>1, <2>2
  <2>4. Newest(u) /\ ToPoll(u, l) /\ ClientId(u, l)' = ClientId(u, l)
    BY <1>1, <1>2, <2>2, <2>3 DEF Newest, ToPoll, ClientId
  <2>5. Polled(u, l)
    BY <1>0, <2>2, <2>4 DEF PollInv, FillsStayPolled, ToPoll, Polled
  <2> QED BY <1>0, <2>4, <2>5 DEF Polled
<1>3. FillsStayPolled'
  BY <1>0, <1>2 DEF FillsStayPolled, ToPoll, Polled
<1>4. session'.first <= cur'
  BY <1>t, <1>0, <1>1
<1> QED BY <1>0, <1>3, <1>4 DEF PollInv

LEMMA PollStep == PollInv /\ [Next]_vars => PollInv'
<1> SUFFICES ASSUME PollInv, [Next]_vars PROVE PollInv'
  OBVIOUS
<1>t. TypeInv /\ TypeInv' /\ HedgeInv' /\ cur \in Nat /\ session.first \in Nat /\ session.first <= cur
  BY TypeStep, HedgeStep, TypeFacts DEF PollInv, HedgeInv, TypeInv, TypeOK
<1>1. CASE RunnerStep
  <2>1. CASE \E o \in StoreOutcomes : CheckpointSettled(o) \/ \E e \in todo : SettleEntry(e, o)
    <3>1. pc = "settle" /\ pc' \in {"loop", "settle"} /\ session' = session /\ book' = book /\ trades' = trades
      BY <2>1 DEF CheckpointSettled, SettleEntry
    <3>2. cur' = cur /\ \A u \in 1 .. cur : trades'[u] = trades[u]
      BY <1>t, <3>1, SameHistory
    <3>3. \A u \in 1 .. cur : \A l \in Legs : ToPoll(u, l)' => ToPoll(u, l)
      BY <3>2 DEF ToPoll
    <3> QED BY <1>t, <3>1, <3>2, <3>3, PollQuiet
  <2>2. CASE \E l \in Legs : Send(l) \/ \E r \in {"full", "short", "err"} : Reply(l, r)
    <3>1. PICK l \in Legs : Send(l) \/ \E r \in {"full", "short", "err"} : Reply(l, r)
      BY <2>2
    <3>2. /\ pc = "submit" /\ pc' = pc /\ step' = step /\ session' = session /\ book' = book
          /\ cur \in 1 .. cur
          /\ (\E a : SetReply(cur, l, a)) \/ (\E v : SetVenue(cur, l, v))
      BY <1>t, <3>1, TypeFacts DEF Send, Reply, SetReply, SetVenue, Working
    <3>3. trades[cur].fate # "filled"
      BY <3>2 DEF PollInv, HedgeInv, PlanLegs
    <3> QED BY <1>t, <3>2, <3>3, PollLegs
  <2>3. CASE UnwindSucceeds
    <3>1. /\ pc = "unwind" /\ pc' = pc /\ session' = session /\ book' = book
          /\ cur \in 1 .. cur /\ step \in Legs /\ SetVenue(cur, step, "unwound")
      BY <1>t, <2>3, TypeFacts DEF UnwindSucceeds, SetVenue, Working
    <3>2. "unwound" \notin OpenAtVenue
      BY DEF OpenAtVenue
    <3> QED BY <1>t, <3>1, <3>2, PollLegs
  <2> QED BY <1>t, <1>1, <2>1, <2>2, <2>3, PollPersist, PollExecutes, PollAck, PollCheckpoint DEF RunnerStep
<1>2. CASE Reconciling
  BY <1>t, <1>2, PollReconciles DEF Reconciling
<1>3. CASE \E market \in Markets, key \in Keys, stake \in [Legs -> Stakes], edge \in Edges :
               TakeSignal(market, key, stake, edge)
  BY <1>t, <1>3, PollTakes
<1>4. CASE trades' = trades /\ (pc' = "down" \/ session'.first = cur) /\ pc' \in {"down", "loop"}
           /\ session'.first \in {session.first, cur}
  <2>1. cur' = cur
    BY <1>t, <1>4, SameHistory
  <2>2. FillsStayPolled'
    BY <1>t, <1>4, <2>1 DEF FillsStayPolled
  <2> QED BY <1>t, <1>4, <2>1, <2>2 DEF PollInv
<1>5. CASE (\E key \in Keys : SkipUnresolved(key))
           \/ (\E engage, confirm \in BOOLEAN : KillSwitch(engage, confirm))
           \/ (UNCHANGED vars /\ pc # "down")
  <2>1. /\ pc # "down" /\ pc' = pc /\ step' = step /\ session' = session /\ book' = book /\ trades' = trades
    BY <1>5 DEF SkipUnresolved, KillSwitch, vars
  <2>2. cur' = cur /\ \A u \in 1 .. cur : trades'[u] = trades[u]
    BY <1>t, <2>1, SameHistory
  <2>3. /\ \A u \in 1 .. cur : \A l \in Legs : ToPoll(u, l)' => ToPoll(u, l)
        /\ pc = "ack" => trades'[cur].fate = trades[cur].fate
    BY <1>t, <2>1, <2>2 DEF ToPoll
  <2> QED BY <1>t, <2>1, <2>2, <2>3, PollQuiet
<1>6. CASE Venue
  <2>1. PICK t \in 1 .. cur, l \in Legs : VenueSettles(t, l) \/ \E v \in Handlings : VenueHandles(t, l, v)
    BY <1>6 DEF Venue
  <2>2. pc' = pc /\ step' = step /\ session' = session /\ book' = book
    BY <2>1 DEF VenueSettles, VenueHandles, mem
  <2>3. \E v : SetVenue(t, l, v) /\ trades[t].venue[l] \in OpenAtVenue
    BY <2>1 DEF VenueSettles, VenueHandles, SetVenue, OpenAtVenue
  <2>4. CASE pc = "down"
    <3>1. cur' = cur
      BY <1>t, <2>3, EditedVenue
    <3>2. FillsStayPolled'
      BY <2>2, <2>4 DEF FillsStayPolled
    <3> QED BY <1>t, <2>2, <2>4, <3>1, <3>2 DEF PollInv
  <2>5. CASE pc # "down"
    BY <1>t, <2>2, <2>3, <2>5, PollLegs
  <2> QED BY <2>4, <2>5
<1>7. CASE OperatorReconciles
  <2>1. pc' = "down" /\ session' = session
    BY <1>7 DEF OperatorReconciles
  <2>2. cur' = cur
    BY <1>t, <1>7, Flattened
  <2>3. FillsStayPolled'
    BY <2>1 DEF FillsStayPolled
  <2> QED BY <1>t, <2>1, <2>2, <2>3 DEF PollInv
<1>8. CASE Crash \/ (\E o \in StoreOutcomes : EndSession(o)) \/ (UNCHANGED vars /\ pc = "down")
           \/ (\E config \in Policies, kill \in BOOLEAN, balances \in [Legs -> Balances],
                  ol \in StoreOutcomes, oc \in StoreOutcomes : Startup(config, kill, balances, ol, oc))
  BY <1>4, <1>8 DEF Crash, EndSession, Forget, Startup, vars
<1> QED BY <1>1, <1>2, <1>3, <1>5, <1>6, <1>7, <1>8 DEF Next, Outside

\* A hedge this session filled can be polled under its venue order id until
\* its order is terminal, whatever the disk does, unless a later plan on its
\* market takes over the id (acknowledge, reconcile).
THEOREM Polling == Spec => []FillsStayPolled
<1>1. Init => PollInv
  BY InitType DEF Init, PollInv, HedgeInv, PlanLegs, FillsStayPolled, cur
<1>2. PollInv => FillsStayPolled
  BY DEF PollInv
<1> QED BY <1>1, <1>2, PollStep, PTL DEF Spec

----------------------------------------------------------------------------
(***************************************************************************)
(* Capital.  Every step that moves a venue's available capital moves the   *)
(* plan in hand into or out of the fates that hold it, by the same stake;  *)
(* the plan in hand is always one of this session's.                       *)
(***************************************************************************)

CapitalInv ==
    /\ HedgeInv
    /\ session.first <= cur
    /\ pc \in Working => session.first < cur
    /\ CapitalConserved

\* What the gate's operations do to the available capital.
LEMMA CashEffects ==
    ASSUME NEW g \in Gate, NEW stake \in Amounts, NEW edge \in Nat, NEW l \in Legs
    PROVE  /\ Admits(g, stake, edge) => AfterPreflight(g, stake, edge).cash[l] = g.cash[l] - stake[l]
           /\ ~Admits(g, stake, edge) => AfterPreflight(g, stake, edge).cash[l] = g.cash[l]
           /\ ReleaseTrade(g, stake).cash[l] = g.cash[l] + stake[l]
           /\ SettleGate(g, 0).cash[l] = g.cash[l]
           /\ g.cash[l] \in Int /\ stake[l] \in Int
<1>1. ASSUME NEW h \in Gate, NEW ls \in SUBSET Legs
      PROVE  /\ Reserve(h, stake, ls).cash[l] = IF l \in ls THEN h.cash[l] - stake[l] ELSE h.cash[l]
             /\ Release(h, stake, ls).cash[l] = IF l \in ls THEN h.cash[l] + stake[l] ELSE h.cash[l]
             /\ Reserve(h, stake, ls) \in Gate
  <2>1. [m \in Legs |-> IF m \in ls THEN h.cash[m] - stake[m] ELSE h.cash[m]] \in Amounts
    BY DEF Amounts, Gate
  <2> QED BY <2>1 DEF Reserve, Release, Gate
<1>2. ASSUME NEW h \in Gate, NEW n PROVE [h EXCEPT !.open = n].cash = h.cash
  BY DEF Gate
<1>3. ASSUME NEW h \in Gate, NEW n, NEW x PROVE [h EXCEPT !.loss = x, !.open = n].cash = h.cash
  BY DEF Gate
<1>4. Reservable(g, stake) \subseteq Legs
  BY DEF Reservable
<1>5. g.cash[l] \in Int /\ stake[l] \in Int
  BY DEF Gate, Amounts
<1>6. Admits(g, stake, edge) => AfterPreflight(g, stake, edge).cash[l] = g.cash[l] - stake[l]
  BY <1>1, <1>2 DEF AfterPreflight, Admits
<1>7. ~Admits(g, stake, edge) => AfterPreflight(g, stake, edge).cash[l] = g.cash[l]
  BY <1>1, <1>4, <1>5 DEF AfterPreflight, Admits
<1>8. ReleaseTrade(g, stake).cash[l] = g.cash[l] + stake[l]
  <2>1. Release(g, stake, Legs) \in Gate
    <3>1. [m \in Legs |-> IF m \in Legs THEN g.cash[m] + stake[m] ELSE g.cash[m]] \in Amounts
      BY DEF Amounts, Gate
    <3> QED BY <3>1 DEF Release, Gate
  <2> QED BY <1>1, <1>2, <2>1 DEF ReleaseTrade
<1>9. SettleGate(g, 0).cash[l] = g.cash[l]
  BY <1>3 DEF SettleGate
<1> QED BY <1>5, <1>6, <1>7, <1>8, <1>9

LEMMA HoldsType ==
    ASSUME TypeInv, NEW l \in Legs
    PROVE  /\ \A u \in 1 .. cur : Holds(u, l) \in Int
           /\ Held(l) \in Int
           /\ IsFiniteSet(1 .. cur) /\ cur \in Nat
           /\ session.base[l] \in Int /\ gate.cash[l] \in Int
<1>1. \A u \in 1 .. cur : Holds(u, l) \in Int
  BY TypeFacts DEF Holds, Amounts
<1>2. IsFiniteSet(1 .. cur) /\ cur \in Nat
  BY TypeFacts, FS_Interval
<1>3. Held(l) \in Int
  <2> DEFINE f == [t \in 1 .. cur |-> Holds(t, l)]
  <2>1. \A t \in 1 .. cur : f[t] \in Int
    BY <1>1
  <2> HIDE DEF f
  <2>2. SumFunctionOnSet(f, 1 .. cur) \in Int
    BY <1>2, <2>1, SumType
  <2> QED BY <2>2 DEF Held, f
<1>4. session.base[l] \in Int /\ gate.cash[l] \in Int
  BY DEF TypeInv, TypeOK, Gate, Amounts
<1> QED BY <1>1, <1>2, <1>3, <1>4

\* A step that changes what one trade holds changes the total by as much.
LEMMA HeldEdited ==
    ASSUME TypeInv, TypeInv', NEW x \in 1 .. cur, cur' = cur, NEW l \in Legs,
           \A u \in 1 .. cur : u # x => Holds(u, l)' = Holds(u, l)
    PROVE  Held(l)' = Held(l) + Holds(x, l)' - Holds(x, l)
<1> DEFINE f == [t \in 1 .. cur |-> Holds(t, l)]
           e == [t \in 1 .. cur |-> Holds(t, l)']
<1>1. Held(l) = SumFunctionOnSet(f, 1 .. cur) /\ Held(l)' = SumFunctionOnSet(e, 1 .. cur)
  BY DEF Held
<1>2. /\ \A y \in 1 .. cur : Holds(y, l) \in Int /\ Holds(y, l)' \in Int
      /\ IsFiniteSet(1 .. cur)
  <2>1. trades' \in Seq(Trade) /\ Len(trades') = cur
    BY DEF TypeInv, TypeOK, cur
  <2>2. \A y \in 1 .. cur : trades'[y] \in Trade
    BY <2>1
  <2>3. \A y \in 1 .. cur : Holds(y, l)' \in Int
    BY <2>2 DEF Holds, Trade, Amounts
  <2> QED BY <2>3, HoldsType
<1>3. /\ \A y \in 1 .. cur : f[y] \in Int /\ e[y] \in Int
      /\ \A y \in (1 .. cur) \ {x} : f[y] = e[y]
      /\ f[x] = Holds(x, l) /\ e[x] = Holds(x, l)'
  BY <1>2
<1> HIDE DEF f, e
<1>4. SumFunctionOnSet(e, 1 .. cur) = SumFunctionOnSet(f, 1 .. cur) + e[x] - f[x]
  BY <1>2, <1>3, SumOfChanged
<1> QED BY <1>1, <1>3, <1>4

\* Steps that leave the accounts alone.
LEMMA CapitalQuiet ==
    ASSUME CapitalInv, HedgeInv', pc # "down", session' = session, cur' = cur,
           \A l \in Legs : gate'.cash[l] = gate.cash[l],
           pc' \in Working => pc \in Working,
           \A u \in 1 .. cur : \A l \in Legs : Holds(u, l)' = Holds(u, l)
    PROVE  CapitalInv'
<1>1. \A l \in Legs : Held(l)' = Held(l)
  BY DEF Held
<1>2. CapitalConserved'
  BY <1>1 DEF CapitalInv, CapitalConserved
<1> QED BY <1>2 DEF CapitalInv

\* Steps that move the plan in hand and its stake.
LEMMA CapitalMoves ==
    ASSUME CapitalInv, HedgeInv', pc \in Working, session' = session, NEW f, SetFate(cur, f),
           NEW x, x = cur,
           \A l \in Legs : gate'.cash[l] + Holds(x, l)' = gate.cash[l] + Holds(x, l)
    PROVE  CapitalInv'
<1>t. TypeInv /\ TypeInv' /\ x \in 1 .. cur
  BY TypeFacts DEF CapitalInv, HedgeInv
<1>1. /\ cur' = cur
      /\ \A u \in 1 .. cur : \A l \in Legs : u # x => Holds(u, l)' = Holds(u, l)
  BY <1>t, EditedFate DEF Holds
<1>2. ASSUME NEW l \in Legs PROVE gate'.cash[l] + Held(l)' = session'.base[l]
  <2>1. Held(l)' = Held(l) + Holds(x, l)' - Holds(x, l)
    BY <1>t, <1>1, HeldEdited
  <2>2. gate.cash[l] + Held(l) = session.base[l]
    BY DEF CapitalInv, CapitalConserved, Working
  <2>3. /\ gate.cash[l] \in Int /\ gate'.cash[l] \in Int /\ Held(l) \in Int
        /\ Holds(x, l) \in Int /\ Holds(x, l)' \in Int
    <3>1. gate'.cash[l] \in Int
      BY <1>t DEF TypeInv, TypeOK, Gate, Amounts
    <3>2. trades'[x] \in Trade
      BY <1>t, <1>1 DEF TypeInv, TypeOK, cur
    <3>3. Holds(x, l)' \in Int
      BY <3>2 DEF Holds, Trade, Amounts
    <3> QED BY <1>t, <3>1, <3>3, HoldsType
  <2>4. gate'.cash[l] + Holds(x, l)' = gate.cash[l] + Holds(x, l)
    OBVIOUS
  <2> QED BY ONLY <2>1, <2>2, <2>3, <2>4, session' = session
<1> QED BY <1>1, <1>2 DEF CapitalInv, CapitalConserved

\* Steps of the plan in hand: only a preflight that admits and the release of a
\* hedge that failed move capital.
LEMMA CapitalPlan ==
    ASSUME CapitalInv, HedgeInv',
           \/ \E o : PersistLeg(o) \/ RollBack(o)
           \/ PreflightRejects \/ PreflightAdmits \/ Classify
           \/ UnwindFails \/ ReleasePhantom
    PROVE  CapitalInv'
<1>t. TypeInv /\ PlanLegs /\ gate \in Gate /\ cur \in Nat
  BY TypeFacts DEF CapitalInv, HedgeInv
<1>0. pc \in Working /\ session' = session
  BY DEF PersistLeg, RollBack, PreflightRejects, PreflightAdmits, Classify, UnwindFails, ReleasePhantom,
         Working
<1>1. PICK x : x = cur
  OBVIOUS
<1>2. x \in 1 .. cur /\ session.first < x /\ trades[x].stake \in Amounts /\ trades[x].edge \in Nat
  BY <1>t, <1>0, <1>1, TypeFacts DEF CapitalInv, Legs
<1>3. CASE trades' = trades /\ ((\E o : PersistLeg(o) \/ RollBack(o)) \/ Classify \/ UnwindFails)
  <2>1. gate' = gate /\ pc # "down"
    BY <1>0, <1>3 DEF PersistLeg, RollBack, Classify, UnwindFails, Working
  <2>2. cur' = cur /\ \A u \in 1 .. cur : trades'[u] = trades[u]
    BY <1>t, <1>3, SameHistory
  <2>3. \A u \in 1 .. cur : \A l \in Legs : Holds(u, l)' = Holds(u, l)
    BY <1>0, <2>2 DEF Holds
  <2> QED BY <1>0, <2>1, <2>2, <2>3, CapitalQuiet
<1>4. ASSUME NEW f, SetFate(cur, f)
      PROVE  /\ \A l \in Legs : Holds(x, l)' = IF f \in {"reserved", "filled", "stuck"}
                                              THEN trades[x].stake[l] ELSE 0
             /\ \A l \in Legs : Holds(x, l) = IF trades[x].fate \in {"reserved", "filled", "stuck"}
                                             THEN trades[x].stake[l] ELSE 0
  BY <1>t, <1>0, <1>1, <1>2, <1>4, EditedFate DEF Holds
<1>5. CASE (\E o : PersistLeg(o) \/ RollBack(o)) /\ trades' # trades
  <2>1. SetFate(cur, "skipped") /\ gate' = gate /\ trades[x].fate = "planned"
    BY <1>t, <1>1, <1>5 DEF PersistLeg, RollBack, SetFate, PlanLegs
  <2>2. \A l \in Legs : Holds(x, l)' = 0 /\ Holds(x, l) = 0
    BY <1>4, <2>1
  <2> QED BY <1>0, <1>1, <2>1, <2>2, CapitalMoves
<1>6. CASE PreflightRejects
  <2>1. SetFate(cur, "rejected") /\ trades[x].fate = "planned"
        /\ gate' = AfterPreflight(gate, trades[x].stake, trades[x].edge)
        /\ ~Admits(gate, trades[x].stake, trades[x].edge)
    BY <1>t, <1>1, <1>6 DEF PreflightRejects, SetFate, PlanLegs
  <2>2. \A l \in Legs : Holds(x, l)' = 0 /\ Holds(x, l) = 0
    BY <1>4, <2>1
  <2>3. \A l \in Legs : gate'.cash[l] = gate.cash[l]
    BY <1>t, <1>2, <2>1, CashEffects
  <2> QED BY <1>0, <1>1, <2>1, <2>2, <2>3, CapitalMoves
<1>7. CASE PreflightAdmits
  <2>1. SetFate(cur, "reserved") /\ trades[x].fate = "planned"
        /\ gate' = AfterPreflight(gate, trades[x].stake, trades[x].edge)
        /\ Admits(gate, trades[x].stake, trades[x].edge)
    BY <1>t, <1>1, <1>7 DEF PreflightAdmits, SetFate, PlanLegs
  <2>2. \A l \in Legs : Holds(x, l)' = trades[x].stake[l] /\ Holds(x, l) = 0
    BY <1>4, <2>1
  <2>3. \A l \in Legs : /\ gate'.cash[l] = gate.cash[l] - trades[x].stake[l]
                       /\ gate.cash[l] \in Int /\ trades[x].stake[l] \in Int
    BY <1>t, <1>2, <2>1, CashEffects
  <2>4. \A l \in Legs : gate'.cash[l] + Holds(x, l)' = gate.cash[l] + Holds(x, l)
    <3>1. TAKE l \in Legs
    <3>2. gate'.cash[l] = gate.cash[l] - trades[x].stake[l] /\ gate.cash[l] \in Int
          /\ trades[x].stake[l] \in Int /\ Holds(x, l)' = trades[x].stake[l] /\ Holds(x, l) = 0
      BY <2>2, <2>3
    <3> QED BY ONLY <3>2
  <2> QED BY <1>0, <1>1, <2>1, <2>4, CapitalMoves
<1>8. CASE Classify \/ UnwindFails
  <2>1. CASE trades' # trades
    <3>1. PICK f \in {"filled", "stuck"} : SetFate(cur, f)
      BY <1>8, <2>1 DEF Classify, UnwindFails, SetFate
    <3>2. gate' = gate /\ trades[x].fate = "reserved"
      BY <1>t, <1>1, <1>8 DEF Classify, UnwindFails, PlanLegs
    <3>3. \A l \in Legs : Holds(x, l)' = Holds(x, l)
      BY <1>4, <3>1, <3>2
    <3> QED BY <1>0, <1>1, <3>1, <3>2, <3>3, CapitalMoves
  <2> QED BY <1>3, <1>8, <2>1
<1>9. CASE ReleasePhantom
  <2>1. SetFate(cur, "phantom") /\ trades[x].fate = "reserved" /\ gate' = ReleaseTrade(gate, trades[x].stake)
    BY <1>t, <1>1, <1>9 DEF ReleasePhantom, SetFate, PlanLegs
  <2>2. \A l \in Legs : Holds(x, l)' = 0 /\ Holds(x, l) = trades[x].stake[l]
    BY <1>4, <2>1
  <2>3. \A l \in Legs : /\ gate'.cash[l] = gate.cash[l] + trades[x].stake[l]
                       /\ gate.cash[l] \in Int /\ trades[x].stake[l] \in Int
    BY <1>t, <1>2, <2>1, CashEffects
  <2>4. \A l \in Legs : gate'.cash[l] + Holds(x, l)' = gate.cash[l] + Holds(x, l)
    <3>1. TAKE l \in Legs
    <3>2. gate'.cash[l] = gate.cash[l] + trades[x].stake[l] /\ gate.cash[l] \in Int
          /\ trades[x].stake[l] \in Int /\ Holds(x, l) = trades[x].stake[l] /\ Holds(x, l)' = 0
      BY <2>2, <2>3
    <3> QED BY ONLY <3>2
  <2> QED BY <1>0, <1>1, <2>1, <2>4, CapitalMoves
<1> QED BY <1>3, <1>5, <1>6, <1>7, <1>8, <1>9

\* A new plan holds nothing yet.
LEMMA CapitalTakes ==
    ASSUME CapitalInv, HedgeInv', NEW market, NEW key, NEW stake, NEW edge,
           TakeSignal(market, key, stake, edge)
    PROVE  CapitalInv'
<1>t. TypeInv /\ TypeInv' /\ cur \in Nat /\ session.first \in Nat /\ session.first <= cur
  BY TypeFacts DEF CapitalInv, HedgeInv, TypeInv, TypeOK
<1>0. pc = "loop" /\ session' = session /\ gate' = gate
  BY DEF TakeSignal
<1>1. /\ cur' = cur + 1 /\ \A u \in 1 .. cur : trades'[u] = trades[u]
      /\ trades'[cur'].fate = "planned"
  BY <1>t, OneMore
<1>2. PICK n : n = cur + 1 /\ n = cur'
  BY <1>1
<1>3. /\ 1 .. n = (1 .. cur) \cup {n} /\ n \notin 1 .. cur
      /\ session'.first < cur' /\ session'.first <= cur'
  BY <1>t, <1>0, <1>2
<1>4. ASSUME NEW l \in Legs PROVE Held(l)' = Held(l)
  <2> DEFINE f == [t \in 1 .. cur |-> Holds(t, l)]
             e == [t \in 1 .. n |-> Holds(t, l)']
  <2>1. Held(l) = SumFunctionOnSet(f, 1 .. cur) /\ Held(l)' = SumFunctionOnSet(e, 1 .. n)
    BY <1>2 DEF Held
  <2>2. /\ \A u \in 1 .. cur : Holds(u, l)' = Holds(u, l) /\ Holds(u, l) \in Int
        /\ IsFiniteSet(1 .. cur)
    BY <1>t, <1>0, <1>1, HoldsType DEF Holds
  <2>3. Holds(n, l)' = 0
    BY <1>1, <1>2 DEF Holds
  <2>4. /\ \A u \in 1 .. cur : f[u] = e[u] /\ e[u] \in Int
        /\ e[n] = 0
    <3>1. n \in 1 .. n /\ \A u \in 1 .. cur : u \in 1 .. n
      BY <1>3
    <3>2. e[n] = Holds(n, l)'
      BY <3>1
    <3>3. \A u \in 1 .. cur : f[u] = Holds(u, l) /\ e[u] = Holds(u, l)'
      BY <3>1
    <3> HIDE DEF f, e
    <3> QED BY <2>2, <2>3, <3>2, <3>3
  <2> HIDE DEF f, e
  <2>5. SumFunctionOnSet(e, (1 .. cur) \cup {n}) = SumFunctionOnSet(e, 1 .. cur) + e[n]
    <3>1. \A y \in (1 .. cur) \cup {n} : e[y] \in Int
      BY <2>4
    <3> QED BY <1>3, <2>2, <3>1, SumWith
  <2>6. SumFunctionOnSet(f, 1 .. cur) = SumFunctionOnSet(e, 1 .. cur)
    <3>1. IsFiniteSet(1 .. cur) /\ \A u \in 1 .. cur : f[u] = e[u]
      BY <2>2, <2>4
    <3> QED BY <3>1, SumOfEqual
  <2>7. Held(l) \in Int
    BY <1>t, HoldsType
  <2>8. Held(l)' = Held(l) + 0
    BY <1>3, <2>1, <2>4, <2>5, <2>6
  <2> QED BY <2>7, <2>8
<1>5. CapitalConserved'
  BY <1>0, <1>4 DEF CapitalInv, CapitalConserved
<1> QED BY <1>3, <1>5 DEF CapitalInv

\* A session starts with its balances and no hedge of its own.
LEMMA CapitalStarts ==
    ASSUME CapitalInv, HedgeInv', NEW config, NEW kill, NEW balances \in [Legs -> Balances], NEW ol, NEW oc,
           Startup(config, kill, balances, ol, oc)
    PROVE  CapitalInv'
<1>t. TypeInv /\ TypeInv' /\ cur \in Nat
  BY TypeFacts DEF CapitalInv, HedgeInv
<1>0. /\ pc' = "loop" /\ trades' = trades
      /\ session'.first = cur /\ session'.base = balances /\ gate'.cash = balances
  BY DEF Startup, NewGate
<1>1. cur' = cur
  BY <1>t, <1>0, SameHistory
<1>2. \A l \in Legs : Held(l)' = 0
  <2>1. TAKE l \in Legs
  <2> DEFINE e == [t \in 1 .. cur |-> Holds(t, l)']
  <2>2. Held(l)' = SumFunctionOnSet(e, 1 .. cur)
    BY <1>1 DEF Held
  <2>3. \A u \in 1 .. cur : e[u] = 0
    BY <1>t, <1>0 DEF Holds
  <2> HIDE DEF e
  <2>4. IsFiniteSet(1 .. cur)
    BY <1>t, HoldsType, FS_Interval
  <2> QED BY <2>2, <2>3, <2>4, SumOfZeros
<1>3. \A l \in Legs : balances[l] \in Int
  BY TraderAssumption
<1>4. CapitalConserved'
  BY <1>0, <1>2, <1>3 DEF CapitalConserved
<1> QED BY <1>t, <1>0, <1>1, <1>4 DEF CapitalInv, Working

LEMMA CapitalStep == CapitalInv /\ [Next]_vars => CapitalInv'
<1> SUFFICES ASSUME CapitalInv, [Next]_vars PROVE CapitalInv'
  OBVIOUS
<1>t. TypeInv /\ TypeInv' /\ HedgeInv' /\ cur \in Nat /\ session.first \in Nat /\ session.first <= cur
      /\ (pc \in Working => cur \in 1 .. cur)
  BY HedgeStep, TypeFacts DEF CapitalInv, HedgeInv, TypeInv, TypeOK
<1>1. ASSUME pc # "down", session' = session, pc' \in Working => pc \in Working,
             \A l \in Legs : gate'.cash[l] = gate.cash[l], trades' = trades
      PROVE  CapitalInv'
  <2>1. cur' = cur /\ \A u \in 1 .. cur : trades'[u] = trades[u]
    BY <1>t, <1>1, SameHistory
  <2>2. \A u \in 1 .. cur : \A l \in Legs : Holds(u, l)' = Holds(u, l)
    BY <1>1, <2>1 DEF Holds
  <2> QED BY <1>t, <1>1, <2>1, <2>2, CapitalQuiet
<1>2. ASSUME pc # "down", session' = session, pc' = pc, gate' = gate, NEW t \in 1 .. cur, NEW l \in Legs,
             (\E a : SetReply(t, l, a)) \/ (\E v : SetVenue(t, l, v))
      PROVE  CapitalInv'
  <2>1. cur' = cur /\ \A u \in 1 .. cur : trades'[u].fate = trades[u].fate /\ trades'[u].stake = trades[u].stake
    BY <1>t, <1>2, EditedReply, EditedVenue
  <2>2. \A u \in 1 .. cur : \A m \in Legs : Holds(u, m)' = Holds(u, m)
    BY <1>2, <2>1 DEF Holds
  <2> QED BY <1>t, <1>2, <2>1, <2>2, CapitalQuiet
<1>3. ASSUME pc' = "down", session' = session, cur' = cur
      PROVE  CapitalInv'
  BY <1>t, <1>3 DEF CapitalInv, CapitalConserved, Working
<1>4. CASE RunnerStep
  <2>1. CASE \E o \in StoreOutcomes : CheckpointSettled(o) \/ AckLeg(o) \/ CheckpointTrade(o)
    BY <1>1, <2>1 DEF CheckpointSettled, AckLeg, CheckpointTrade, Working
  <2>2. CASE \E o \in StoreOutcomes : \E e \in todo : SettleEntry(e, o)
    <3>1. /\ pc = "settle" /\ pc' = pc /\ session' = session /\ trades' = trades
          /\ gate' = SettleGate(gate, 0)
      BY <2>2 DEF SettleEntry
    <3>2. \A l \in Legs : gate'.cash[l] = gate.cash[l]
      <4>1. NoCash \in Amounts /\ 0 \in Nat /\ gate \in Gate
        BY <1>t, TypeFacts DEF NoCash, Amounts
      <4> QED BY <3>1, <4>1, CashEffects
    <3> QED BY <1>1, <3>1, <3>2
  <2>3. CASE UnwindSkips
    BY <1>1, <2>3 DEF UnwindSkips, Working
  <2>4. CASE UnwindSucceeds
    <3>1. /\ pc = "unwind" /\ pc' = pc /\ session' = session /\ gate' = gate /\ step \in Legs
          /\ SetVenue(cur, step, "unwound") /\ cur \in 1 .. cur
      BY <1>t, <2>4 DEF UnwindSucceeds, SetVenue, Working
    <3> QED BY <1>2, <3>1
  <2>5. CASE \E l \in Legs : Send(l) \/ \E r \in {"full", "short", "err"} : Reply(l, r)
    <3>1. PICK l \in Legs : Send(l) \/ \E r \in {"full", "short", "err"} : Reply(l, r)
      BY <2>5
    <3>2. /\ pc = "submit" /\ pc' = pc /\ session' = session /\ gate' = gate /\ cur \in 1 .. cur
          /\ (\E a : SetReply(cur, l, a)) \/ (\E v : SetVenue(cur, l, v))
      BY <1>t, <3>1 DEF Send, Reply, SetReply, SetVenue, Working
    <3> QED BY <1>2, <3>2
  <2> QED BY <1>t, <1>4, <2>1, <2>2, <2>3, <2>4, <2>5, CapitalPlan DEF RunnerStep
<1>5. CASE Reconciling
  BY <1>1, <1>5 DEF Reconciling, Reconcile, Working
<1>6. CASE Outside
  <2>1. CASE \E market \in Markets, key \in Keys, stake \in [Legs -> Stakes], edge \in Edges :
                 TakeSignal(market, key, stake, edge)
    BY <1>t, <2>1, CapitalTakes
  <2>2. CASE \E config \in Policies, kill \in BOOLEAN, balances \in [Legs -> Balances],
                 ol \in StoreOutcomes, oc \in StoreOutcomes : Startup(config, kill, balances, ol, oc)
    BY <1>t, <2>2, CapitalStarts
  <2>3. CASE \E key \in Keys : SkipUnresolved(key)
    BY <1>1, <2>3 DEF SkipUnresolved, Working
  <2>4. CASE \E engage, confirm \in BOOLEAN : KillSwitch(engage, confirm)
    <3>1. PICK engage \in BOOLEAN : gate' = [gate EXCEPT !.kill = engage]
      BY <2>4 DEF KillSwitch
    <3>2. gate'.cash = gate.cash
      BY <1>t, <3>1, TypeFacts DEF Gate
    <3> QED BY <1>1, <2>4, <3>2 DEF KillSwitch, Working
  <2>5. CASE Crash \/ \E o \in StoreOutcomes : EndSession(o)
    <3>1. pc' = "down" /\ session' = session /\ trades' = trades
      BY <2>5 DEF Crash, EndSession, Forget
    <3> QED BY <1>t, <1>3, <3>1, SameHistory
  <2> QED BY <1>6, <2>1, <2>2, <2>3, <2>4, <2>5 DEF Outside
<1>7. CASE Venue
  <2>1. PICK t \in 1 .. cur, l \in Legs : VenueSettles(t, l) \/ \E v \in Handlings : VenueHandles(t, l, v)
    BY <1>7 DEF Venue
  <2>2. /\ pc' = pc /\ session' = session /\ gate' = gate
        /\ \E v : SetVenue(t, l, v)
    BY <2>1 DEF VenueSettles, VenueHandles, SetVenue, mem
  <2>3. cur' = cur
    BY <1>t, <2>2, EditedVenue
  <2> QED BY <1>2, <1>3, <2>2, <2>3
<1>8. CASE OperatorReconciles
  <2>1. pc' = "down" /\ session' = session
    BY <1>8 DEF OperatorReconciles
  <2>2. cur' = cur
    BY <1>t, <1>8, Flattened
  <2> QED BY <1>3, <2>1, <2>2
<1>9. CASE UNCHANGED vars
  <2>1. pc' = pc /\ session' = session /\ gate' = gate /\ trades' = trades
    BY <1>9 DEF vars
  <2> QED BY <1>t, <1>1, <1>3, <2>1, SameHistory
<1> QED BY <1>4, <1>5, <1>6, <1>7, <1>8, <1>9 DEF Next

\* Every reservation is accounted for: the available capital and the stakes of
\* the hedges that hold some make up the balance the session started with,
\* whatever is refused, unwound or left stuck (preflight, release_trade, settle).
THEOREM Conservation == Spec => []CapitalConserved
<1>1. Init => CapitalInv
  <2>1. ASSUME Init PROVE pc = "down" /\ session.first = 0 /\ cur = 0
    BY <2>1 DEF Init, cur
  <2>2. Init => HedgeInv
    BY InitType DEF HedgeInv, Init, PlanLegs, cur
  <2> QED BY <2>1, <2>2 DEF CapitalInv, CapitalConserved, Working
<1>2. CapitalInv => CapitalConserved
  BY DEF CapitalInv
<1> QED BY <1>1, <1>2, CapitalStep, PTL DEF Spec
=============================================================================
