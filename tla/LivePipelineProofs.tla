------------------------- MODULE LivePipelineProofs -------------------------
(***************************************************************************)
(* The pipeline for every set of feeds and markets, every frame the venues *)
(* may publish and every capacity: events reach the engine in order and    *)
(* once, the signals of a market are spaced, a halted book stays out until *)
(* its own snapshot, and no book in service has missed a change.  Order    *)
(* is not inductive once the bridge drains: a full ring then drops events, *)
(* and only the fact that the engine takes at most one more step keeps     *)
(* what it has seen a prefix of what was sent.                             *)
(***************************************************************************)
EXTENDS LivePipeline, FiniteSetTheorems, SequenceTheorems, TLAPS

\* t begins with s, element by element.
Begins(s, t) == Len(s) <= Len(t) /\ \A i \in 1 .. Len(s) : s[i] = t[i]

PipeType ==
    /\ number \in Nat /\ changes \in [BookIds -> Nat] /\ epoch \in [Feeds -> Nat]
    /\ channel \in Seq(EventType) /\ hand \in Seq(EventType) /\ ring \in Seq(EventType)
    /\ sent \in Seq(EventType) /\ taken \in Seq(EventType)
    /\ bridge \in {"check", "recv", "push", "drain", "done"}
    /\ bridge \in {"check", "recv"} => hand = <<>>
    /\ bridge = "push" => Len(hand) = 1

\* Nothing is lost, repeated or overtaken while the bridge runs.
RunningInv ==
    bridge \in {"check", "recv", "push"} => taken \o ring \o hand \o channel = sent

\* Afterwards the engine may take one more event: the one it finds in the ring,
\* or the first the bridge puts there.
DrainInv ==
    bridge \in {"drain", "done"} =>
        /\ ~running
        /\ Begins(taken, sent)
        /\ (engine = "step" /\ ring # <<>>) => Begins(Append(taken, Head(ring)), sent)
        /\ (engine = "step" /\ ring = <<>> /\ bridge = "drain") => Begins(taken \o hand, sent)

OrderInv == PipeType /\ RunningInv /\ DrainInv

----------------------------------------------------------------------------
\* Sequences.

LEMMA BeginsIsPrefix ==
    ASSUME NEW S, NEW s \in Seq(S), NEW t \in Seq(S), Begins(s, t)
    PROVE  IsPrefix(s, t)
<1>1. Len(s) \in Nat /\ Len(t) \in Nat /\ Len(s) <= Len(t)
  BY LenProperties DEF Begins
<1>2. \A i \in 1 .. Len(s) : s[i] \in S /\ t[i] \in S /\ s[i] = t[i]
  BY <1>1, ElementOfSeq DEF Begins
<1> DEFINE a == SubSeq(s, 1, Len(s))
           b == SubSeq(t, 1, Len(s))
<1>3. /\ a \in Seq(S) /\ Len(a) = Len(s)
      /\ \A i \in 1 .. Len(s) : a[i] = s[i]
  BY <1>1, <1>2, SubSeqProperties
<1>4. /\ b \in Seq(S) /\ Len(b) = Len(s)
      /\ \A i \in 1 .. Len(s) : b[i] = t[i]
  BY <1>1, <1>2, SubSeqProperties
<1>5. a = b
  BY <1>2, <1>3, <1>4, SeqEqual
<1> QED BY <1>1, <1>5 DEF IsPrefix

LEMMA BeginsConcat ==
    ASSUME NEW S, NEW s \in Seq(S), NEW t \in Seq(S), NEW u \in Seq(S)
    PROVE  /\ Begins(s, s \o t)
           /\ Begins(s, t) => Begins(s, t \o u)
           /\ Begins(s \o t, u) => Begins(s, u)
<1>1. Len(s) \in Nat /\ Len(t) \in Nat /\ Len(u) \in Nat
  BY LenProperties
<1>2. /\ Len(s \o t) = Len(s) + Len(t)
      /\ \A i \in 1 .. Len(s) : (s \o t)[i] = s[i]
  BY <1>1, ConcatProperties
<1>3. /\ Len(t \o u) = Len(t) + Len(u)
      /\ \A i \in 1 .. Len(t) : (t \o u)[i] = t[i]
  BY <1>1, ConcatProperties
<1> QED BY <1>1, <1>2, <1>3 DEF Begins

LEMMA Associative ==
    \A s \in Seq(EventType) : \A t \in Seq(EventType) : \A u \in Seq(EventType) :
        (s \o t) \o u = s \o (t \o u)
<1> TAKE s \in Seq(EventType)
<1> TAKE t \in Seq(EventType)
<1> TAKE u \in Seq(EventType)
<1> QED BY ConcatAssociative

\* Moving the first element of t to the end of s.
LEMMA HandOver ==
    ASSUME NEW S, NEW s \in Seq(S), NEW t \in Seq(S), t # <<>>
    PROVE  /\ Head(t) \in S /\ Tail(t) \in Seq(S)
           /\ Append(s, Head(t)) \in Seq(S)
           /\ Append(s, Head(t)) \o Tail(t) = s \o t
<1>1. Head(t) \in S /\ Tail(t) \in Seq(S) /\ <<Head(t)>> \o Tail(t) = t
  <2>1. /\ Head(t) \in S /\ Tail(t) \in Seq(S) /\ Len(t) \in Nat \ {0} /\ Len(Tail(t)) = Len(t) - 1
        /\ \A i \in 1 .. Len(t) - 1 : Tail(t)[i] = t[i + 1]
        /\ Head(t) = t[1]
    BY HeadTailProperties, EmptySeq
  <2>2. /\ <<Head(t)>> \in Seq(S) /\ Len(<<Head(t)>>) = 1 /\ <<Head(t)>>[1] = t[1]
    BY <2>1
  <2>3. /\ <<Head(t)>> \o Tail(t) \in Seq(S) /\ Len(<<Head(t)>> \o Tail(t)) = Len(t)
        /\ \A i \in 1 .. Len(t) : (<<Head(t)>> \o Tail(t))[i] =
               IF i <= 1 THEN <<Head(t)>>[i] ELSE Tail(t)[i - 1]
    BY <2>1, <2>2, ConcatProperties
  <2>4. \A i \in 1 .. Len(t) : (<<Head(t)>> \o Tail(t))[i] = t[i]
    BY <2>1, <2>2, <2>3
  <2> QED BY <2>1, <2>3, <2>4, SeqEqual
<1>2. <<Head(t)>> \in Seq(S)
  BY <1>1
<1>3. Append(s, Head(t)) \in Seq(S) /\ Append(s, Head(t)) = s \o <<Head(t)>>
  BY <1>1, AppendProperties, AppendIsConcat
<1>4. (s \o <<Head(t)>>) \o Tail(t) = s \o (<<Head(t)>> \o Tail(t))
  BY <1>1, <1>2, ConcatAssociative
<1> QED BY <1>1, <1>3, <1>4

LEMMA SingleIsHead ==
    ASSUME NEW S, NEW t \in Seq(S), Len(t) = 1
    PROVE  t # <<>> /\ Tail(t) = <<>>
<1>1. t # <<>>
  <2>1. Len(<<>>) = 0
    BY EmptySeq
  <2>2. t = <<>> => Len(t) = 0
    BY <2>1
  <2> QED BY <2>2
<1>2. Tail(t) \in Seq(S) /\ Len(Tail(t)) = 0
  BY <1>1, HeadTailProperties
<1> QED BY <1>1, <1>2, EmptySeq

LEMMA MarketsInOrder ==
    IsFiniteSet(Markets) => SetToSeq(Markets) \in Seq(Markets)
<1> SUFFICES ASSUME IsFiniteSet(Markets) PROVE SetToSeq(Markets) \in Seq(Markets)
  OBVIOUS
<1>1. /\ Cardinality(Markets) \in Nat
      /\ \E f \in [1 .. Cardinality(Markets) -> Markets] : IsInjective(f)
  BY FS_CardinalityType DEF ExistsBijection, Bijection, Injection
<1>2. SetToSeq(Markets) \in [1 .. Cardinality(Markets) -> Markets]
  BY <1>1 DEF SetToSeq
<1> QED BY <1>1, <1>2, SeqDef

----------------------------------------------------------------------------
\* What the feeds hand over.

LEMMA EventTypes ==
    ASSUME PipeType, NEW kind \in {"snapshot", "delta", "trade", "halt"}, NEW f \in Feeds,
           NEW m \in Markets, NEW o \in Outcomes \cup {All}, NEW seq \in Nat,
           NEW some \in BOOLEAN, NEW index \in Nat
    PROVE  Event(kind, f, m, o, seq, some, index) \in EventType
BY DEF PipeType, Event, EventType

\* What joins the end of the channel joins the end of what was sent.
Delivered ==
    \E events \in Seq(EventType) : channel' = channel \o events /\ sent' = sent \o events

LEMMA NothingDelivered ==
    ASSUME PipeType, UNCHANGED <<channel, sent>>
    PROVE  Delivered
<1>1. /\ <<>> \in Seq(EventType)
      /\ channel \o <<>> = channel /\ sent \o <<>> = sent
  BY ConcatEmptySeq DEF PipeType
<1> QED BY <1>1 DEF Delivered

\* Delivered events join the end of the channel and of what was sent.
LEMMA DeliverKeeps ==
    ASSUME OrderInv, NEW events \in Seq(EventType), Deliver(events),
           number' \in Nat, changes' \in [BookIds -> Nat], epoch' \in [Feeds -> Nat],
           UNCHANGED <<running, bridgeVars, ring, engineVars>>
    PROVE  OrderInv' /\ Delivered
<1>1. CASE bridge = "done"
  <2>1. UNCHANGED <<channel, sent>>
    BY <1>1 DEF Deliver
  <2> QED BY <2>1, NothingDelivered DEF OrderInv, PipeType, RunningInv, DrainInv, bridgeVars, engineVars
<1>2. CASE bridge # "done"
  <2>1. channel' = channel \o events /\ sent' = sent \o events
    BY <1>2 DEF Deliver
  <2>2. channel' \in Seq(EventType) /\ sent' \in Seq(EventType)
    BY <2>1, ConcatProperties DEF OrderInv, PipeType
  <2>3. PipeType'
    BY <2>2 DEF OrderInv, PipeType, bridgeVars, engineVars
  <2>4. taken \o ring \o hand \in Seq(EventType)
    BY ConcatProperties DEF OrderInv, PipeType
  <2>5. (taken \o ring \o hand) \o (channel \o events) = (taken \o ring \o hand \o channel) \o events
    <3>1. channel \in Seq(EventType)
      BY DEF OrderInv, PipeType
    <3> DEFINE front == taken \o ring \o hand
    <3>2. front \in Seq(EventType)
      BY <2>4
    <3>3. front \o (channel \o events) = (front \o channel) \o events
      <4> HIDE DEF front
      <4> QED BY SMTT(30), <3>1, <3>2, ConcatAssociative
    <3> QED BY <3>3
  <2>6. RunningInv'
    BY <2>1, <2>5 DEF OrderInv, RunningInv, bridgeVars, engineVars
  <2>7. DrainInv'
    <3>1. \A s \in Seq(EventType) : Begins(s, sent) => Begins(s, sent')
      <4>1. TAKE s \in Seq(EventType)
      <4>2. sent \in Seq(EventType)
        BY DEF OrderInv, PipeType
      <4> QED BY <2>1, <4>2, BeginsConcat
    <3>2. taken \in Seq(EventType) /\ taken \o hand \in Seq(EventType)
      BY ConcatProperties DEF OrderInv, PipeType
    <3>3. ring # <<>> => Append(taken, Head(ring)) \in Seq(EventType)
      BY HandOver DEF OrderInv, PipeType
    <3>4. CASE bridge = "drain"
      <4>1. /\ ~running /\ Begins(taken, sent)
            /\ (engine = "step" /\ ring # <<>>) => Begins(Append(taken, Head(ring)), sent)
            /\ (engine = "step" /\ ring = <<>>) => Begins(taken \o hand, sent)
        BY <3>4 DEF OrderInv, DrainInv
      <4>2. /\ Begins(taken, sent')
            /\ (engine = "step" /\ ring # <<>>) => Begins(Append(taken, Head(ring)), sent')
            /\ (engine = "step" /\ ring = <<>>) => Begins(taken \o hand, sent')
        BY <3>1, <3>2, <3>3, <4>1
      <4> QED BY <4>1, <4>2 DEF DrainInv, bridgeVars, engineVars
    <3> QED BY <1>2, <3>4 DEF DrainInv, bridgeVars
  <2> QED BY <2>1, <2>3, <2>6, <2>7 DEF OrderInv, Delivered
<1> QED BY <1>1, <1>2

LEMMA KalshiDelivers ==
    ASSUME OrderInv, "kalshi" \in Feeds, NEW x \in KalshiFrames,
           KalshiSnapshot(x) \/ KalshiDelta(x) \/ KalshiTrade(x) \/ KalshiSkip(x) \/ KalshiHalt(x),
           epoch' = epoch, UNCHANGED <<running, bridgeVars, ring, engineVars>>
    PROVE  OrderInv' /\ Delivered
<1> USE PipelineAssumption, FrameAssumption
<1>0. PipeType /\ number \in Nat /\ number + 1 \in Nat /\ x \in FrameType
  BY DEF OrderInv, PipeType
<1>m. x.kind # "halt" => x.market \in Markets
  BY <1>0 DEF FrameType
<1>b. \A o \in Outcomes : x.kind # "halt" => <<"kalshi", x.market, o>> \in BookIds
  BY <1>m DEF BookIds
<1>e. epoch' \in [Feeds -> Nat] /\ changes \in [BookIds -> Nat]
  BY DEF OrderInv, PipeType
<1>q. /\ <<>> \in Seq(EventType)
      /\ \A e \in EventType : <<e>> \in Seq(EventType)
  OBVIOUS
<1>1. CASE KalshiSnapshot(x)
  <2> DEFINE snapshot(o) == Event("snapshot", "kalshi", x.market, o, number', x.some,
                                  changes'[<<"kalshi", x.market, o>>])
             listed(o) == IF o \in x.sides THEN <<snapshot(o)>> ELSE <<>>
             events == IF x.parses THEN listed(1) \o listed(2) ELSE <<>>
  <2>1. x.kind = "snapshot" /\ number' = number + 1 /\ Deliver(events)
    BY <1>1 DEF KalshiSnapshot
  <2>2. changes' \in [BookIds -> Nat]
    BY <1>1, <1>e DEF KalshiSnapshot
  <2>3. \A o \in Outcomes : snapshot(o) \in EventType
    <3>1. TAKE o \in Outcomes
    <3>2. changes'[<<"kalshi", x.market, o>>] \in Nat
      BY <1>b, <2>1, <2>2
    <3> QED BY <1>0, <1>m, <2>1, <3>2, EventTypes DEF FrameType
  <2>4. listed(1) \in Seq(EventType) /\ listed(2) \in Seq(EventType)
    BY <1>q, <2>3 DEF Outcomes
  <2>5. events \in Seq(EventType)
    BY <1>q, <2>4, ConcatProperties
  <2> HIDE DEF events
  <2> QED BY <1>0, <1>e, <2>1, <2>2, <2>5, DeliverKeeps
<1>2. CASE KalshiDelta(x)
  <2>1. x.kind = "delta" /\ number' = number + 1
    BY <1>2 DEF KalshiDelta
  <2>2. PICK o \in x.sides :
          LET b == <<"kalshi", x.market, o>>
              delta == Event("delta", "kalshi", x.market, o, number', x.some, changes'[b])
          IN  /\ changes' = [changes EXCEPT ![b] = @ + 1]
              /\ Deliver(IF ~InSequence(number') THEN <<Halt("kalshi", x.market, All)>>
                         ELSE IF x.parses THEN <<delta>> ELSE <<>>)
    BY <1>2 DEF KalshiDelta
  <2> DEFINE delta == Event("delta", "kalshi", x.market, o, number', x.some,
                            changes'[<<"kalshi", x.market, o>>])
             events == IF ~InSequence(number') THEN <<Halt("kalshi", x.market, All)>>
                       ELSE IF x.parses THEN <<delta>> ELSE <<>>
  <2>3. Deliver(events) /\ o \in Outcomes
    BY <1>0, <2>2 DEF FrameType
  <2>4. changes' \in [BookIds -> Nat] /\ changes'[<<"kalshi", x.market, o>>] \in Nat
    BY <1>b, <1>e, <2>1, <2>2, <2>3
  <2>5. delta \in EventType
    BY <1>0, <1>m, <2>1, <2>3, <2>4, EventTypes DEF FrameType
  <2>6. Halt("kalshi", x.market, All) \in EventType
    BY <1>0, <1>m, <2>1, EventTypes DEF Halt
  <2>7. events \in Seq(EventType)
    BY <1>q, <2>5, <2>6
  <2> HIDE DEF events
  <2> QED BY <1>0, <1>e, <2>1, <2>3, <2>4, <2>7, DeliverKeeps
<1>3. CASE KalshiTrade(x)
  <2> DEFINE trade == Event("trade", "kalshi", x.market, 1, number', FALSE, 0)
             events == IF x.parses THEN <<trade>> ELSE <<>>
  <2>1. x.kind = "trade" /\ number' = number + 1 /\ changes' = changes /\ Deliver(events)
    BY <1>3 DEF KalshiTrade
  <2>2. trade \in EventType
    BY <1>0, <1>m, <2>1 DEF Outcomes, PipeType, Event, EventType
  <2>3. events \in Seq(EventType)
    BY <1>q, <2>2
  <2> HIDE DEF events
  <2> QED BY <1>0, <1>e, <2>1, <2>3, DeliverKeeps
<1>4. CASE KalshiSkip(x)
  <2>1. /\ x.kind = "skip" /\ number' = number + 1 /\ UNCHANGED <<channel, sent>>
        /\ \E o \in x.sides : changes' = [changes EXCEPT ![<<"kalshi", x.market, o>>] = @ + 1]
    BY <1>4 DEF KalshiSkip
  <2>2. changes' \in [BookIds -> Nat]
    <3>1. PICK o \in x.sides : changes' = [changes EXCEPT ![<<"kalshi", x.market, o>>] = @ + 1]
      BY <2>1
    <3>2. <<"kalshi", x.market, o>> \in BookIds
      BY <1>0, <1>b, <2>1 DEF FrameType
    <3> QED BY <1>e, <3>1, <3>2
  <2> QED BY <1>0, <1>e, <2>1, <2>2, NothingDelivered
      DEF OrderInv, PipeType, RunningInv, DrainInv, bridgeVars, engineVars
<1>5. CASE KalshiHalt(x)
  <2> DEFINE halted == IF x.market \in Markets THEN <<x.market>> ELSE SetToSeq(Markets)
             events == [i \in DOMAIN halted |-> Halt("kalshi", halted[i], All)]
  <2>1. Deliver(events) /\ number' = number /\ changes' = changes
    BY <1>5 DEF KalshiHalt
  <2>2. halted \in Seq(Markets)
    BY MarketsInOrder
  <2>3. events \in Seq(EventType)
    <3>1. Len(halted) \in Nat /\ DOMAIN halted = 1 .. Len(halted)
      BY <2>2, LenProperties
    <3>2. \A i \in 1 .. Len(halted) : Halt("kalshi", halted[i], All) \in EventType
      <4>1. TAKE i \in 1 .. Len(halted)
      <4>2. halted[i] \in Markets
        BY <2>2, ElementOfSeq
      <4> HIDE DEF halted
      <4> QED BY <1>0, <4>2, EventTypes DEF Halt
    <3>3. events \in [1 .. Len(halted) -> EventType]
      BY <3>1, <3>2
    <3> HIDE DEF events, halted
    <3> QED BY <3>1, <3>3, SeqDef
  <2> HIDE DEF events
  <2> QED BY <1>0, <1>e, <2>1, <2>3, DeliverKeeps
<1> QED BY <1>1, <1>2, <1>3, <1>4, <1>5

LEMMA PolymarketDelivers ==
    ASSUME OrderInv, "poly" \in Feeds, NEW x \in PolymarketFrames, NEW o \in x.sides,
           PolymarketBook(x, o) \/ PolymarketNotice(x, o), number' = number,
           epoch' = epoch, UNCHANGED <<running, bridgeVars, ring, engineVars>>
    PROVE  OrderInv' /\ Delivered
<1> USE PipelineAssumption, FrameAssumption
<1>0. PipeType /\ x \in FrameType /\ x.market \in Markets /\ o \in Outcomes
  BY DEF OrderInv, FrameType
<1>b. <<"poly", x.market, o>> \in BookIds
  BY <1>0 DEF BookIds
<1>e. epoch' \in [Feeds -> Nat] /\ changes \in [BookIds -> Nat] /\ number' \in Nat
  BY DEF OrderInv, PipeType
<1>1. CASE PolymarketBook(x, o)
  <2> DEFINE event == Event(x.kind, "poly", x.market, o, 0, x.some, changes'[<<"poly", x.market, o>>])
             events == IF x.parses THEN <<event>> ELSE <<>>
  <2>1. /\ x.kind \in {"snapshot", "delta"} /\ Deliver(events)
        /\ changes' = [changes EXCEPT ![<<"poly", x.market, o>>] = @ + 1]
    BY <1>1 DEF PolymarketBook
  <2>2. changes' \in [BookIds -> Nat] /\ changes'[<<"poly", x.market, o>>] \in Nat
    BY <1>b, <1>e, <2>1
  <2>3. event \in EventType
    BY <1>0, <2>1, <2>2, EventTypes DEF FrameType
  <2>4. events \in Seq(EventType)
    BY <2>3
  <2> HIDE DEF events
  <2> QED BY <1>e, <2>1, <2>2, <2>4, DeliverKeeps
<1>2. CASE PolymarketNotice(x, o)
  <2> DEFINE event == Event(x.kind, "poly", x.market, o, 0, FALSE, 0)
             events == IF x.parses THEN <<event>> ELSE <<>>
  <2>1. x.kind \in {"trade", "halt"} /\ changes' = changes /\ Deliver(events)
    BY <1>2 DEF PolymarketNotice
  <2>2. event \in EventType
    BY <1>0, <2>1 DEF PipeType, Event, EventType
  <2>3. events \in Seq(EventType)
    <3> HIDE DEF event
    <3> QED BY <2>2
  <2> HIDE DEF events
  <2> QED BY <1>e, <2>1, <2>3, DeliverKeeps
<1> QED BY <1>1, <1>2

LEMMA FeedKeeps ==
    ASSUME OrderInv, FeedStep
    PROVE  OrderInv' /\ Delivered
<1>1. PICK f \in Feeds : Connect(f) \/ Disconnect(f) \/ FeedStops(f) \/ ReceiveFrame(f)
  BY DEF FeedStep
<1>2. CASE Connect(f)
  <2>1. /\ number' \in Nat /\ epoch' \in [Feeds -> Nat]
        /\ UNCHANGED <<running, changes, channel, bridge, hand, ring, engine, taken, sent>>
    BY <1>2 DEF OrderInv, PipeType, Connect, bridgeVars, engineVars
  <2> QED BY <2>1, NothingDelivered DEF OrderInv, PipeType, RunningInv, DrainInv
<1>3. CASE Disconnect(f) \/ FeedStops(f)
  <2>1. UNCHANGED <<running, number, epoch, changes, channel, bridge, hand, ring, engine, taken, sent>>
    BY <1>3 DEF Disconnect, FeedStops, bridgeVars, engineVars
  <2> QED BY <2>1, NothingDelivered DEF OrderInv, PipeType, RunningInv, DrainInv
<1>4. CASE ReceiveFrame(f)
  <2>1. /\ epoch' = epoch /\ UNCHANGED <<running, bridgeVars, ring, engineVars>>
        /\ IF f = "kalshi" THEN KalshiFrame ELSE PolymarketFrame
    BY <1>4 DEF ReceiveFrame
  <2>2. CASE f = "kalshi"
    BY <2>1, <2>2, KalshiDelivers DEF KalshiFrame
  <2>3. CASE f # "kalshi"
    <3>1. "poly" \in Feeds
      BY <2>3, PipelineAssumption
    <3> QED BY <2>1, <2>3, <3>1, PolymarketDelivers DEF PolymarketFrame
  <2> QED BY <2>2, <2>3
<1> QED BY <1>1, <1>2, <1>3, <1>4

----------------------------------------------------------------------------
\* The bridge.

\* As long as nothing was dropped, the engine's next event is the next sent.
LEMMA CutOff ==
    ASSUME OrderInv, bridge \in {"check", "recv", "push"}
    PROVE  /\ Begins(taken, sent)
           /\ ring # <<>> => Begins(Append(taken, Head(ring)), sent)
           /\ ring = <<>> => Begins(taken \o hand \o channel, sent)
<1>1. /\ taken \in Seq(EventType) /\ ring \in Seq(EventType) /\ hand \in Seq(EventType)
      /\ channel \in Seq(EventType) /\ ((taken \o ring) \o hand) \o channel = sent
  BY DEF OrderInv, PipeType, RunningInv
<1> DEFINE rest == hand \o channel
<1>2. taken \o ring \in Seq(EventType) /\ rest \in Seq(EventType) /\ ring \o rest \in Seq(EventType)
  <2>1. taken \o ring \in Seq(EventType)
    BY <1>1, ConcatProperties
  <2>2. rest \in Seq(EventType)
    BY <1>1, ConcatProperties
  <2>3. ring \o rest \in Seq(EventType)
    <3> HIDE DEF rest
    <3> QED BY <1>1, <2>2, ConcatProperties
  <2> QED BY <2>1, <2>2, <2>3
<1>3. (taken \o ring) \o rest = sent /\ taken \o (ring \o rest) = sent
  <2> DEFINE front == taken \o ring
  <2>1. front \o rest = (front \o hand) \o channel
    <3>1. front \in Seq(EventType)
      BY <1>2
    <3> HIDE DEF front
    <3> QED BY <1>1, <3>1, Associative
  <2>2. (taken \o ring) \o rest = taken \o (ring \o rest)
    <3> HIDE DEF rest
    <3> QED BY SMTT(30), <1>1, <1>2, ConcatAssociative
  <2> QED BY <1>1, <2>1, <2>2
<1>4. Begins(taken, sent)
  <2> DEFINE unseen == ring \o rest
  <2>1. unseen \in Seq(EventType) /\ taken \o unseen = sent
    BY <1>2, <1>3
  <2> HIDE DEF unseen
  <2> QED BY <1>1, <2>1, BeginsConcat
<1>5. CASE ring # <<>>
  <2> DEFINE more == Append(taken, Head(ring))
  <2>1. more \in Seq(EventType) /\ Tail(ring) \in Seq(EventType) /\ more \o Tail(ring) = taken \o ring
    BY <1>1, <1>5, HandOver
  <2>2. Begins(more, more \o Tail(ring)) /\ Begins(more, taken \o ring)
    <3> HIDE DEF more
    <3> QED BY <2>1, BeginsConcat
  <2>3. Begins(more, (taken \o ring) \o rest)
    <3> HIDE DEF more, rest
    <3> QED BY <1>2, <2>1, <2>2, BeginsConcat
  <2> QED BY <1>3, <1>4, <1>5, <2>3
<1>6. CASE ring = <<>>
  <2>1. taken \o ring = taken
    BY <1>1, <1>6, ConcatEmptySeq
  <2>2. taken \o hand \o channel = sent
    BY <1>1, <2>1
  <2>3. Begins(sent, sent)
    BY DEF Begins, OrderInv, PipeType
  <2> QED BY <1>4, <1>6, <2>2, <2>3
<1> QED BY <1>5, <1>6

LEMMA CheckKeeps ==
    ASSUME OrderInv, BridgeCheck
    PROVE  OrderInv'
<1>1. /\ bridge = "check" /\ hand = <<>>
      /\ UNCHANGED <<running, number, changes, epoch, ring, engine, taken, sent>>
      /\ channel \in Seq(EventType) /\ <<>> \in Seq(EventType)
  BY DEF OrderInv, PipeType, BridgeCheck, feedVars, engineVars
<1>2. CASE running
  <2>1. bridge' = "recv" /\ UNCHANGED <<hand, channel>>
    BY <1>2 DEF BridgeCheck
  <2> QED BY <1>1, <2>1 DEF OrderInv, PipeType, RunningInv, DrainInv
<1>3. CASE ~running
  <2>1. bridge' = "drain" /\ hand' = channel /\ channel' = <<>>
    BY <1>3 DEF BridgeCheck
  <2>2. PipeType'
    BY <1>1, <2>1 DEF OrderInv, PipeType
  <2>3. taken \o hand = taken
    BY <1>1, ConcatEmptySeq DEF OrderInv, PipeType
  <2>4. DrainInv'
    BY <1>1, <1>3, <2>1, <2>3, CutOff DEF DrainInv
  <2> QED BY <2>1, <2>2, <2>4 DEF OrderInv, RunningInv
<1> QED BY <1>2, <1>3

LEMMA ReceiveKeeps ==
    ASSUME OrderInv, BridgeReceive
    PROVE  OrderInv'
<1>1. /\ bridge = "recv" /\ hand = <<>>
      /\ UNCHANGED <<running, number, changes, epoch, ring, engine, taken, sent>>
  BY DEF OrderInv, PipeType, BridgeReceive, feedVars, engineVars
<1>2. CASE channel = <<>>
  <2>1. bridge' = "check" /\ UNCHANGED <<hand, channel>>
    BY <1>2 DEF BridgeReceive
  <2> QED BY <1>1, <2>1 DEF OrderInv, PipeType, RunningInv, DrainInv
<1>3. CASE channel # <<>>
  <2>1. bridge' = "push" /\ hand' = <<Head(channel)>> /\ channel' = Tail(channel)
    BY <1>3 DEF BridgeReceive
  <2> DEFINE front == taken \o ring
  <2>2. /\ front \in Seq(EventType) /\ channel \in Seq(EventType) /\ <<>> \in Seq(EventType)
        /\ (front \o <<>>) \o channel = sent
    BY <1>1, ConcatProperties DEF OrderInv, PipeType, RunningInv
  <2>3. /\ Head(channel) \in EventType /\ Tail(channel) \in Seq(EventType)
        /\ Append(front, Head(channel)) \o Tail(channel) = front \o channel
    <3> HIDE DEF front
    <3> QED BY <1>3, <2>2, HandOver
  <2>4. front \o <<>> = front /\ front \o <<Head(channel)>> = Append(front, Head(channel))
    <3> HIDE DEF front
    <3> QED BY <2>2, <2>3, ConcatEmptySeq, AppendIsConcat
  <2>5. (front \o <<Head(channel)>>) \o Tail(channel) = sent
    BY <2>2, <2>3, <2>4
  <2>6. PipeType'
    BY <1>1, <2>1, <2>3 DEF OrderInv, PipeType
  <2> QED BY <1>1, <2>1, <2>5, <2>6 DEF OrderInv, RunningInv, DrainInv
<1> QED BY <1>2, <1>3

LEMMA PushKeeps ==
    ASSUME OrderInv, BridgePush
    PROVE  OrderInv'
<1>1. /\ bridge = "push" /\ Len(hand) = 1
      /\ UNCHANGED <<running, number, changes, epoch, channel, engine, taken, sent>>
      /\ taken \in Seq(EventType) /\ ring \in Seq(EventType) /\ hand \in Seq(EventType)
      /\ channel \in Seq(EventType) /\ ((taken \o ring) \o hand) \o channel = sent
  BY DEF OrderInv, PipeType, RunningInv, BridgePush, feedVars, engineVars
<1>2. CASE ring' = Append(ring, Head(hand)) /\ hand' = <<>> /\ bridge' = "check"
  <2>1. hand # <<>> /\ Tail(hand) = <<>>
    BY <1>1, SingleIsHead
  <2>2. /\ ring' \in Seq(EventType) /\ <<>> \in Seq(EventType)
        /\ ring' \o <<>> = ring \o hand
    BY <1>1, <1>2, <2>1, HandOver
  <2>3. (taken \o ring') \o <<>> = (taken \o ring) \o hand
    <3>1. (taken \o ring') \o <<>> = taken \o (ring' \o <<>>)
      BY <1>1, <2>2, Associative
    <3>2. (taken \o ring) \o hand = taken \o (ring \o hand)
      BY <1>1, Associative
    <3> QED BY <2>2, <3>1, <3>2
  <2>4. PipeType'
    BY <1>1, <1>2, <2>2 DEF OrderInv, PipeType
  <2> QED BY <1>1, <1>2, <2>3, <2>4 DEF OrderInv, RunningInv, DrainInv
<1>3. CASE RingFull /\ bridge' = (IF running THEN "push" ELSE "done") /\ UNCHANGED <<ring, hand>>
  <2>1. ring # <<>>
    <3>1. RingCap # 0 /\ Len(<<>>) = 0
      BY PipelineAssumption, EmptySeq
    <3> QED BY <1>3, <3>1 DEF RingFull
  <2>2. PipeType' /\ (bridge' = "push" => RunningInv')
    BY <1>1, <1>3 DEF OrderInv, PipeType, RunningInv
  <2>3. bridge' # "push" => bridge' = "done" /\ ~running
    BY <1>3
  <2>4. DrainInv'
    BY <1>1, <1>3, <2>1, <2>3, CutOff DEF DrainInv
  <2> QED BY <2>2, <2>3, <2>4 DEF OrderInv, RunningInv
<1> QED BY <1>2, <1>3 DEF BridgePush

LEMMA FlushKeeps ==
    ASSUME OrderInv, BridgeFlush
    PROVE  OrderInv'
<1>1. /\ bridge = "drain" /\ hand # <<>> /\ hand' = Tail(hand)
      /\ ring' = IF RingFull THEN ring ELSE Append(ring, Head(hand))
      /\ UNCHANGED <<running, number, changes, epoch, channel, bridge, engine, taken, sent>>
      /\ taken \in Seq(EventType) /\ ring \in Seq(EventType) /\ hand \in Seq(EventType)
      /\ sent \in Seq(EventType)
  BY DEF OrderInv, PipeType, BridgeFlush, feedVars, engineVars
<1>2. /\ Head(hand) \in EventType /\ Tail(hand) \in Seq(EventType)
      /\ Append(ring, Head(hand)) \in Seq(EventType)
      /\ Append(taken, Head(hand)) \in Seq(EventType)
      /\ Append(taken, Head(hand)) \o Tail(hand) = taken \o hand
  BY <1>1, HandOver
<1>3. PipeType'
  BY <1>1, <1>2 DEF OrderInv, PipeType
<1>4. ring # <<>> => ring' # <<>> /\ Head(ring') = Head(ring)
  BY <1>1, <1>2, HeadTailAppend, AppendProperties
<1>5. ring = <<>> => ring' # <<>> /\ Head(ring') = Head(hand)
  <2>1. RingCap # 0 /\ Len(<<>>) = 0
    BY PipelineAssumption, EmptySeq
  <2> QED BY <1>1, <1>2, <2>1, HeadTailAppend, AppendProperties DEF RingFull
<1>6. Begins(taken \o hand, sent) => Begins(Append(taken, Head(hand)), sent)
  BY <1>1, <1>2, BeginsConcat
<1>7. DrainInv'
  BY <1>1, <1>4, <1>5, <1>6 DEF OrderInv, DrainInv
<1> QED BY <1>1, <1>3, <1>7 DEF OrderInv, RunningInv

LEMMA BridgeKeeps ==
    ASSUME OrderInv, BridgeStep
    PROVE  OrderInv'
<1>1. CASE BridgeEnds
  BY <1>1 DEF BridgeEnds, OrderInv, PipeType, RunningInv, DrainInv, feedVars, engineVars
<1> QED BY <1>1, CheckKeeps, ReceiveKeeps, PushKeeps, FlushKeeps DEF BridgeStep

----------------------------------------------------------------------------
\* The engine and the runner.

LEMMA EngineKeeps ==
    ASSUME OrderInv, NEW now, NEW found, EngineStep(now, found)
    PROVE  OrderInv'
<1>1. /\ engine = "step" /\ engine' = "check" /\ ring # <<>>
      /\ ring' = Tail(ring) /\ taken' = Append(taken, Head(ring))
      /\ UNCHANGED <<running, number, changes, epoch, channel, bridge, hand, sent>>
      /\ taken \in Seq(EventType) /\ ring \in Seq(EventType)
  BY DEF OrderInv, PipeType, EngineStep, feedVars, bridgeVars
<1>2. /\ ring' \in Seq(EventType) /\ taken' \in Seq(EventType)
      /\ taken' \o ring' = taken \o ring
  BY <1>1, HandOver
<1>3. PipeType'
  BY <1>1, <1>2 DEF OrderInv, PipeType
<1>4. RunningInv'
  BY <1>1, <1>2 DEF OrderInv, RunningInv
<1>5. DrainInv'
  BY <1>1 DEF OrderInv, DrainInv
<1> QED BY <1>3, <1>4, <1>5 DEF OrderInv

LEMMA InitOrder == Init => OrderInv
<1> SUFFICES ASSUME Init PROVE OrderInv
  OBVIOUS
<1>1. PipeType
  BY DEF Init, PipeType
<1>2. <<>> \in Seq(EventType)
  OBVIOUS
<1>3. <<>> \o <<>> = <<>>
  BY <1>2, ConcatEmptySeq
<1> QED BY <1>1, <1>3 DEF Init, OrderInv, RunningInv, DrainInv

LEMMA StepOrder == OrderInv /\ [Next]_vars => OrderInv'
<1> SUFFICES ASSUME OrderInv, [Next]_vars PROVE OrderInv'
  OBVIOUS
<1>1. CASE FeedStep
  BY <1>1, FeedKeeps
<1>2. CASE BridgeStep
  BY <1>2, BridgeKeeps
<1>3. CASE \E now \in Clock, found \in BOOLEAN : EngineStep(now, found)
  BY <1>3, EngineKeeps
<1>4. CASE EngineCheck
  BY <1>4 DEF EngineCheck, OrderInv, PipeType, RunningInv, DrainInv, feedVars, bridgeVars
<1>5. CASE RunnerPops \/ Stop \/ UNCHANGED vars
  <2>1. /\ UNCHANGED <<number, changes, epoch, channel, bridge, hand, ring, engine, taken, sent>>
        /\ ~running => ~running'
    BY <1>5 DEF RunnerPops, Stop, vars, feedVars, bridgeVars, engineVars
  <2> QED BY <2>1 DEF OrderInv, PipeType, RunningInv, DrainInv
<1> QED BY <1>1, <1>2, <1>3, <1>4, <1>5 DEF Next, EngineThread

\* Until the bridge drains, channel, bridge and ring hold exactly what the engine
\* has yet to see; whatever a shutdown drops, what it has seen is a prefix.
THEOREM Order == Spec => []InOrderOnce
<1>1. OrderInv => InOrderOnce
  <2> SUFFICES ASSUME OrderInv PROVE InOrderOnce
    OBVIOUS
  <2>1. taken \in Seq(EventType) /\ sent \in Seq(EventType)
    BY DEF OrderInv, PipeType
  <2>2. CASE bridge \in {"check", "recv", "push"}
    <3>1. /\ ring \in Seq(EventType) /\ hand \in Seq(EventType) /\ channel \in Seq(EventType)
          /\ ((taken \o ring) \o hand) \o channel = sent
      BY <2>2 DEF OrderInv, PipeType, RunningInv
    <3>2. Begins(taken, sent)
      BY <2>2, CutOff
    <3>3. IsPrefix(taken, sent)
      BY <2>1, <3>2, BeginsIsPrefix
    <3> QED BY <2>2, <3>1, <3>3 DEF InOrderOnce
  <2>3. CASE bridge \in {"drain", "done"}
    BY <2>1, <2>3, BeginsIsPrefix DEF OrderInv, DrainInv, InOrderOnce
  <2> QED BY <2>2, <2>3 DEF OrderInv, PipeType
<1> QED BY <1>1, InitOrder, StepOrder, PTL DEF Spec

----------------------------------------------------------------------------
\* The spacing of signals.

SignalType == [market : Markets, at : Nat]

\* last_emit_ns is never behind a signal of its market, dropped or not.
SpacingInv ==
    /\ lastEmit \in [Markets -> Nat] /\ signals \in Seq(SignalType)
    /\ \A i \in 1 .. Len(signals) : signals[i].at <= lastEmit[signals[i].market]
    /\ SignalsSpaced

LEMMA EmitKeeps ==
    ASSUME OrderInv, SpacingInv, Cooldown > 0, NEW now \in Clock, NEW found \in BOOLEAN,
           EngineStep(now, found)
    PROVE  SpacingInv'
<1> DEFINE m == Head(ring).market
           new == [market |-> m, at |-> now]
<1>1. m \in Markets /\ now \in Nat /\ Cooldown \in Nat
  <2>1. Head(ring) \in EventType
    BY HandOver DEF OrderInv, PipeType, EngineStep
  <2> QED BY <2>1, PipelineAssumption DEF EventType
<1>2. CASE UNCHANGED <<lastEmit, signals>>
  BY <1>2 DEF SpacingInv, SignalsSpaced
<1>3. CASE /\ EmitAdmitted(m, now)
           /\ lastEmit' = IF now # 0 THEN [lastEmit EXCEPT ![m] = now] ELSE lastEmit
           /\ signals' \in {signals, Append(signals, new)}
  <2>1. lastEmit[m] = 0 \/ now >= lastEmit[m] + Cooldown
    <3>1. lastEmit[m] \in Nat
      BY <1>1 DEF SpacingInv
    <3> QED BY <1>1, <1>3, <3>1 DEF EmitAdmitted
  <2>2. /\ lastEmit' \in [Markets -> Nat] /\ lastEmit'[m] >= now
        /\ \A k \in Markets : lastEmit'[k] >= lastEmit[k] /\ lastEmit[k] \in Nat
    BY <1>1, <1>3, <2>1 DEF SpacingInv
  <2>3. \A i \in 1 .. Len(signals) :
            /\ signals[i] \in SignalType /\ signals[i].market \in Markets /\ signals[i].at \in Nat
            /\ signals[i].at <= lastEmit[signals[i].market]
    <3>1. TAKE i \in 1 .. Len(signals)
    <3>2. signals[i] \in SignalType /\ signals[i].at <= lastEmit[signals[i].market]
      BY ElementOfSeq DEF SpacingInv
    <3> QED BY <3>2 DEF SignalType
  <2>4. CASE signals' = signals
    <3>1. \A i \in 1 .. Len(signals) : signals[i].at <= lastEmit'[signals[i].market]
      BY <2>2, <2>3
    <3> QED BY <2>2, <2>4, <3>1 DEF SpacingInv, SignalsSpaced
  <2>5. CASE signals' = Append(signals, new)
    <3>1. new \in SignalType /\ new.market = m /\ new.at = now
      BY <1>1 DEF SignalType
    <3>2. /\ signals' \in Seq(SignalType) /\ Len(signals) \in Nat /\ Len(signals') = Len(signals) + 1
          /\ \A i \in 1 .. Len(signals) : signals'[i] = signals[i]
          /\ signals'[Len(signals) + 1] = new
          /\ DOMAIN signals = 1 .. Len(signals) /\ DOMAIN signals' = 1 .. Len(signals')
      <4> HIDE DEF new
      <4> QED BY <2>5, <3>1, AppendProperties, LenProperties DEF SpacingInv
    <3>3. \A i \in 1 .. Len(signals') :
              \/ i \in 1 .. Len(signals) /\ signals'[i] = signals[i]
              \/ i = Len(signals) + 1 /\ signals'[i] = new
      BY <3>2
    <3>4. \A i \in 1 .. Len(signals') : signals'[i].at <= lastEmit'[signals'[i].market]
      <4>1. TAKE i \in 1 .. Len(signals')
      <4>2. CASE i \in 1 .. Len(signals) /\ signals'[i] = signals[i]
        BY <2>2, <2>3, <4>2
      <4>3. CASE signals'[i] = new
        BY <2>2, <3>1, <4>3
      <4> QED BY <3>3, <4>2, <4>3
    <3>5. SignalsSpaced'
      <4> SUFFICES ASSUME NEW i \in 1 .. Len(signals'), NEW j \in 1 .. Len(signals'),
                          i < j, signals'[i].market = signals'[j].market, signals'[i].at # 0
                   PROVE  signals'[j].at >= signals'[i].at + Cooldown
        BY <3>2 DEF SignalsSpaced
      <4>1. i \in 1 .. Len(signals) /\ signals'[i] = signals[i]
        BY <3>2, <3>3
      <4>2. CASE j \in 1 .. Len(signals) /\ signals'[j] = signals[j]
        BY <3>2, <4>1, <4>2 DEF SpacingInv, SignalsSpaced
      <4>3. CASE j = Len(signals) + 1 /\ signals'[j] = new
        <5>1. signals[i].market = m /\ signals[i].at \in Nat /\ signals[i].at <= lastEmit[m]
          BY <2>3, <3>1, <4>1, <4>3
        <5>2. lastEmit[m] \in Nat /\ lastEmit[m] # 0
          BY <1>1, <2>2, <4>1, <5>1
        <5> QED BY <1>1, <2>1, <3>1, <4>1, <4>3, <5>1, <5>2
      <4> QED BY <3>3, <4>2, <4>3
    <3> QED BY <2>2, <3>2, <3>4, <3>5 DEF SpacingInv
  <2> QED BY <1>3, <2>4, <2>5
<1> QED BY <1>2, <1>3 DEF EngineStep

\* With a cooldown, two signals of a market are at least a cooldown apart,
\* whichever the full signal ring dropped in between and however the clock jumps
\* (emit_admitted); without one nothing is promised.
THEOREM Spacing == ASSUME Cooldown > 0 PROVE Spec => []SignalsSpaced
<1>1. Init => SpacingInv
  BY DEF Init, SpacingInv, SignalsSpaced
<1>2. OrderInv /\ SpacingInv /\ [Next]_vars => SpacingInv'
  <2> SUFFICES ASSUME OrderInv, SpacingInv, [Next]_vars PROVE SpacingInv'
    OBVIOUS
  <2>1. CASE \E now \in Clock, found \in BOOLEAN : EngineStep(now, found)
    BY <2>1, EmitKeeps
  <2>2. CASE UNCHANGED <<lastEmit, signals>>
    BY <2>2 DEF SpacingInv, SignalsSpaced
  <2> QED BY <2>1, <2>2
      DEF Next, FeedStep, BridgeStep, EngineThread, RunnerPops, Stop, vars, engineVars, EngineCheck,
          Connect, Disconnect, FeedStops, ReceiveFrame, BridgeCheck, BridgeReceive, BridgePush,
          BridgeFlush, BridgeEnds
<1>3. SpacingInv => SignalsSpaced
  BY DEF SpacingInv
<1> QED BY <1>1, <1>2, <1>3, InitOrder, StepOrder, PTL DEF Spec

----------------------------------------------------------------------------
\* Halts.

BookType == [stale : BOOLEAN, quoted : BOOLEAN, seq : Nat, chain : BOOLEAN, epoch : Nat, index : Nat]

\* Since its last snapshot, no processed event halted b.
Snapshotted(events, b) ==
    \E i \in 1 .. Len(events) :
        /\ events[i].kind = "snapshot" /\ About(events[i], b)
        /\ \A j \in i + 1 .. Len(events) : events[j].kind = "halt" => ~About(events[j], b)

\* An empty book that is not stale is one delta away from service.
HaltInv ==
    /\ books \in [BookIds -> BookType]
    /\ \A b \in BookIds : ~books[b].stale => Snapshotted(taken, b)

LEMMA BookSteps ==
    ASSUME NEW b \in BookType, NEW e \in EventType
    PROVE  /\ MarkStale(b) \in BookType /\ MarkStale(b).stale
           /\ ApplySnapshot(b, e) \in BookType
           /\ ApplyDelta(b, e) \in BookType /\ (b.stale => ApplyDelta(b, e).stale)
<1>1. MarkStale(b) \in BookType /\ MarkStale(b).stale
  BY DEF BookType, MarkStale
<1>2. ApplySnapshot(b, e) \in BookType
  BY DEF BookType, ApplySnapshot, EventType
<1> DEFINE chained == b.chain /\ (e.epoch # b.epoch \/ e.index = b.index + 1)
           delta == [ApplySnapshot(b, e) EXCEPT !.chain = chained]
<1>3. chained \in BOOLEAN
  OBVIOUS
<1>4. delta \in BookType
  <2> HIDE DEF chained
  <2> QED BY <1>2, <1>3 DEF BookType
<1>5. ApplyDelta(b, e) = IF AcceptSeq(b, e.seq) THEN delta ELSE MarkStale(b)
  BY DEF ApplyDelta
<1>6. b.stale => ApplyDelta(b, e) = MarkStale(b)
  BY <1>5 DEF AcceptSeq
<1> QED BY <1>1, <1>2, <1>4, <1>5, <1>6

LEMMA AppendSnapshotted ==
    ASSUME NEW s \in Seq(EventType), NEW e \in EventType, NEW b
    PROVE  /\ (e.kind = "snapshot" /\ About(e, b)) => Snapshotted(Append(s, e), b)
           /\ (Snapshotted(s, b) /\ (e.kind = "halt" => ~About(e, b))) => Snapshotted(Append(s, e), b)
<1> DEFINE t == Append(s, e)
<1>1. /\ Len(s) \in Nat /\ Len(t) = Len(s) + 1 /\ t[Len(s) + 1] = e
      /\ \A i \in 1 .. Len(s) : t[i] = s[i]
  BY AppendProperties, LenProperties
<1> HIDE DEF t
<1>2. (e.kind = "snapshot" /\ About(e, b)) => Snapshotted(t, b)
  <2> SUFFICES ASSUME e.kind = "snapshot", About(e, b) PROVE Snapshotted(t, b)
    OBVIOUS
  <2>1. Len(s) + 1 \in 1 .. Len(t) /\ Len(s) + 1 + 1 .. Len(t) = {}
    BY <1>1
  <2> QED BY <1>1, <2>1 DEF Snapshotted
<1>3. (Snapshotted(s, b) /\ (e.kind = "halt" => ~About(e, b))) => Snapshotted(t, b)
  <2> SUFFICES ASSUME Snapshotted(s, b), e.kind = "halt" => ~About(e, b) PROVE Snapshotted(t, b)
    OBVIOUS
  <2>1. PICK i \in 1 .. Len(s) :
            /\ s[i].kind = "snapshot" /\ About(s[i], b)
            /\ \A j \in i + 1 .. Len(s) : s[j].kind = "halt" => ~About(s[j], b)
    BY DEF Snapshotted
  <2>2. i \in 1 .. Len(t) /\ t[i] = s[i]
    BY <1>1
  <2>3. \A j \in i + 1 .. Len(t) : t[j].kind = "halt" => ~About(t[j], b)
    <3>1. TAKE j \in i + 1 .. Len(t)
    <3>2. CASE j = Len(s) + 1
      BY <1>1, <3>2
    <3>3. CASE j # Len(s) + 1
      <4>1. j \in i + 1 .. Len(s) /\ t[j] = s[j]
        BY <1>1, <3>3
      <4> QED BY <2>1, <4>1
    <3> QED BY <3>2, <3>3
  <2> QED BY <2>1, <2>2, <2>3 DEF Snapshotted
<1> QED BY <1>2, <1>3 DEF t

LEMMA HaltKeeps ==
    ASSUME OrderInv, HaltInv, NEW now, NEW found, EngineStep(now, found)
    PROVE  HaltInv'
<1> DEFINE e == Head(ring)
<1>1. /\ e \in EventType /\ taken \in Seq(EventType)
      /\ taken' = Append(taken, e) /\ books' = Applied(e)
  BY HandOver DEF OrderInv, PipeType, EngineStep
<1> HIDE DEF e
<1>2. \A b \in BookIds : books'[b] \in BookType /\ (~books'[b].stale => Snapshotted(taken', b))
  <2>1. TAKE b \in BookIds
  <2>2. books[b] \in BookType /\ (~books[b].stale => Snapshotted(taken, b))
    BY DEF HaltInv
  <2>3. CASE ~About(e, b)
    <3>1. books'[b] = books[b]
      BY <1>1, <2>3 DEF Applied
    <3> QED BY <1>1, <2>2, <2>3, <3>1, AppendSnapshotted
  <2>4. CASE About(e, b) /\ e.kind = "snapshot"
    <3>1. books'[b] = ApplySnapshot(books[b], e)
      BY <1>1, <2>4 DEF Applied
    <3> QED BY <1>1, <2>2, <2>4, <3>1, BookSteps, AppendSnapshotted
  <2>5. CASE About(e, b) /\ e.kind = "delta"
    <3>1. books'[b] = ApplyDelta(books[b], e)
      BY <1>1, <2>5 DEF Applied
    <3>2. books'[b] \in BookType /\ (books[b].stale => books'[b].stale)
      BY <1>1, <2>2, <3>1, BookSteps
    <3> QED BY <1>1, <2>2, <2>5, <3>2, AppendSnapshotted
  <2>6. CASE About(e, b) /\ e.kind = "halt"
    <3>1. books'[b] = MarkStale(books[b])
      BY <1>1, <2>6 DEF Applied
    <3> QED BY <1>1, <2>2, <3>1, BookSteps
  <2>7. CASE About(e, b) /\ e.kind = "trade"
    <3>1. books'[b] = books[b]
      BY <1>1, <2>7 DEF Applied
    <3> QED BY <1>1, <2>2, <2>7, <3>1, AppendSnapshotted
  <2> QED BY <1>1, <2>3, <2>4, <2>5, <2>6, <2>7 DEF EventType
<1>3. books' \in [BookIds -> BookType]
  BY <1>1, <1>2 DEF Applied
<1> QED BY <1>2, <1>3 DEF HaltInv

LEMMA InitHalts == Init => HaltInv
BY DEF Init, HaltInv, NewBook, BookType

LEMMA StepHalts == OrderInv /\ HaltInv /\ [Next]_vars => HaltInv'
<1> SUFFICES ASSUME OrderInv, HaltInv, [Next]_vars PROVE HaltInv'
  OBVIOUS
<1>1. CASE \E now \in Clock, found \in BOOLEAN : EngineStep(now, found)
  BY <1>1, HaltKeeps
<1>2. CASE UNCHANGED <<books, taken>>
  BY <1>2 DEF HaltInv
<1> QED BY <1>1, <1>2
    DEF Next, FeedStep, BridgeStep, EngineThread, RunnerPops, Stop, vars, engineVars, EngineCheck,
        Connect, Disconnect, FeedStops, ReceiveFrame, BridgeCheck, BridgeReceive, BridgePush,
        BridgeFlush, BridgeEnds

\* Whatever follows a halt of a book, only a snapshot of that book brings it back
\* into service (MarkStale, accept_seq).
THEOREM Halted == Spec => []HaltedUntilSnapshot
<1>1. OrderInv /\ HaltInv => HaltedUntilSnapshot
  <2> SUFFICES ASSUME OrderInv, HaltInv PROVE HaltedUntilSnapshot
    OBVIOUS
  <2>1. DOMAIN taken = 1 .. Len(taken)
    BY LenProperties DEF OrderInv, PipeType
  <2> QED BY <2>1 DEF HaltInv, HaltedUntilSnapshot, Snapshotted, InService
<1> QED BY <1>1, InitOrder, StepOrder, InitHalts, StepHalts, PTL DEF Spec

----------------------------------------------------------------------------
\* Chains.

Booked(e, b) == e.kind \in {"snapshot", "delta"} /\ b = <<e.feed, e.market, e.outcome>>

\* A Kalshi event carries a number its connection has used, and the last number
\* goes with the changes its book has now; a Polymarket one carries none.
Numbered(e, latest, used, now) ==
    e.kind \in {"snapshot", "delta"} =>
        /\ e.outcome \in Outcomes
        /\ e.feed # "kalshi" => e.seq = 0
        /\ e.feed = "kalshi" =>
              \/ e.epoch < latest
              \/ e.epoch = latest /\ e.seq < used
              \/ /\ e.epoch = latest /\ e.seq = used
                 /\ e.index = now[<<"kalshi", e.market, e.outcome>>]

\* A delta that continues the numbers of its book continues its changes.
Continues(d, e) ==
    (/\ d.kind = "delta" /\ e.kind \in {"snapshot", "delta"}
     /\ d.feed = e.feed /\ d.market = e.market /\ d.outcome = e.outcome
     /\ d.epoch = e.epoch /\ d.seq = e.seq + 1)
        => d.index = e.index + 1

Sent == {sent[i] : i \in 1 .. Len(sent)}

ChainInv ==
    /\ \A e \in Sent : Numbered(e, epoch["kalshi"], number, changes)
    /\ \A d, e \in Sent : Continues(d, e)

\* A book that is not stale was left as it is by an event the engine processed.
BookInv ==
    \A b \in BookIds :
        /\ books[b].chain
        /\ ~books[b].stale =>
             \E i \in 1 .. Len(taken) :
                /\ Booked(taken[i], b)
                /\ taken[i].seq = books[b].seq /\ taken[i].epoch = books[b].epoch
                /\ taken[i].index = books[b].index

LEMMA SentElements ==
    ASSUME NEW s \in Seq(EventType), NEW t \in Seq(EventType)
    PROVE  {(s \o t)[i] : i \in 1 .. Len(s \o t)}
             \subseteq {s[i] : i \in 1 .. Len(s)} \cup {t[i] : i \in 1 .. Len(t)}
<1>1. /\ Len(s) \in Nat /\ Len(t) \in Nat /\ Len(s \o t) = Len(s) + Len(t)
      /\ \A i \in 1 .. Len(s) + Len(t) : (s \o t)[i] = IF i <= Len(s) THEN s[i] ELSE t[i - Len(s)]
  BY ConcatProperties, LenProperties
<1>2. \A i \in 1 .. Len(s) + Len(t) : i <= Len(s) => i \in 1 .. Len(s)
  BY <1>1
<1>3. \A i \in 1 .. Len(s) + Len(t) : ~(i <= Len(s)) => i - Len(s) \in 1 .. Len(t)
  BY <1>1
<1> QED BY <1>1, <1>2, <1>3

\* Delivered events join what was sent; the rest is about each of them.
LEMMA DeliverChains ==
    ASSUME OrderInv, ChainInv, NEW events \in Seq(EventType), Deliver(events),
           \A d \in Sent : Numbered(d, epoch'["kalshi"], number', changes'),
           \A i \in 1 .. Len(events) : Numbered(events[i], epoch'["kalshi"], number', changes'),
           \A i \in 1 .. Len(events) : \A d \in Sent :
               Continues(events[i], d) /\ Continues(d, events[i]),
           \A i, j \in 1 .. Len(events) : Continues(events[i], events[j])
    PROVE  ChainInv'
<1> DEFINE new == {events[i] : i \in 1 .. Len(events)}
<1>1. Sent' \subseteq Sent \cup new
  <2>1. sent' = sent \/ sent' = sent \o events
    BY DEF Deliver
  <2>2. CASE sent' = sent
    BY <2>2 DEF Sent
  <2>3. CASE sent' = sent \o events
    BY <2>3, SentElements DEF Sent, OrderInv, PipeType
  <2> QED BY <2>1, <2>2, <2>3
<1>2. \A e \in Sent \cup new : Numbered(e, epoch'["kalshi"], number', changes')
  OBVIOUS
<1>3. \A d, e \in Sent \cup new : Continues(d, e)
  BY DEF ChainInv
<1>4. (\A e \in Sent : Numbered(e, epoch["kalshi"], number, changes))'
  <2> HIDE DEF new
  <2>1. \A e \in Sent' : Numbered(e, epoch'["kalshi"], number', changes')
    BY <1>1, <1>2
  <2> QED BY <2>1
<1>5. (\A d, e \in Sent : Continues(d, e))'
  <2> HIDE DEF new
  <2>1. \A d, e \in Sent' : Continues(d, e)
    BY <1>1, <1>3
  <2> QED BY <2>1
<1> QED BY <1>4, <1>5 DEF ChainInv

\* Once a number is used, what was sent before carries an earlier one.
LEMMA NextNumber ==
    ASSUME OrderInv, ChainInv, epoch' = epoch, number' = number + 1, NEW e \in Sent
    PROVE  Numbered(e, epoch'["kalshi"], number', changes')
<1>1. number \in Nat /\ e \in EventType /\ Numbered(e, epoch["kalshi"], number, changes)
  BY ElementOfSeq DEF OrderInv, PipeType, ChainInv, Sent
<1>2. e.seq \in Nat /\ e.epoch \in Nat
  BY <1>1 DEF EventType
<1> QED BY <1>1, <1>2 DEF Numbered

LEMMA EarlierNumber ==
    ASSUME OrderInv, ChainInv, NEW d \in Sent, d.feed = "kalshi", d.kind \in {"snapshot", "delta"},
           d.epoch = epoch["kalshi"]
    PROVE  /\ d.seq \in Nat /\ d.seq <= number
           /\ d.seq = number => d.index = changes[<<"kalshi", d.market, d.outcome>>]
<1>1. d \in EventType /\ Numbered(d, epoch["kalshi"], number, changes) /\ epoch \in [Feeds -> Nat] /\ number \in Nat
  BY ElementOfSeq DEF OrderInv, PipeType, ChainInv, Sent
<1>2. d.seq \in Nat /\ d.epoch \in Nat
  BY <1>1 DEF EventType
<1> QED BY <1>1, <1>2 DEF Numbered

LEMMA KalshiChains ==
    ASSUME OrderInv, ChainInv, "kalshi" \in Feeds, NEW x \in KalshiFrames,
           KalshiSnapshot(x) \/ KalshiDelta(x) \/ KalshiTrade(x) \/ KalshiSkip(x) \/ KalshiHalt(x),
           epoch' = epoch
    PROVE  ChainInv'
<1> USE PipelineAssumption, FrameAssumption
<1>0. /\ PipeType /\ number \in Nat /\ number + 1 \in Nat /\ x \in FrameType
      /\ epoch \in [Feeds -> Nat] /\ epoch["kalshi"] \in Nat /\ changes \in [BookIds -> Nat]
  BY DEF OrderInv, PipeType
<1>m. x.kind # "halt" => x.market \in Markets
  BY <1>0 DEF FrameType
<1>b. \A o \in Outcomes : x.kind # "halt" => <<"kalshi", x.market, o>> \in BookIds
  BY <1>m DEF BookIds
<1>q. /\ <<>> \in Seq(EventType) /\ Len(<<>>) = 0
      /\ \A e \in EventType : <<e>> \in Seq(EventType) /\ Len(<<e>>) = 1 /\ <<e>>[1] = e
  BY EmptySeq
<1>1. CASE KalshiSnapshot(x)
  <2> DEFINE snapshot(o) == Event("snapshot", "kalshi", x.market, o, number', x.some,
                                  changes'[<<"kalshi", x.market, o>>])
             listed(o) == IF o \in x.sides THEN <<snapshot(o)>> ELSE <<>>
             events == IF x.parses THEN listed(1) \o listed(2) ELSE <<>>
  <2>1. x.kind = "snapshot" /\ number' = number + 1 /\ Deliver(events)
    BY <1>1 DEF KalshiSnapshot
  <2>2. changes' \in [BookIds -> Nat]
    BY <1>1, <1>0 DEF KalshiSnapshot
  <2>3. \A o \in Outcomes : snapshot(o) \in EventType /\ Numbered(snapshot(o), epoch'["kalshi"], number', changes')
    <3>1. TAKE o \in Outcomes
    <3>2. changes'[<<"kalshi", x.market, o>>] \in Nat
      BY <1>b, <2>1, <2>2
    <3>3. snapshot(o) \in EventType
      BY <1>0, <1>m, <2>1, <3>2, EventTypes DEF FrameType
    <3>4. Numbered(snapshot(o), epoch'["kalshi"], number', changes')
      BY DEF Numbered, Event
    <3> QED BY <3>3, <3>4
  <2>4. \A o \in Outcomes : \/ listed(o) = <<>>
                            \/ listed(o) = <<snapshot(o)>>
    OBVIOUS
  <2>5. listed(1) \in Seq(EventType) /\ listed(2) \in Seq(EventType)
    BY <1>q, <2>3 DEF Outcomes
  <2>6. events \in Seq(EventType)
    BY <1>q, <2>5, ConcatProperties
  <2>7. \A i \in 1 .. Len(events) : \E o \in Outcomes : events[i] = snapshot(o)
    <3>1. \A o \in Outcomes : \A i \in 1 .. Len(listed(o)) : listed(o)[i] = snapshot(o)
      <4>1. TAKE o \in Outcomes
      <4>2. snapshot(o) \in EventType
        BY <2>3
      <4> HIDE DEF snapshot
      <4> QED BY <1>q, <4>2
    <3>2. 1 \in Outcomes /\ 2 \in Outcomes
      BY DEF Outcomes
    <3> DEFINE first == listed(1)
               second == listed(2)
    <3>3. {(first \o second)[i] : i \in 1 .. Len(first \o second)}
            \subseteq {first[i] : i \in 1 .. Len(first)} \cup {second[i] : i \in 1 .. Len(second)}
      <4>1. first \in Seq(EventType) /\ second \in Seq(EventType)
        BY <2>5
      <4> HIDE DEF first, second
      <4> QED BY <4>1, SentElements
    <3>4. \A i \in 1 .. Len(first \o second) : \E o \in Outcomes : (first \o second)[i] = snapshot(o)
      <4>1. /\ \A i \in 1 .. Len(first) : first[i] = snapshot(1)
            /\ \A i \in 1 .. Len(second) : second[i] = snapshot(2)
        BY <3>1, <3>2
      <4> HIDE DEF first, second, snapshot
      <4> QED BY <3>2, <3>3, <4>1
    <3>5. events = IF x.parses THEN first \o second ELSE <<>>
      OBVIOUS
    <3> HIDE DEF events, first, second, snapshot
    <3> QED BY <1>q, <3>4, <3>5
  <2>8. \A d \in Sent : Numbered(d, epoch'["kalshi"], number', changes')
    BY <2>1, NextNumber
  <2>9. \A i \in 1 .. Len(events) : Numbered(events[i], epoch'["kalshi"], number', changes')
    <3> HIDE DEF events, snapshot
    <3> QED BY <2>3, <2>7
  <2>10. \A o \in Outcomes : \A d \in Sent :
             Continues(snapshot(o), d) /\ Continues(d, snapshot(o))
    <3>1. TAKE o \in Outcomes
    <3>2. TAKE d \in Sent
    <3>3. Continues(snapshot(o), d)
      BY DEF Continues, Event
    <3>4. Continues(d, snapshot(o))
      BY <1>0, <2>1, EarlierNumber DEF Continues, Event
    <3> QED BY <3>3, <3>4
  <2>11. \A o, p \in Outcomes : Continues(snapshot(o), snapshot(p))
    BY DEF Continues, Event
  <2>12. /\ \A i \in 1 .. Len(events) : \A d \in Sent :
               Continues(events[i], d) /\ Continues(d, events[i])
         /\ \A i, j \in 1 .. Len(events) : Continues(events[i], events[j])
    <3> HIDE DEF events, snapshot
    <3> QED BY <2>7, <2>10, <2>11
  <2> HIDE DEF events
  <2> QED BY <2>1, <2>6, <2>8, <2>9, <2>12, DeliverChains
<1>2. CASE KalshiDelta(x)
  <2>1. x.kind = "delta" /\ number' = number + 1
    BY <1>2 DEF KalshiDelta
  <2>2. PICK o \in x.sides :
          LET b == <<"kalshi", x.market, o>>
              delta == Event("delta", "kalshi", x.market, o, number', x.some, changes'[b])
          IN  /\ changes' = [changes EXCEPT ![b] = @ + 1]
              /\ Deliver(IF ~InSequence(number') THEN <<Halt("kalshi", x.market, All)>>
                         ELSE IF x.parses THEN <<delta>> ELSE <<>>)
    BY <1>2 DEF KalshiDelta
  <2> DEFINE delta == Event("delta", "kalshi", x.market, o, number', x.some,
                            changes'[<<"kalshi", x.market, o>>])
             halt == Halt("kalshi", x.market, All)
             events == IF ~InSequence(number') THEN <<halt>>
                       ELSE IF x.parses THEN <<delta>> ELSE <<>>
  <2>3. Deliver(events) /\ o \in Outcomes
    BY <1>0, <2>2 DEF FrameType
  <2>4. /\ changes' \in [BookIds -> Nat] /\ changes[<<"kalshi", x.market, o>>] \in Nat
        /\ changes'[<<"kalshi", x.market, o>>] = changes[<<"kalshi", x.market, o>>] + 1
    BY <1>b, <1>0, <2>1, <2>2, <2>3
  <2>5. delta \in EventType
    BY <1>0, <1>m, <2>1, <2>3, <2>4, EventTypes DEF FrameType
  <2>6. halt \in EventType
    BY <1>0, <1>m, <2>1, EventTypes DEF Halt
  <2>7. events \in Seq(EventType) /\ \A i \in 1 .. Len(events) : events[i] \in {delta, halt}
    <3> HIDE DEF delta, halt
    <3> QED BY <1>q, <2>5, <2>6
  <2>8. \A d \in Sent : Numbered(d, epoch'["kalshi"], number', changes')
    BY <2>1, NextNumber
  <2>9. Numbered(delta, epoch'["kalshi"], number', changes') /\ Numbered(halt, epoch'["kalshi"], number', changes')
    BY <2>3 DEF Numbered, Event, Halt
  <2>10. \A d \in Sent :
             /\ Continues(delta, d) /\ Continues(d, delta)
             /\ Continues(halt, d) /\ Continues(d, halt)
    <3>1. TAKE d \in Sent
    <3>2. Continues(halt, d) /\ Continues(d, halt)
      BY DEF Continues, Event, Halt
    <3>3. Continues(d, delta)
      BY <1>0, <2>1, EarlierNumber DEF Continues, Event
    <3>4. Continues(delta, d)
      BY <1>0, <2>1, <2>4, EarlierNumber DEF Continues, Event
    <3> QED BY <3>2, <3>3, <3>4
  <2>11. \A d, e \in {delta, halt} : Continues(d, e)
    <3>1. Continues(delta, delta)
      BY <1>0, <2>1 DEF Continues, Event
    <3> QED BY <3>1 DEF Continues, Event, Halt
  <2>12. /\ \A i \in 1 .. Len(events) : Numbered(events[i], epoch'["kalshi"], number', changes')
         /\ \A i \in 1 .. Len(events) : \A d \in Sent :
               Continues(events[i], d) /\ Continues(d, events[i])
         /\ \A i, j \in 1 .. Len(events) : Continues(events[i], events[j])
    <3> HIDE DEF events, delta, halt
    <3>1. \A i \in 1 .. Len(events) : events[i] = delta \/ events[i] = halt
      BY <2>7
    <3>2. \A i \in 1 .. Len(events) : Numbered(events[i], epoch'["kalshi"], number', changes')
      BY <2>9, <3>1
    <3> QED BY <2>7, <2>10, <2>11, <3>1, <3>2
  <2> HIDE DEF events
  <2> QED BY <2>3, <2>7, <2>8, <2>12, DeliverChains
<1>3. CASE KalshiTrade(x)
  <2> DEFINE trade == Event("trade", "kalshi", x.market, 1, number', FALSE, 0)
             events == IF x.parses THEN <<trade>> ELSE <<>>
  <2>1. x.kind = "trade" /\ number' = number + 1 /\ changes' = changes /\ Deliver(events)
    BY <1>3 DEF KalshiTrade
  <2>2. trade \in EventType /\ trade.kind = "trade"
    BY <1>0, <1>m, <2>1 DEF Outcomes, PipeType, Event, EventType
  <2>3. events \in Seq(EventType) /\ \A i \in 1 .. Len(events) : events[i].kind = "trade"
    <3> HIDE DEF trade
    <3> QED BY <1>q, <2>2
  <2>4. \A d \in Sent : Numbered(d, epoch'["kalshi"], number', changes')
    BY <2>1, NextNumber
  <2> HIDE DEF events
  <2> QED BY <2>1, <2>3, <2>4, DeliverChains DEF Numbered, Continues
<1>4. CASE KalshiSkip(x)
  <2>1. number' = number + 1 /\ UNCHANGED sent
    BY <1>4 DEF KalshiSkip
  <2>2. \A d \in Sent : Numbered(d, epoch'["kalshi"], number', changes')
    BY <2>1, NextNumber
  <2>3. Sent' = Sent
    BY <2>1 DEF Sent
  <2>4. (\A d \in Sent : Numbered(d, epoch["kalshi"], number, changes))'
    BY <2>2, <2>3
  <2>5. (\A d, e \in Sent : Continues(d, e))'
    BY <2>3 DEF ChainInv
  <2> QED BY <2>4, <2>5 DEF ChainInv
<1>5. CASE KalshiHalt(x)
  <2> DEFINE halted == IF x.market \in Markets THEN <<x.market>> ELSE SetToSeq(Markets)
             events == [i \in DOMAIN halted |-> Halt("kalshi", halted[i], All)]
  <2>1. Deliver(events) /\ number' = number /\ changes' = changes
    BY <1>5 DEF KalshiHalt
  <2>2. halted \in Seq(Markets)
    BY MarketsInOrder
  <2>3. Len(halted) \in Nat /\ DOMAIN halted = 1 .. Len(halted)
    BY <2>2, LenProperties
  <2>4. \A i \in 1 .. Len(halted) : Halt("kalshi", halted[i], All) \in EventType
    <3>1. TAKE i \in 1 .. Len(halted)
    <3>2. halted[i] \in Markets
      BY <2>2, ElementOfSeq
    <3> HIDE DEF halted
    <3> QED BY <1>0, <3>2, EventTypes DEF Halt
  <2>5. events \in Seq(EventType) /\ \A i \in 1 .. Len(events) : events[i].kind = "halt"
    <3>1. events \in [1 .. Len(halted) -> EventType]
      BY <2>3, <2>4
    <3>2. \A i \in 1 .. Len(halted) : events[i].kind = "halt"
      <4> HIDE DEF halted
      <4> QED BY <2>3 DEF Halt, Event
    <3> HIDE DEF events, halted
    <3>3. events \in Seq(EventType) /\ Len(events) = Len(halted)
      BY <2>3, <3>1, SeqDef, LenProperties
    <3> QED BY <3>2, <3>3
  <2>6. \A d \in Sent : Numbered(d, epoch'["kalshi"], number', changes')
    BY <2>1 DEF ChainInv, Numbered
  <2> HIDE DEF events
  <2> QED BY <2>1, <2>5, <2>6, DeliverChains DEF Numbered, Continues
<1> QED BY <1>1, <1>2, <1>3, <1>4, <1>5

LEMMA PolymarketChains ==
    ASSUME OrderInv, ChainInv, "poly" \in Feeds, NEW x \in PolymarketFrames, NEW o \in x.sides,
           PolymarketBook(x, o) \/ PolymarketNotice(x, o), number' = number, epoch' = epoch
    PROVE  ChainInv'
<1> USE PipelineAssumption, FrameAssumption
<1>0. PipeType /\ x \in FrameType /\ x.market \in Markets /\ o \in Outcomes
  BY DEF OrderInv, FrameType
<1>1. /\ <<"poly", x.market, o>> \in BookIds /\ changes \in [BookIds -> Nat]
  BY <1>0 DEF BookIds, PipeType
<1>q. /\ <<>> \in Seq(EventType) /\ Len(<<>>) = 0
      /\ \A e \in EventType : <<e>> \in Seq(EventType) /\ Len(<<e>>) = 1 /\ <<e>>[1] = e
  BY EmptySeq
<1>2. PICK event \in EventType :
        /\ event.feed = "poly" /\ event.outcome = o /\ event.seq = 0
        /\ Deliver(IF x.parses THEN <<event>> ELSE <<>>)
  <2>1. CASE PolymarketBook(x, o)
    <3> DEFINE event == Event(x.kind, "poly", x.market, o, 0, x.some, changes'[<<"poly", x.market, o>>])
    <3>1. /\ x.kind \in {"snapshot", "delta"}
          /\ changes' = [changes EXCEPT ![<<"poly", x.market, o>>] = @ + 1]
          /\ Deliver(IF x.parses THEN <<event>> ELSE <<>>)
      BY <2>1 DEF PolymarketBook
    <3>2. changes'[<<"poly", x.market, o>>] \in Nat
      BY <1>1, <3>1
    <3>3. event \in EventType
      BY <1>0, <3>1, <3>2, EventTypes DEF FrameType
    <3>4. event.feed = "poly" /\ event.outcome = o /\ event.seq = 0
      BY DEF Event
    <3> HIDE DEF event
    <3> QED BY <3>1, <3>3, <3>4
  <2>2. CASE PolymarketNotice(x, o)
    <3> DEFINE event == Event(x.kind, "poly", x.market, o, 0, FALSE, 0)
    <3>1. x.kind \in {"trade", "halt"} /\ Deliver(IF x.parses THEN <<event>> ELSE <<>>)
      BY <2>2 DEF PolymarketNotice
    <3>2. event \in EventType
      BY <1>0, <3>1 DEF PipeType, Event, EventType
    <3>3. event.feed = "poly" /\ event.outcome = o /\ event.seq = 0
      BY DEF Event
    <3> HIDE DEF event
    <3> QED BY <3>1, <3>2, <3>3
  <2> QED BY <2>1, <2>2
<1> DEFINE events == IF x.parses THEN <<event>> ELSE <<>>
<1>3. /\ events \in Seq(EventType) /\ Deliver(events)
      /\ \A i \in 1 .. Len(events) : events[i] = event
  BY <1>q, <1>2
<1>4. \A d \in EventType : Numbered(d, epoch["kalshi"], number, changes)
                             => Numbered(d, epoch'["kalshi"], number', changes')
  <2>1. \A b \in BookIds : b[1] = "kalshi" => changes'[b] = changes[b]
    BY <1>1 DEF PolymarketBook, PolymarketNotice
  <2>2. SUFFICES ASSUME NEW d \in EventType, Numbered(d, epoch["kalshi"], number, changes)
                 PROVE  Numbered(d, epoch'["kalshi"], number', changes')
    OBVIOUS
  <2>3. (d.feed = "kalshi" /\ d.outcome \in Outcomes)
            => changes'[<<"kalshi", d.market, d.outcome>>] = changes[<<"kalshi", d.market, d.outcome>>]
    <3> SUFFICES ASSUME d.feed = "kalshi", d.outcome \in Outcomes
                 PROVE  changes'[<<"kalshi", d.market, d.outcome>>]
                          = changes[<<"kalshi", d.market, d.outcome>>]
      OBVIOUS
    <3>1. <<"kalshi", d.market, d.outcome>> \in BookIds
      BY DEF EventType, BookIds
    <3> QED BY <2>1, <3>1
  <2> QED BY <2>2, <2>3 DEF Numbered
<1>5. \A d \in Sent : d \in EventType /\ Numbered(d, epoch["kalshi"], number, changes)
  BY ElementOfSeq DEF OrderInv, PipeType, ChainInv, Sent
<1>6. \A d \in Sent : Numbered(d, epoch'["kalshi"], number', changes')
  BY <1>4, <1>5
<1>7. Numbered(event, epoch'["kalshi"], number', changes')
  BY <1>0, <1>2 DEF Numbered
<1>8. \A d \in Sent : Continues(event, d) /\ Continues(d, event)
  <2> SUFFICES ASSUME NEW d \in Sent PROVE Continues(event, d) /\ Continues(d, event)
    OBVIOUS
  <2>1. d.seq \in Nat /\ (d.feed = "poly" /\ d.kind = "delta" => d.seq = 0)
    BY <1>5 DEF EventType, Numbered
  <2> QED BY <1>2, <2>1 DEF Continues
<1>9. Continues(event, event)
  BY <1>2 DEF Continues
<1> HIDE DEF events
<1>10. /\ \A i \in 1 .. Len(events) : Numbered(events[i], epoch'["kalshi"], number', changes')
       /\ \A i \in 1 .. Len(events) : \A d \in Sent :
             Continues(events[i], d) /\ Continues(d, events[i])
       /\ \A i, j \in 1 .. Len(events) : Continues(events[i], events[j])
  BY <1>3, <1>7, <1>8, <1>9
<1> QED BY <1>3, <1>6, <1>10, DeliverChains

LEMMA StepChains ==
    OrderInv /\ ChainInv /\ [Next]_vars => ChainInv'
<1> SUFFICES ASSUME OrderInv, ChainInv, [Next]_vars PROVE ChainInv'
  OBVIOUS
<1>1. CASE UNCHANGED <<sent, epoch, number, changes>>
  BY <1>1 DEF ChainInv, Sent
<1>2. CASE \E f \in Feeds : Connect(f)
  <2>1. PICK f \in Feeds : Connect(f)
    BY <1>2
  <2>2. UNCHANGED <<sent, changes>>
    BY <2>1 DEF Connect
  <2>3. Sent' = Sent /\ (\A d, e \in Sent : Continues(d, e))'
    BY <2>2 DEF Sent, ChainInv
  <2>4. \A e \in Sent : Numbered(e, epoch'["kalshi"], number', changes')
    <3>1. CASE f = "kalshi"
      <4>1. epoch["kalshi"] \in Nat /\ epoch'["kalshi"] = epoch["kalshi"] + 1
        BY <2>1, <3>1 DEF Connect, OrderInv, PipeType
      <4>2. \A e \in Sent : e \in EventType
        BY ElementOfSeq DEF OrderInv, PipeType, Sent
      <4>3. TAKE e \in Sent
      <4>4. e.epoch \in Nat /\ Numbered(e, epoch["kalshi"], number, changes)
        BY <4>2 DEF ChainInv, EventType
      <4>5. (e.kind \in {"snapshot", "delta"} /\ e.feed = "kalshi") => e.epoch < epoch'["kalshi"]
        BY <4>1, <4>4 DEF Numbered
      <4> QED BY <4>4, <4>5 DEF Numbered
    <3>2. CASE f # "kalshi"
      <4>1. epoch'["kalshi"] = epoch["kalshi"] /\ number' = number
        BY <2>1, <3>2 DEF Connect, OrderInv, PipeType
      <4> QED BY <2>2, <4>1 DEF ChainInv
    <3> QED BY <3>1, <3>2
  <2> QED BY <2>3, <2>4 DEF ChainInv
<1>3. CASE \E f \in Feeds : ReceiveFrame(f)
  <2>1. PICK f \in Feeds : ReceiveFrame(f)
    BY <1>3
  <2>2. CASE f = "kalshi"
    BY <2>1, <2>2, KalshiChains DEF ReceiveFrame, KalshiFrame
  <2>3. CASE f # "kalshi"
    <3>1. "poly" \in Feeds
      BY <2>3, PipelineAssumption
    <3> QED BY <2>1, <2>3, <3>1, PolymarketChains DEF ReceiveFrame, PolymarketFrame
  <2> QED BY <2>2, <2>3
<1> QED BY <1>1, <1>2, <1>3
    DEF Next, FeedStep, BridgeStep, EngineThread, EngineStep, RunnerPops, Stop, vars, feedVars,
        EngineCheck, Disconnect, FeedStops, BridgeCheck, BridgeReceive, BridgePush, BridgeFlush,
        BridgeEnds

\* What the engine has processed was sent.
LEMMA TakenWasSent ==
    ASSUME OrderInv
    PROVE  \A i \in 1 .. Len(taken) : taken[i] \in Sent
<1>1. Begins(taken, sent)
  BY CutOff DEF OrderInv, PipeType, DrainInv
<1>2. Len(taken) \in Nat /\ Len(sent) \in Nat
  BY LenProperties DEF OrderInv, PipeType
<1> QED BY <1>1, <1>2 DEF Begins, Sent

LEMMA BooksChain ==
    ASSUME OrderInv, ChainInv, HaltInv, BookInv, NEW now, NEW found, EngineStep(now, found)
    PROVE  BookInv'
<1> DEFINE e == Head(ring)
<1>1. /\ e \in EventType /\ taken \in Seq(EventType) /\ sent' = sent
      /\ taken' = Append(taken, e) /\ books' = Applied(e)
  BY HandOver DEF OrderInv, PipeType, EngineStep
<1> HIDE DEF e
<1>2. /\ Len(taken) \in Nat /\ Len(taken') = Len(taken) + 1 /\ taken'[Len(taken) + 1] = e
      /\ \A i \in 1 .. Len(taken) : taken'[i] = taken[i]
  BY <1>1, AppendProperties, LenProperties
<1>3. e \in Sent /\ \A i \in 1 .. Len(taken) : taken[i] \in Sent
  <2>1. OrderInv'
    BY EngineKeeps
  <2>2. \A i \in 1 .. Len(taken') : taken'[i] \in Sent'
    <3>1. (\A i \in 1 .. Len(taken) : taken[i] \in Sent)'
      BY <2>1, TakenWasSent, PTL
    <3> QED BY <3>1
  <2>3. Sent' = Sent
    BY <1>1 DEF Sent
  <2> QED BY <1>2, <2>2, <2>3, TakenWasSent
<1>4. e.kind \in {"snapshot", "delta"} => e.outcome \in Outcomes
  BY <1>3 DEF ChainInv, Numbered
<1> DEFINE Left(b) ==
        \E i \in 1 .. Len(taken') :
            /\ Booked(taken'[i], b)
            /\ taken'[i].seq = books'[b].seq /\ taken'[i].epoch = books'[b].epoch
            /\ taken'[i].index = books'[b].index
<1>5. \A b \in BookIds : books'[b] = books[b] /\ ~books[b].stale => Left(b)
  BY <1>2 DEF BookInv
<1>6. \A b \in BookIds :
        (/\ Booked(e, b) /\ books'[b].seq = e.seq
         /\ books'[b].epoch = e.epoch /\ books'[b].index = e.index)
          => Left(b)
  <2> SUFFICES ASSUME NEW b \in BookIds, Booked(e, b), books'[b].seq = e.seq,
                      books'[b].epoch = e.epoch, books'[b].index = e.index
               PROVE  Left(b)
    OBVIOUS
  <2> DEFINE last == Len(taken) + 1
  <2>1. last \in 1 .. Len(taken') /\ taken'[last] = e
    BY <1>2
  <2> HIDE DEF last
  <2> QED BY <2>1
<1>7. SUFFICES ASSUME NEW b \in BookIds
               PROVE  books'[b].chain /\ (~books'[b].stale => Left(b))
  BY DEF BookInv
<1> HIDE DEF Left
<1>8. books[b] \in BookType /\ books[b].chain
  BY DEF HaltInv, BookInv
<1>9. CASE ~About(e, b) \/ e.kind = "trade"
  <2>1. books'[b] = books[b]
    BY <1>1, <1>9 DEF Applied
  <2> QED BY <1>5, <1>8, <2>1
<1>10. CASE About(e, b) /\ e.kind = "halt"
  <2>1. books'[b] = MarkStale(books[b])
    BY <1>1, <1>10 DEF Applied
  <2> QED BY <1>8, <2>1 DEF MarkStale, BookType
<1>11. About(e, b) /\ e.kind \in {"snapshot", "delta"} => Booked(e, b)
  <2> SUFFICES ASSUME About(e, b), e.kind \in {"snapshot", "delta"} PROVE Booked(e, b)
    OBVIOUS
  <2>1. e.outcome = b[3] /\ e.feed = b[1] /\ e.market = b[2]
    BY <1>4 DEF About, Outcomes, All
  <2> QED BY <2>1 DEF Booked, BookIds
<1>12. CASE About(e, b) /\ e.kind = "snapshot"
  <2>1. books'[b] = ApplySnapshot(books[b], e)
    BY <1>1, <1>12 DEF Applied
  <2> QED BY <1>6, <1>11, <1>12, <2>1 DEF ApplySnapshot
<1>13. CASE About(e, b) /\ e.kind = "delta"
  <2>1. books'[b] = ApplyDelta(books[b], e)
    BY <1>1, <1>13 DEF Applied
  <2>2. CASE ~AcceptSeq(books[b], e.seq)
    BY <1>8, <2>1, <2>2 DEF ApplyDelta, MarkStale, BookType
  <2>3. CASE AcceptSeq(books[b], e.seq)
    <3> DEFINE chained == books[b].chain
                            /\ (e.epoch # books[b].epoch \/ e.index = books[b].index + 1)
               left == ApplySnapshot(books[b], e)
    <3>1. books'[b] = [left EXCEPT !.chain = chained]
      BY <2>1, <2>3 DEF ApplyDelta
    <3>2. chained
      <4>1. ~books[b].stale /\ e.seq = books[b].seq + 1
        BY <2>3 DEF AcceptSeq
      <4>2. PICK i \in 1 .. Len(taken) :
                /\ Booked(taken[i], b)
                /\ taken[i].seq = books[b].seq /\ taken[i].epoch = books[b].epoch
                /\ taken[i].index = books[b].index
        BY <4>1 DEF BookInv
      <4>3. Continues(e, taken[i])
        BY <1>3 DEF ChainInv
      <4>4. e.feed = taken[i].feed /\ e.market = taken[i].market /\ e.outcome = taken[i].outcome
        BY <1>11, <1>13, <4>2 DEF Booked
      <4> QED BY <1>8, <1>13, <4>1, <4>2, <4>3, <4>4 DEF Continues, Booked
    <3>3. /\ books'[b].chain = chained /\ books'[b].seq = e.seq
          /\ books'[b].epoch = e.epoch /\ books'[b].index = e.index
      <4> HIDE DEF chained
      <4> QED BY <3>1 DEF ApplySnapshot
    <3> QED BY <1>6, <1>11, <1>13, <3>2, <3>3
  <2> QED BY <2>2, <2>3
<1> QED BY <1>1, <1>9, <1>10, <1>12, <1>13 DEF EventType

\* Whatever frames are skipped, fail to parse or belong to an earlier connection,
\* a book the detector may use has missed no change since its snapshot: the
\* numbers of a connection advance with the changes (accept_seq of the parser's
\* tracker and of the book).
THEOREM GapsNeverTrusted == Spec => []NoGapTrusted
<1>1. Init => ChainInv /\ BookInv
  <2> SUFFICES ASSUME Init PROVE ChainInv /\ BookInv
    OBVIOUS
  <2>1. Sent = {}
    BY EmptySeq DEF Init, Sent
  <2>2. \A b \in BookIds : books[b].chain /\ books[b].stale
    BY DEF Init, NewBook
  <2> QED BY <2>1, <2>2 DEF ChainInv, BookInv
<1>2. OrderInv /\ ChainInv /\ HaltInv /\ BookInv /\ [Next]_vars => BookInv'
  <2> SUFFICES ASSUME OrderInv, ChainInv, HaltInv, BookInv, [Next]_vars PROVE BookInv'
    OBVIOUS
  <2>1. CASE \E now \in Clock, found \in BOOLEAN : EngineStep(now, found)
    BY <2>1, BooksChain
  <2>2. CASE UNCHANGED <<books, taken>>
    BY <2>2 DEF BookInv
  <2> QED BY <2>1, <2>2
      DEF Next, FeedStep, BridgeStep, EngineThread, RunnerPops, Stop, vars, engineVars, EngineCheck,
          Connect, Disconnect, FeedStops, ReceiveFrame, BridgeCheck, BridgeReceive, BridgePush,
          BridgeFlush, BridgeEnds
<1>3. BookInv => NoGapTrusted
  BY DEF BookInv, NoGapTrusted
<1> QED BY <1>1, <1>2, <1>3, InitOrder, StepOrder, InitHalts, StepHalts, StepChains, PTL DEF Spec

----------------------------------------------------------------------------
\* The tape.

TapeEntry == [event : EventType, of : Nat]

\* The place of a tape's i-th entry among the events sent.
Place(t, i) == IF i = 0 THEN 0 ELSE t[i].of

\* What the bridge has yet to dispose of is the end of what was sent.
QueueInv ==
    /\ Disposed \in Nat
    /\ \A i \in 1 .. Len(hand) : hand[i] = sent[Disposed + i]
    /\ \A i \in 1 .. Len(channel) : channel[i] = sent[Disposed + Len(hand) + i]
    /\ Len(taken) + Len(ring) <= Disposed

\* The i-th entry of a tape repeats the one before or is of the next event.
Faithful(t, i, events) ==
    /\ Place(t, i) \in {Place(t, i - 1), Place(t, i - 1) + 1} \ {0}
    /\ Place(t, i) \in 1 .. Len(events) /\ t[i].event = events[Place(t, i)]

\* The tape is ahead of the bridge by the event in hand at most.
TapeInv ==
    /\ tape \in Seq(TapeEntry)
    /\ \A i \in 1 .. Len(tape) : Faithful(tape, i, sent)
    /\ Place(tape, Len(tape)) \in {Disposed, Disposed + 1}

LEMMA Lengths ==
    ASSUME PipeType
    PROVE  /\ Len(sent) \in Nat /\ Len(channel) \in Nat /\ Len(hand) \in Nat
           /\ Len(taken) \in Nat /\ Len(ring) \in Nat
BY LenProperties DEF PipeType

LEMMA DeliveredTapes ==
    ASSUME OrderInv, QueueInv, TapeInv, Delivered, UNCHANGED <<hand, tape, ring, taken>>
    PROVE  QueueInv' /\ TapeInv'
<1>1. PICK events \in Seq(EventType) : channel' = channel \o events /\ sent' = sent \o events
  BY DEF Delivered
<1> DEFINE n == Len(events)
<1>2. /\ n \in Nat /\ Len(channel') = Len(channel) + n /\ Len(sent') = Len(sent) + n
      /\ \A i \in 1 .. Len(channel) + n :
             channel'[i] = IF i <= Len(channel) THEN channel[i] ELSE events[i - Len(channel)]
      /\ \A i \in 1 .. Len(sent) + n :
             sent'[i] = IF i <= Len(sent) THEN sent[i] ELSE events[i - Len(sent)]
  BY <1>1, ConcatProperties, LenProperties DEF OrderInv, PipeType
<1>3. /\ Len(sent) \in Nat /\ Len(channel) \in Nat /\ Len(hand) \in Nat
      /\ Disposed \in Nat /\ Len(sent) = Disposed + Len(hand) + Len(channel)
  BY Lengths DEF OrderInv, QueueInv, Disposed
<1>4. Disposed' = Disposed
  BY <1>2, <1>3 DEF Disposed
<1> HIDE DEF n
<1>5. \A i \in 1 .. Len(sent) : sent'[i] = sent[i] /\ i \in 1 .. Len(sent')
  <2>1. TAKE i \in 1 .. Len(sent)
  <2>2. i \in 1 .. Len(sent) + n /\ i <= Len(sent)
    BY <1>2, <1>3
  <2> QED BY <1>2, <2>2
<1>6. QueueInv'
  <2>1. \A i \in 1 .. Len(hand) : hand[i] = sent'[Disposed + i]
    <3>1. TAKE i \in 1 .. Len(hand)
    <3>2. Disposed + i \in 1 .. Len(sent)
      BY <1>3
    <3> QED BY <1>5, <3>2 DEF QueueInv
  <2>2. \A i \in 1 .. Len(channel) + n : channel'[i] = sent'[Disposed + Len(hand) + i]
    <3>1. TAKE i \in 1 .. Len(channel) + n
    <3>2. CASE i <= Len(channel)
      <4>1. i \in 1 .. Len(channel) /\ Disposed + Len(hand) + i \in 1 .. Len(sent)
        BY <1>3, <3>2
      <4>2. channel[i] = sent[Disposed + Len(hand) + i]
        BY <4>1 DEF QueueInv
      <4> QED BY <1>2, <1>5, <3>2, <4>1, <4>2
    <3>3. CASE ~(i <= Len(channel))
      <4>1. /\ Disposed + Len(hand) + i \in 1 .. Len(sent) + n
            /\ ~(Disposed + Len(hand) + i <= Len(sent))
            /\ (Disposed + Len(hand) + i) - Len(sent) = i - Len(channel)
        BY <1>2, <1>3, <3>3
      <4> QED BY <1>2, <3>3, <4>1
    <3> QED BY <3>2, <3>3
  <2> QED BY <1>2, <1>3, <1>4, <2>1, <2>2 DEF QueueInv
<1>7. TapeInv'
  <2>1. \A i \in 1 .. Len(tape) : Faithful(tape, i, sent')
    BY <1>5 DEF TapeInv, Faithful
  <2> QED BY <1>4, <2>1 DEF TapeInv
<1> QED BY <1>6, <1>7

\* Recording the event in hand.
LEMMA RecordKeeps ==
    ASSUME OrderInv, QueueInv, TapeInv, hand # <<>>, tape' = Append(tape, Record), sent' = sent
    PROVE  /\ tape' \in Seq(TapeEntry)
           /\ \A i \in 1 .. Len(tape') : Faithful(tape', i, sent')
           /\ Place(tape', Len(tape')) = Disposed + 1
<1> DEFINE last == Len(tape)
<1>1. /\ Len(hand) \in Nat \ {0} /\ Head(hand) = hand[1] /\ Head(hand) \in EventType
      /\ Len(sent) \in Nat /\ Len(channel) \in Nat /\ Disposed \in Nat
  BY HeadTailProperties, EmptySeq, Lengths DEF OrderInv, PipeType, QueueInv
<1>2. Head(hand) = sent[Disposed + 1] /\ Disposed + 1 \in 1 .. Len(sent)
  BY <1>1 DEF QueueInv, Disposed
<1>3. Record \in TapeEntry /\ Record.of = Disposed + 1 /\ Record.event = sent[Disposed + 1]
  BY <1>1, <1>2 DEF Record, TapeEntry
<1>4. /\ last \in Nat /\ tape' \in Seq(TapeEntry) /\ Len(tape') = last + 1
      /\ \A i \in 1 .. last : tape'[i] = tape[i]
      /\ tape'[last + 1] = Record
  BY <1>3, AppendProperties, LenProperties DEF TapeInv
<1> HIDE DEF last
<1>5. \A i \in 0 .. last : Place(tape', i) = Place(tape, i)
  BY <1>4 DEF Place
<1>6. Place(tape', last + 1) = Disposed + 1
  BY <1>3, <1>4 DEF Place
<1>7. \A i \in 1 .. last : Faithful(tape', i, sent')
  <2>1. TAKE i \in 1 .. last
  <2>2. i - 1 \in 0 .. last /\ i \in 0 .. last
    BY <1>4
  <2>3. Faithful(tape, i, sent)
    BY DEF TapeInv, last
  <2> QED BY <1>4, <1>5, <2>2, <2>3 DEF Faithful
<1>8. Faithful(tape', last + 1, sent')
  <2>1. Place(tape', last) \in {Disposed, Disposed + 1} /\ (last + 1) - 1 = last
    BY <1>4, <1>5 DEF TapeInv, last
  <2> QED BY <1>1, <1>2, <1>3, <1>4, <1>6, <2>1 DEF Faithful
<1> QED BY <1>4, <1>6, <1>7, <1>8

\* A bridge that pushes or drops the event in hand is done with it.
LEMMA DisposeKeeps ==
    ASSUME OrderInv, QueueInv, TapeInv, hand # <<>>, hand' = Tail(hand),
           tape' = Append(tape, Record), ring' \in {ring, Append(ring, Head(hand))},
           UNCHANGED <<channel, sent, taken>>
    PROVE  QueueInv' /\ TapeInv'
<1>1. /\ Len(hand) \in Nat \ {0} /\ Len(Tail(hand)) = Len(hand) - 1 /\ Head(hand) \in EventType
      /\ \A i \in 1 .. Len(hand) - 1 : Tail(hand)[i] = hand[i + 1]
      /\ Len(sent) \in Nat /\ Len(channel) \in Nat /\ Disposed \in Nat
      /\ Len(taken) \in Nat /\ Len(ring) \in Nat
  BY HeadTailProperties, EmptySeq, Lengths DEF OrderInv, PipeType, QueueInv
<1>2. Disposed' = Disposed + 1
  BY <1>1 DEF Disposed
<1>3. Len(ring') <= Len(ring) + 1 /\ Len(ring') \in Nat
  BY <1>1, AppendProperties DEF OrderInv, PipeType
<1>4. \A i \in 1 .. Len(hand') : hand'[i] = sent[(Disposed + 1) + i]
  <2>1. TAKE i \in 1 .. Len(hand')
  <2>2. i \in 1 .. Len(hand) - 1 /\ i + 1 \in 1 .. Len(hand) /\ Disposed + (i + 1) = (Disposed + 1) + i
    BY <1>1
  <2>3. hand[i + 1] = sent[Disposed + (i + 1)]
    BY <2>2 DEF QueueInv
  <2> QED BY <1>1, <2>2, <2>3
<1>5. \A i \in 1 .. Len(channel) : channel[i] = sent[(Disposed + 1) + Len(hand') + i]
  <2>1. TAKE i \in 1 .. Len(channel)
  <2>2. channel[i] = sent[Disposed + Len(hand) + i]
    BY DEF QueueInv
  <2>3. (Disposed + 1) + Len(hand') + i = Disposed + Len(hand) + i
    BY <1>1
  <2> QED BY <2>2, <2>3
<1>6. QueueInv'
  <2>1. Len(taken) + Len(ring) <= Disposed
    BY DEF QueueInv
  <2> QED BY <1>1, <1>2, <1>3, <1>4, <1>5, <2>1 DEF QueueInv
<1>7. TapeInv'
  BY <1>2, RecordKeeps DEF TapeInv
<1> QED BY <1>6, <1>7

LEMMA BridgeTapes ==
    ASSUME OrderInv, QueueInv, TapeInv, BridgeStep
    PROVE  QueueInv' /\ TapeInv'
<1>0. /\ Len(sent) \in Nat /\ Len(channel) \in Nat /\ Len(hand) \in Nat /\ Disposed \in Nat
      /\ Len(<<>>) = 0 /\ sent' = sent /\ taken' = taken
  BY Lengths, EmptySeq
     DEF OrderInv, QueueInv, BridgeStep, BridgeCheck, BridgeReceive, BridgePush, BridgeFlush,
         BridgeEnds, engineVars
<1>1. CASE UNCHANGED <<channel, hand, tape, ring>>
  BY <1>0, <1>1 DEF QueueInv, TapeInv, Disposed
<1>2. CASE BridgeCheck /\ ~running
  <2>1. /\ hand = <<>> /\ hand' = channel /\ channel' = <<>> /\ UNCHANGED <<tape, ring>>
    BY <1>2 DEF BridgeCheck, OrderInv, PipeType
  <2>2. Disposed' = Disposed
    BY <1>0, <2>1 DEF Disposed
  <2>3. \A i \in 1 .. Len(channel) : channel[i] = sent[Disposed + i]
    <3>1. TAKE i \in 1 .. Len(channel)
    <3>2. Disposed + Len(hand) + i = Disposed + i
      BY <1>0, <2>1
    <3> QED BY <3>2 DEF QueueInv
  <2> QED BY <1>0, <2>1, <2>2, <2>3 DEF QueueInv, TapeInv
<1>3. CASE BridgeReceive /\ channel # <<>>
  <2>1. /\ hand = <<>> /\ hand' = <<Head(channel)>> /\ channel' = Tail(channel)
        /\ UNCHANGED <<tape, ring>>
    BY <1>3 DEF BridgeReceive, OrderInv, PipeType
  <2>2. /\ Len(channel) \in Nat \ {0} /\ Head(channel) = channel[1] /\ Len(channel') = Len(channel) - 1
        /\ \A i \in 1 .. Len(channel) - 1 : channel'[i] = channel[i + 1]
        /\ Len(hand') = 1 /\ hand'[1] = channel[1]
    BY <1>3, <2>1, HeadTailProperties, EmptySeq DEF OrderInv, PipeType
  <2>3. Disposed' = Disposed
    BY <1>0, <2>1, <2>2 DEF Disposed
  <2>4. \A i \in 1 .. Len(channel) : channel[i] = sent[Disposed + i]
    <3>1. TAKE i \in 1 .. Len(channel)
    <3>2. Disposed + Len(hand) + i = Disposed + i
      BY <1>0, <2>1
    <3> QED BY <3>2 DEF QueueInv
  <2>5. \A i \in 1 .. Len(hand') : hand'[i] = sent[Disposed + i]
    BY <2>2, <2>4
  <2>6. \A i \in 1 .. Len(channel') : channel'[i] = sent[Disposed + Len(hand') + i]
    <3>1. TAKE i \in 1 .. Len(channel')
    <3>2. i \in 1 .. Len(channel) - 1 /\ i + 1 \in 1 .. Len(channel)
          /\ Disposed + (i + 1) = Disposed + Len(hand') + i
      BY <1>0, <2>2
    <3> QED BY <2>2, <2>4, <3>2
  <2> QED BY <1>0, <2>1, <2>3, <2>5, <2>6 DEF QueueInv, TapeInv
<1>4. CASE BridgePush
  <2>1. /\ Len(hand) = 1 /\ hand # <<>> /\ Tail(hand) = <<>> /\ UNCHANGED channel
        /\ tape' = Append(tape, Record)
    BY <1>4, SingleIsHead DEF BridgePush, OrderInv, PipeType
  <2>2. CASE ring' = Append(ring, Head(hand)) /\ hand' = <<>>
    BY <1>0, <2>1, <2>2, DisposeKeeps
  <2>3. CASE UNCHANGED <<ring, hand>>
    <3>1. Disposed' = Disposed
      BY <1>0, <2>1, <2>3 DEF Disposed
    <3> QED BY <1>0, <2>1, <2>3, <3>1, RecordKeeps DEF QueueInv, TapeInv
  <2> QED BY <1>4, <2>2, <2>3 DEF BridgePush
<1>5. CASE BridgeFlush
  BY <1>0, <1>5, DisposeKeeps DEF BridgeFlush
<1> QED BY <1>1, <1>2, <1>3, <1>4, <1>5 DEF BridgeStep, BridgeCheck, BridgeReceive, BridgeEnds

LEMMA StepTapes ==
    OrderInv /\ QueueInv /\ TapeInv /\ [Next]_vars => QueueInv' /\ TapeInv'
<1> SUFFICES ASSUME OrderInv, QueueInv, TapeInv, [Next]_vars PROVE QueueInv' /\ TapeInv'
  OBVIOUS
<1>1. CASE UNCHANGED <<hand, channel, tape, ring, sent, taken>>
  BY <1>1 DEF QueueInv, TapeInv, Disposed
<1>2. CASE FeedStep
  <2>1. UNCHANGED <<hand, tape, ring, taken>>
    BY <1>2 DEF FeedStep, Connect, Disconnect, FeedStops, ReceiveFrame, bridgeVars, engineVars
  <2> QED BY <1>2, <2>1, FeedKeeps, DeliveredTapes
<1>3. CASE BridgeStep
  BY <1>3, BridgeTapes
<1>4. CASE \E now \in Clock, found \in BOOLEAN : EngineStep(now, found)
  <2>1. /\ ring # <<>> /\ ring' = Tail(ring) /\ taken' = Append(taken, Head(ring))
        /\ UNCHANGED <<hand, channel, tape, sent>>
    BY <1>4 DEF EngineStep, bridgeVars
  <2>2. /\ Len(ring) \in Nat \ {0} /\ Len(ring') = Len(ring) - 1
        /\ Len(taken) \in Nat /\ Len(taken') = Len(taken) + 1
    BY <2>1, HeadTailProperties, EmptySeq, AppendProperties, LenProperties DEF OrderInv, PipeType
  <2>3. Disposed' = Disposed
    BY <2>1 DEF Disposed
  <2>4. Len(taken') + Len(ring') = Len(taken) + Len(ring)
    BY <2>2
  <2> QED BY <2>1, <2>3, <2>4 DEF QueueInv, TapeInv
<1>5. CASE EngineCheck \/ RunnerPops \/ Stop \/ UNCHANGED vars
  BY <1>1, <1>5 DEF EngineCheck, RunnerPops, Stop, vars, bridgeVars, engineVars
<1> QED BY <1>2, <1>3, <1>4, <1>5 DEF Next, EngineThread

\* Whatever the rings hold and whenever the program stops, the tape has each
\* event that left the bridge before the engine can act on it, in the order sent,
\* and repeats only what a full ring refused (the push closure and the drain).
THEOREM TapeComplete == Spec => []TapeFaithful
<1>1. Init => QueueInv /\ TapeInv
  <2> SUFFICES ASSUME Init PROVE QueueInv /\ TapeInv
    OBVIOUS
  <2>1. /\ Len(<<>>) = 0 /\ <<>> \in Seq(TapeEntry)
        /\ sent = <<>> /\ channel = <<>> /\ hand = <<>> /\ tape = <<>> /\ taken = <<>> /\ ring = <<>>
    BY EmptySeq DEF Init
  <2>2. /\ Len(sent) = 0 /\ Len(channel) = 0 /\ Len(hand) = 0 /\ Len(tape) = 0
        /\ Len(taken) = 0 /\ Len(ring) = 0
    BY <2>1
  <2>3. Disposed = 0
    BY <2>2 DEF Disposed
  <2>4. Place(tape, Len(tape)) = 0
    BY <2>2 DEF Place
  <2>5. QueueInv
    BY <2>2, <2>3 DEF QueueInv
  <2> QED BY <2>1, <2>2, <2>3, <2>4, <2>5 DEF TapeInv
<1>2. OrderInv /\ QueueInv /\ TapeInv => TapeFaithful
  <2> SUFFICES ASSUME OrderInv, QueueInv, TapeInv PROVE TapeFaithful
    OBVIOUS
  <2>1. /\ DOMAIN tape = 1 .. Len(tape) /\ Len(tape) \in Nat
        /\ DOMAIN sent = 1 .. Len(sent) /\ Disposed \in Nat
    BY LenProperties DEF OrderInv, PipeType, QueueInv, TapeInv
  <2>2. Disposed <= Place(tape, Len(tape)) /\ Len(taken) + Len(ring) <= Disposed
    BY <2>1 DEF QueueInv, TapeInv
  <2>3. \A i \in 1 .. Len(tape) : Faithful(tape, i, sent)
    BY DEF TapeInv
  <2> QED BY <2>1, <2>2, <2>3 DEF TapeFaithful, Faithful, Place
<1> QED BY <1>1, <1>2, InitOrder, StepOrder, StepTapes, PTL DEF Spec
=============================================================================
