---------------------------- MODULE LivePipeline ----------------------------
(***************************************************************************)
(* From the venues' sockets to the runner: the two feed tasks and their    *)
(* parsers (arbkit-feed live/ and venues/), the mpsc channel, the bridge   *)
(* thread that records the tape and pushes into the feed ring (bridge.rs   *)
(* and the closure prod_trader.rs gives it), the engine thread with its    *)
(* books and signal cooldown (arbkit-engine engine.rs, slab.rs), and the   *)
(* signal ring.  The two rings are what BoundedFifo promises.              *)
(*                                                                         *)
(* A frame is received when the venue publishes it, or never (a skip the   *)
(* sequence numbers reveal).  Kalshi numbers its book and trade frames per *)
(* connection; Polymarket's carry no number, which the parser reads as 0.  *)
(* A trade stands for a heartbeat too.  Prices are left out: an event says *)
(* whether its book holds a level, and detection may or may not find a     *)
(* signal once every outcome has one.                                      *)
(***************************************************************************)
EXTENDS OutcomeBook, Sequences, SequencesExt

CONSTANTS
    Feeds,        \* the connected venues, out of "kalshi" and "poly"
    Markets,
    KalshiFrames, PolymarketFrames,  \* frames the venues may publish
    RingCap,      \* slots of the feed ring
    SignalCap,    \* slots of the signal ring
    Cooldown,     \* signal_cooldown_ns
    Clock,        \* readings of the wall clock
    MaxFrames,    \* bound on the frames the venues publish
    MaxEpochs,    \* bound on the connections of a feed
    MaxRetries    \* bound on the surplus tape records

ASSUME PipelineAssumption ==
    /\ Feeds \subseteq {"kalshi", "poly"} /\ IsFiniteSet(Markets)
    /\ RingCap \in Nat \ {0} /\ SignalCap \in Nat \ {0}
    /\ Cooldown \in Nat /\ Clock \subseteq Nat
    /\ MaxFrames \in Nat /\ MaxEpochs \in Nat /\ MaxRetries \in Nat

VARIABLES
    running,    \* the shared stop flag
    conn,       \* per feed: "down", "up" or "ended"
    epoch,      \* per feed: connections so far
    number,     \* frames Kalshi has numbered on this connection
    tracker,    \* KalshiSequenceTracker of this connection: [init, last]
    changes,    \* per book: changes the venue has made to it
    frames,     \* frames published
    channel,    \* the mpsc channel
    bridge,     \* "check", "recv", "push", "drain" or "done"
    hand,       \* events the bridge has received and not yet disposed of
    tape,       \* events written to the tape, with the place among those sent
    ring,       \* the feed ring
    engine,     \* "check", "step" or "done"
    books,
    lastEmit,   \* last_emit_ns per market
    signals,    \* signals pushed, in order
    read,       \* how many of them the runner has popped
    sent, taken \* history: events entering the channel, events processed

feedVars == <<conn, epoch, number, tracker, changes, frames>>
bridgeVars == <<bridge, hand, tape>>
engineVars == <<engine, books, lastEmit, signals, taken>>
vars == <<running, feedVars, channel, bridgeVars, ring, engineVars, read, sent>>

Outcomes == 1 .. 2  \* yes and no of a Kalshi market

\* What matters of a frame: the market (or none), the sides it is about, whether
\* it leaves a level there, and whether its prices parse.
FrameType == [kind : {"snapshot", "delta", "trade", "halt", "skip"}, market : Markets \cup {"none"},
              sides : SUBSET Outcomes, some : BOOLEAN, parses : BOOLEAN]

ASSUME FrameAssumption ==
    /\ KalshiFrames \cup PolymarketFrames \subseteq FrameType
    /\ \A x \in KalshiFrames : x.market = "none" => x.kind = "halt"
    /\ \A x \in PolymarketFrames : x.market # "none"

BookIds == Feeds \X Markets \X Outcomes
All == 0    \* a halt of every outcome
Fresh == [init |-> FALSE, last |-> 0]

Init ==
    /\ running = TRUE
    /\ conn = [f \in Feeds |-> "down"] /\ epoch = [f \in Feeds |-> 0]
    /\ number = 0 /\ tracker = Fresh
    /\ changes = [b \in BookIds |-> 0] /\ frames = 0
    /\ channel = <<>> /\ bridge = "check" /\ hand = <<>> /\ tape = <<>> /\ ring = <<>>
    /\ engine = "check" /\ books = [b \in BookIds |-> NewBook]
    /\ lastEmit = [m \in Markets |-> 0]
    /\ signals = <<>> /\ read = 0 /\ sent = <<>> /\ taken = <<>>

----------------------------------------------------------------------------
\* The feed tasks.

Connect(f) ==
    /\ running /\ conn[f] = "down" /\ epoch[f] < MaxEpochs
    /\ conn' = [conn EXCEPT ![f] = "up"]
    /\ epoch' = [epoch EXCEPT ![f] = @ + 1]
    /\ IF f = "kalshi" THEN number' = 0 /\ tracker' = Fresh ELSE UNCHANGED <<number, tracker>>
    /\ UNCHANGED <<running, changes, frames, channel, bridgeVars, ring, engineVars, read, sent>>

\* The socket fails, closes or stays silent for 30 s; run reconnects later.
Disconnect(f) ==
    /\ conn[f] = "up"
    /\ conn' = [conn EXCEPT ![f] = "down"]
    /\ UNCHANGED <<running, epoch, number, tracker, changes, frames, channel, bridgeVars, ring,
                   engineVars, read, sent>>

FeedStops(f) ==
    /\ ~running /\ conn[f] # "ended"
    /\ conn' = [conn EXCEPT ![f] = "ended"]
    /\ UNCHANGED <<running, epoch, number, tracker, changes, frames, channel, bridgeVars, ring,
                   engineVars, read, sent>>

\* sender.send fails once the bridge has dropped the receiver.
Deliver(events) ==
    /\ channel' = IF bridge = "done" THEN channel ELSE channel \o events
    /\ sent' = IF bridge = "done" THEN sent ELSE sent \o events

Event(kind, f, m, o, seq, some, index) ==
    [kind |-> kind, feed |-> f, market |-> m, outcome |-> o, seq |-> seq, some |-> some,
     epoch |-> epoch[f], index |-> index]

Halt(f, m, o) == Event("halt", f, m, o, 0, FALSE, 0)

\* KalshiSequenceTracker::accept_seq returns Ok.
InSequence(seq) == ~tracker.init \/ seq = tracker.last + 1

\* A Kalshi snapshot restarts the tracker, then pushes the books of the sides it
\* lists, yes first (none if a price does not parse).
KalshiSnapshot(x) ==
    LET snapshot(o) == Event("snapshot", "kalshi", x.market, o, number', x.some,
                             changes'[<<"kalshi", x.market, o>>])
        listed(o) == IF o \in x.sides THEN <<snapshot(o)>> ELSE <<>>
    IN  /\ x.kind = "snapshot"
        /\ number' = number + 1
        /\ changes' = [b \in BookIds |-> IF b[1] = "kalshi" /\ b[2] = x.market
                                         THEN changes[b] + 1 ELSE changes[b]]
        /\ tracker' = [init |-> TRUE, last |-> number']
        /\ Deliver(IF x.parses THEN listed(1) \o listed(2) ELSE <<>>)

\* A Kalshi delta of one side: a gap halts the market, whatever was skipped; a
\* price that does not parse is dropped after the tracker has moved.
KalshiDelta(x) ==
    /\ x.kind = "delta"
    /\ number' = number + 1
    /\ \E o \in x.sides :
        LET b == <<"kalshi", x.market, o>>
            delta == Event("delta", "kalshi", x.market, o, number', x.some, changes'[b])
        IN  /\ changes' = [changes EXCEPT ![b] = @ + 1]
            /\ tracker' = IF InSequence(number') THEN [init |-> TRUE, last |-> number'] ELSE tracker
            /\ Deliver(IF ~InSequence(number') THEN <<Halt("kalshi", x.market, All)>>
                       ELSE IF x.parses THEN <<delta>> ELSE <<>>)

\* A trade moves the tracker when it is in sequence and changes no book.
KalshiTrade(x) ==
    /\ x.kind = "trade"
    /\ number' = number + 1
    /\ tracker' = IF InSequence(number') THEN [init |-> TRUE, last |-> number'] ELSE tracker
    /\ Deliver(IF x.parses THEN <<Event("trade", "kalshi", x.market, 1, number', FALSE, 0)>>
               ELSE <<>>)
    /\ UNCHANGED changes

\* A delta the feed never receives.
KalshiSkip(x) ==
    /\ x.kind = "skip"
    /\ number' = number + 1
    /\ \E o \in x.sides : changes' = [changes EXCEPT ![<<"kalshi", x.market, o>>] = @ + 1]
    /\ UNCHANGED <<tracker, channel, sent>>

\* A status frame; without a known ticker it is applied to every subscription.
KalshiHalt(x) ==
    LET halted == IF x.market \in Markets THEN <<x.market>> ELSE SetToSeq(Markets)
    IN  /\ x.kind = "halt"
        /\ Deliver([i \in DOMAIN halted |-> Halt("kalshi", halted[i], All)])
        /\ UNCHANGED <<number, tracker, changes>>

KalshiFrame ==
    \E x \in KalshiFrames :
        KalshiSnapshot(x) \/ KalshiDelta(x) \/ KalshiTrade(x) \/ KalshiSkip(x) \/ KalshiHalt(x)

\* A Polymarket frame is about one token and is not sequenced.
PolymarketBook(x, o) ==
    LET b == <<"poly", x.market, o>>
    IN  /\ x.kind \in {"snapshot", "delta"}
        /\ changes' = [changes EXCEPT ![b] = @ + 1]
        /\ Deliver(IF x.parses THEN <<Event(x.kind, "poly", x.market, o, 0, x.some, changes'[b])>>
                   ELSE <<>>)

PolymarketNotice(x, o) ==
    /\ x.kind \in {"trade", "halt"}
    /\ Deliver(IF x.parses THEN <<Event(x.kind, "poly", x.market, o, 0, FALSE, 0)>> ELSE <<>>)
    /\ UNCHANGED changes

PolymarketFrame ==
    /\ \E x \in PolymarketFrames : \E o \in x.sides : PolymarketBook(x, o) \/ PolymarketNotice(x, o)
    /\ UNCHANGED <<number, tracker>>

ReceiveFrame(f) ==
    /\ conn[f] = "up" /\ frames < MaxFrames
    /\ frames' = frames + 1
    /\ IF f = "kalshi" THEN KalshiFrame ELSE PolymarketFrame
    /\ UNCHANGED <<running, conn, epoch, bridgeVars, ring, engineVars, read>>

----------------------------------------------------------------------------
\* The bridge thread.

RingFull == Len(ring) = RingCap

\* How many of the events sent the bridge is done with.
Disposed == Len(sent) - Len(channel) - Len(hand)

\* What is written of the event in hand; its place is history.
Record == [event |-> Head(hand), of |-> Disposed + 1]

\* Once running is cleared, what is queued then gets one try each.
BridgeCheck ==
    /\ bridge = "check"
    /\ bridge' = IF running THEN "recv" ELSE "drain"
    /\ IF running THEN UNCHANGED <<hand, channel>> ELSE hand' = channel /\ channel' = <<>>
    /\ UNCHANGED <<running, feedVars, tape, ring, engineVars, read, sent>>

\* recv_timeout: an event, or 5 ms without one.
BridgeReceive ==
    /\ bridge = "recv"
    /\ IF channel = <<>> THEN bridge' = "check" /\ UNCHANGED <<hand, channel>>
       ELSE hand' = <<Head(channel)>> /\ channel' = Tail(channel) /\ bridge' = "push"
    /\ UNCHANGED <<running, feedVars, tape, ring, engineVars, read, sent>>

\* Mutant of BridgePush: a full ring drops the event.
BridgePushLossy ==
    /\ bridge = "push"
    /\ tape' = Append(tape, Record)
    /\ ring' = IF RingFull THEN ring ELSE Append(ring, Head(hand))
    /\ hand' = <<>> /\ bridge' = "check"
    /\ UNCHANGED <<running, feedVars, channel, engineVars, read, sent>>

\* Mutant of BridgePush: nothing is recorded once the program is stopping.
BridgePushUntaped ==
    /\ bridge = "push" /\ ~RingFull
    /\ tape' = IF running THEN Append(tape, Record) ELSE tape
    /\ ring' = Append(ring, Head(hand)) /\ hand' = <<>> /\ bridge' = "check"
    /\ UNCHANGED <<running, feedVars, channel, engineVars, read, sent>>

\* One call of the try_push closure: tape first, then the ring.  A full ring is
\* retried while running is set.
BridgePush ==
    /\ bridge = "push"
    /\ tape' = Append(tape, Record)
    /\ \/ /\ ~RingFull
          /\ ring' = Append(ring, Head(hand)) /\ hand' = <<>> /\ bridge' = "check"
       \/ /\ RingFull
          /\ running => Len(tape) < Len(taken) + Len(ring) + MaxRetries
          /\ bridge' = IF running THEN "push" ELSE "done"
          /\ UNCHANGED <<ring, hand>>
    /\ UNCHANGED <<running, feedVars, channel, engineVars, read, sent>>

BridgeFlush ==
    /\ bridge = "drain" /\ hand # <<>>
    /\ tape' = Append(tape, Record)
    /\ ring' = IF RingFull THEN ring ELSE Append(ring, Head(hand))
    /\ hand' = Tail(hand)
    /\ UNCHANGED <<running, feedVars, channel, bridge, engineVars, read, sent>>

BridgeEnds ==
    /\ bridge = "drain" /\ hand = <<>>
    /\ bridge' = "done"
    /\ UNCHANGED <<running, feedVars, channel, hand, tape, ring, engineVars, read, sent>>

----------------------------------------------------------------------------
\* The engine thread.

\* The slab has the event's venue, market and outcome (or all outcomes) at b.
About(e, b) == b[1] = e.feed /\ b[2] = e.market /\ e.outcome \in {b[3], All}

\* Mutant of Applied: a halt of the whole market reaches its first outcome only.
AppliedFirst(e) ==
    [b \in BookIds |->
        IF ~About(e, b) \/ (e.outcome = All /\ b[3] # 1) THEN books[b]
        ELSE CASE e.kind = "snapshot" -> ApplySnapshot(books[b], e)
               [] e.kind = "delta" -> ApplyDelta(books[b], e)
               [] e.kind = "halt" -> MarkStale(books[b])
               [] OTHER -> books[b]]

\* process_event, up to detection.
Applied(e) ==
    [b \in BookIds |->
        IF ~About(e, b) THEN books[b]
        ELSE CASE e.kind = "snapshot" -> ApplySnapshot(books[b], e)
               [] e.kind = "delta" -> ApplyDelta(books[b], e)
               [] e.kind = "halt" -> MarkStale(books[b])
               [] OTHER -> books[b]]

\* Mutant of EmitAdmitted: a window that never closes the gate.
EmitAlways(m, now) == TRUE

EmitAdmitted(m, now) ==
    lastEmit[m] = 0 \/ (now >= lastEmit[m] /\ now - lastEmit[m] >= Cooldown) \/ Cooldown = 0

\* Every outcome of the market has a level in service at some venue.
Covered(bs, m) == \A o \in Outcomes : \E f \in Feeds : InService(bs[<<f, m, o>>])

\* Mutant of EngineStep: the engine waits for room in the signal ring.
EngineStepWaits(now, found) ==
    LET e == Head(ring)
        signal == /\ found /\ e.kind # "trade" /\ EmitAdmitted(e.market, now)
                  /\ Covered(books', e.market)
    IN  /\ engine = "step" /\ ring # <<>>
        /\ Len(signals) - read < SignalCap /\ engine' = "check"
        /\ ring' = Tail(ring) /\ taken' = Append(taken, e)
        /\ books' = Applied(e)
        /\ lastEmit' = IF signal /\ now # 0 THEN [lastEmit EXCEPT ![e.market] = now] ELSE lastEmit
        /\ signals' = IF signal THEN Append(signals, [market |-> e.market, at |-> now]) ELSE signals
        /\ UNCHANGED <<running, feedVars, channel, bridgeVars, read, sent>>

\* step: pop, process, and push the signal unless the signal ring is full.
EngineStep(now, found) ==
    LET e == Head(ring)
        signal == /\ found /\ e.kind # "trade" /\ EmitAdmitted(e.market, now)
                  /\ Covered(books', e.market)
    IN  /\ engine = "step" /\ ring # <<>>
        /\ engine' = "check"
        /\ ring' = Tail(ring) /\ taken' = Append(taken, e)
        /\ books' = Applied(e)
        /\ lastEmit' = IF signal /\ now # 0 THEN [lastEmit EXCEPT ![e.market] = now] ELSE lastEmit
        /\ signals' = IF signal /\ Len(signals) - read < SignalCap
                      THEN Append(signals, [market |-> e.market, at |-> now]) ELSE signals
        /\ UNCHANGED <<running, feedVars, channel, bridgeVars, read, sent>>

\* The head of the hot loop, and a step that finds the ring empty.
EngineCheck ==
    /\ \/ engine = "check" /\ engine' = IF running THEN "step" ELSE "done"
       \/ engine = "step" /\ ring = <<>> /\ engine' = "check"
    /\ UNCHANGED <<running, feedVars, channel, bridgeVars, ring, books, lastEmit, signals, taken,
                   read, sent>>

----------------------------------------------------------------------------
\* The runner.

RunnerPops ==
    /\ read < Len(signals)
    /\ read' = read + 1
    /\ UNCHANGED <<running, feedVars, channel, bridgeVars, ring, engineVars, sent>>

Stop ==
    /\ running
    /\ running' = FALSE
    /\ UNCHANGED <<feedVars, channel, bridgeVars, ring, engineVars, read, sent>>

FeedStep == \E f \in Feeds : Connect(f) \/ Disconnect(f) \/ FeedStops(f) \/ ReceiveFrame(f)
BridgeStep == BridgeCheck \/ BridgeReceive \/ BridgePush \/ BridgeFlush \/ BridgeEnds
EngineThread == EngineCheck \/ \E now \in Clock, found \in BOOLEAN : EngineStep(now, found)

Next == FeedStep \/ BridgeStep \/ EngineThread \/ RunnerPops \/ Stop

Spec == Init /\ [][Next]_vars

\* The bridge and the engine are threads of their own; nothing is asked of the
\* venues or of the runner.
Fairness == WF_vars(BridgeStep) /\ WF_vars(EngineThread)

FairSpec == Spec /\ Fairness

----------------------------------------------------------------------------
\* Properties.

EventType ==
    [kind : {"snapshot", "delta", "trade", "halt"}, feed : Feeds, market : Markets,
     outcome : Outcomes \cup {All}, seq : Nat, some : BOOLEAN, epoch : Nat, index : Nat]

TypeOK ==
    /\ running \in BOOLEAN
    /\ conn \in [Feeds -> {"down", "up", "ended"}] /\ epoch \in [Feeds -> 0 .. MaxEpochs]
    /\ number \in Nat /\ tracker \in [init : BOOLEAN, last : Nat]
    /\ changes \in [BookIds -> Nat] /\ frames \in 0 .. MaxFrames
    /\ \A s \in {channel, hand, ring, sent, taken} : s \in Seq(EventType)
    /\ tape \in Seq([event : EventType, of : Nat])
    /\ bridge \in {"check", "recv", "push", "drain", "done"} /\ engine \in {"check", "step", "done"}
    /\ (bridge = "push") => Len(hand) = 1
    /\ Len(ring) <= RingCap
    /\ books \in [BookIds -> [stale : BOOLEAN, quoted : BOOLEAN, seq : Nat,
                               chain : BOOLEAN, epoch : Nat, index : Nat]]
    /\ lastEmit \in [Markets -> Clock \cup {0}]
    /\ signals \in Seq([market : Markets, at : Clock])
    /\ read \in 0 .. Len(signals) /\ Len(signals) - read <= SignalCap

\* Until shutdown reaches the bridge, no event a feed handed over is lost,
\* repeated or overtaken on its way through channel, bridge and ring to the
\* engine, however often a full ring made the bridge retry; a shutdown only cuts
\* off the end of what the engine sees.
InOrderOnce ==
    /\ bridge \in {"check", "recv", "push"} => taken \o ring \o hand \o channel = sent
    /\ IsPrefix(taken, sent)

\* A book the detector may use has every change its venue made to it within one
\* connection since its last snapshot: skipped frames and frames that did not
\* parse take it out of service (accept_seq of the tracker and of the book).
NoGapTrusted == \A b \in BookIds : InService(books[b]) => books[b].chain

\* A halt, the venue's or the one a sequence gap raises, keeps every book it is
\* about out of service until a snapshot of that very book is processed.
HaltedUntilSnapshot ==
    \A b \in BookIds : InService(books[b]) =>
        \E i \in DOMAIN taken :
            /\ taken[i].kind = "snapshot" /\ About(taken[i], b)
            /\ \A j \in i + 1 .. Len(taken) : taken[j].kind = "halt" => ~About(taken[j], b)

\* The tape holds every event that left the bridge, before the engine can act on
\* it and in the order the feeds sent them, and repeats only the event a full ring
\* refused; a shutdown at any moment changes none of it (the push closure and the
\* final drain).
TapeFaithful ==
    LET of(i) == IF i = 0 THEN 0 ELSE tape[i].of
    IN  /\ \A i \in DOMAIN tape :
            /\ of(i) \in {of(i - 1), of(i - 1) + 1} \ {0}
            /\ of(i) \in DOMAIN sent /\ tape[i].event = sent[of(i)]
        /\ Len(taken) + Len(ring) <= Disposed /\ Disposed <= of(Len(tape))

\* Two signals on one market are a cooldown apart by their own timestamps,
\* however the wall clock jumps and whichever signals the full signal ring
\* dropped in between (emit_admitted, note_emit).
SignalsSpaced ==
    \A i, j \in DOMAIN signals :
        (i < j /\ signals[i].market = signals[j].market /\ signals[i].at # 0)
            => signals[j].at >= signals[i].at + Cooldown

\* While the program runs the engine keeps catching up with the feeds, though
\* the runner may never read a signal and both rings may be full.
EventsReachEngine == []<>(taken = sent \/ ~running)

\* A book that had a snapshot goes out of service only when its market was
\* halted or a numbered frame of the connection was missed.
LosslessStaysFresh ==
    LET received == {sent[i].seq : i \in {j \in DOMAIN sent : sent[j].feed = "kalshi"}}
        halted(b) == \E i \in DOMAIN taken : taken[i].kind = "halt" /\ taken[i].market = b[2]
    IN  \A b \in {c \in BookIds : c[1] = "kalshi"} :
            (epoch["kalshi"] = 1 /\ 1 .. number \subseteq received /\ books[b].index > 0)
                => ~books[b].stale \/ halted(b)
=============================================================================
