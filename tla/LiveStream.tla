------------------------------ MODULE LiveStream ------------------------------
(***************************************************************************)
(* A runner's live stream, end to end: the runner's frames, its writer     *)
(* thread (live_runner/stream.rs, or the writer of prod_trader.rs), the    *)
(* HTTP requests, the room (dashboard/worker/position-room.ts) and one     *)
(* viewer's socket (useLiveSession.ts).                                    *)
(*                                                                         *)
(* A tick is the room's check interval (10 s); the writer's heartbeat (5 s) *)
(* and its batching window (500 ms) come due within one.  Every delivery attempt *)
(* ends in one of four ways: answered, lost before the room, answered in   *)
(* vain, or given up by the runner and handled by the room later.          *)
(***************************************************************************)
EXTENDS LiveViewer, FiniteSets

CONSTANTS
    Kinds,        \* the runner of each run: "live" (live_runner) or "prod" (prod_trader)
    FlushRecords, \* buffered records (live) or lines (prod) that force a flush
    MaxAttempts,  \* delivery attempts per batch
    AlarmAfter,   \* ticks from activity to the room's staleness check
    MaxRows, MaxStats,  \* bounds: rows altogether, statistics of a run
    MaxFaults,                   \* bound: failed attempts, crashes, evictions, lost sockets
    MaxBacklog, MaxInbox         \* bounds: frames left unread by the writer, by the viewer

ASSUME StreamAssumption ==
    /\ Kinds \in Seq({"live", "prod"})
    /\ {FlushRecords, MaxAttempts, AlarmAfter, StaleAfter, RingCap, FillCap, MaxItems}
         \subseteq Nat \ {0}
    /\ StaleAfter > 1  \* a heartbeat is due within a tick
    /\ {MaxRows, MaxStats, MaxFaults, MaxBacklog, MaxInbox} \subseteq Nat

VARIABLES
    runner,   \* the trading loop: its run, the numbers used, the statistics sent
    writer,   \* the writer thread: channel, buffer, batching window, silence
    flight,   \* the batch being delivered and the attempt it is at
    late,     \* requests the runner gave up that the room may still handle
    session,  \* the room's session
    alarm,    \* ticks to the room's staleness check, or Unscheduled
    viewer,   \* the browser: socket, frames under way, what it shows
    faults,   \* delivery failures and outages so far
    ghost     \* rows sent, dropped by the runner, lost with a room; a boundary went astray

vars == <<runner, writer, flight, late, session, alarm, viewer, faults, ghost>>

Unscheduled == -1
NoAsk == -2  \* no resume request under way
NoFlight == [batch |-> << >>, attempt |-> 0, beat |-> FALSE]
IdleWriter == [chan |-> << >>, buf |-> << >>, oldest |-> "none", active |-> FALSE,
               quiet |-> 0, closed |-> FALSE]

RowsOf(frames) ==
    UNION {IF frames[i].t = "positions" THEN {frames[i].items[j] : j \in 1..Len(frames[i].items)}
           ELSE {} : i \in 1..Len(frames)}

Boundary(frame) == frame.t \in {"session-start", "session-end"}
Has(batch, kind) == \E i \in 1..Len(batch) : batch[i].t = kind

Runner == Kinds[Larger(1, runner.run)]
Running == runner.pc = "running"
FaultsLeft == faults < MaxFaults
Send(frames) ==
    /\ Len(writer.chan) <= MaxBacklog
    /\ writer' = [writer EXCEPT !.chan = @ \o frames]

\* live_runner numbers its rows from 0 and reports the next number as its
\* cursor; prod_trader counts first, and reports the last number it used.
RowSeq(n) == IF Runner = "live" THEN n - 1 ELSE n

-----------------------------------------------------------------------------
(* The runner *)

Init ==
    /\ runner = [pc |-> "down", run |-> 0, seq |-> 0, window |-> 0]
    /\ writer = IdleWriter
    /\ flight = NoFlight
    /\ late = {}
    /\ session = Fresh
    /\ alarm = Unscheduled
    /\ viewer = [open |-> FALSE, inbox |-> << >>, ask |-> NoAsk, shows |-> NothingSeen,
                 resume |-> [run |-> NoRun, seq |-> 0]]
    /\ faults = 0
    /\ ghost = [sent |-> {}, dropped |-> {}, wiped |-> {}, astray |-> FALSE]

\* A launch opens a session and states its posture before any trade.
Launch ==
    /\ ~Running /\ runner.run < Len(Kinds)
    /\ runner' = [pc |-> "running", run |-> runner.run + 1, seq |-> 0, window |-> 0]
    /\ writer' = [IdleWriter EXCEPT !.chan = <<[t |-> "session-start", run |-> runner.run + 1],
                                              [t |-> "risk", switch |-> "engaged"]>>]
    /\ flight' = NoFlight
    /\ UNCHANGED <<late, session, alarm, viewer, faults, ghost>>

Row(n) == [run |-> runner.run, seq |-> RowSeq(n)]

\* One window of the paper runner: its trades in one frame, then its statistics.
Window(k) ==
    /\ Running /\ Runner = "live"
    /\ runner.window < MaxStats /\ Cardinality(ghost.sent) + k <= MaxRows
    /\ LET rows == [i \in 1..k |-> Row(runner.seq + i)]
           trades == IF k = 0 THEN << >> ELSE <<[t |-> "positions", items |-> rows]>>
       IN  /\ Send(Append(trades, [t |-> "stats", cursor |-> runner.seq + k, window |-> runner.window + 1]))
           /\ ghost' = [ghost EXCEPT !.sent = @ \cup RowsOf(trades)]
    /\ runner' = [runner EXCEPT !.seq = @ + k, !.window = @ + 1]
    /\ UNCHANGED <<flight, late, session, alarm, viewer, faults>>

\* One executed signal of the production runner, after signals that repeat an
\* opportunity and only use up numbers: its row, then its open fill.
Trade(repeats) ==
    /\ Running /\ Runner = "prod"
    /\ LET n == runner.seq + repeats + 1
       IN  /\ n + Cardinality({row \in ghost.sent : row.run < runner.run}) <= MaxRows
           /\ runner' = [runner EXCEPT !.seq = n]
           /\ Send(<<[t |-> "positions", items |-> <<Row(n)>>],
                     [t |-> "fills", items |-> <<[order |-> n, venueId |-> "given", status |-> "open"]>>]>>)
           /\ ghost' = [ghost EXCEPT !.sent = @ \cup {Row(n)}]
    /\ UNCHANGED <<flight, late, session, alarm, viewer, faults>>

\* The settlement of the first order, which carries no venue order id.
Settle ==
    /\ Running /\ Runner = "prod" /\ runner.seq > 0 /\ runner.window < MaxStats
    /\ runner' = [runner EXCEPT !.window = @ + 1]
    /\ Send(<<[t |-> "fills", items |-> <<[order |-> runner.seq, venueId |-> "none", status |-> "settled"]>>]>>)
    /\ UNCHANGED <<flight, late, session, alarm, viewer, faults, ghost>>

\* Mutant: the statistics report the next number instead of the last.
PushStatsNext ==
    /\ Running /\ Runner = "prod" /\ runner.window < MaxStats
    /\ runner' = [runner EXCEPT !.window = @ + 1]
    /\ Send(<<[t |-> "stats", cursor |-> runner.seq + 1, window |-> runner.window + 1]>>)
    /\ UNCHANGED <<flight, late, session, alarm, viewer, faults, ghost>>

\* The periodic statistics of the production runner.
PushStats ==
    /\ Running /\ Runner = "prod" /\ runner.window < MaxStats
    /\ runner' = [runner EXCEPT !.window = @ + 1]
    /\ Send(<<[t |-> "stats", cursor |-> runner.seq, window |-> runner.window + 1]>>)
    /\ UNCHANGED <<flight, late, session, alarm, viewer, faults, ghost>>

\* A graceful end queues the goodbye and closes the channel behind it.
EndSession ==
    /\ Running /\ ~writer.closed
    /\ runner' = [runner EXCEPT !.pc = "ending"]
    /\ LET posture == IF Runner = "prod" THEN <<[t |-> "risk", switch |-> "engaged"]>> ELSE << >>
       IN  writer' = [writer EXCEPT !.chan = @ \o posture \o <<[t |-> "session-end"]>>, !.closed = TRUE]
    /\ UNCHANGED <<flight, late, session, alarm, viewer, faults, ghost>>

\* A killed runner takes its channel, its buffer and its retries with it; a
\* request under way may still be handled.
Crash ==
    /\ runner.pc \in {"running", "ending"} /\ FaultsLeft
    /\ runner' = [runner EXCEPT !.pc = "down"]
    /\ faults' = faults + 1
    /\ ghost' = [ghost EXCEPT !.dropped = @ \cup RowsOf(flight.batch \o writer.buf \o writer.chan)]
    /\ \/ late' = late
       \/ flight.batch # << >> /\ late' = late \cup {[run |-> runner.run, batch |-> flight.batch]}
    /\ writer' = IdleWriter
    /\ flight' = NoFlight
    /\ UNCHANGED <<session, alarm, viewer>>

-----------------------------------------------------------------------------
(* The writer thread *)

Records(frames) ==
    IF Runner = "prod" THEN Len(frames)
    ELSE FoldLeft(LAMBDA n, f : n + IF f.t \in {"positions", "fills"} THEN Len(f.items) ELSE 0, 0, frames)

Ready == flight.batch = << >> /\ runner.pc \in {"running", "ending"}

\* The batching window since the first buffered frame has elapsed.
WindowElapses ==
    /\ writer.oldest = "young"
    /\ writer' = [writer EXCEPT !.oldest = "due"]
    /\ UNCHANGED <<runner, flight, late, session, alarm, viewer, faults, ghost>>

\* Only prod_trader's writer starts a new batching window after a flush.
OldestAfterFlush(oldest) == IF Runner = "prod" THEN "none" ELSE oldest

Flush(w) ==
    /\ flight' = [batch |-> w.buf, attempt |-> 1, beat |-> FALSE]
    /\ writer' = [w EXCEPT !.buf = << >>, !.oldest = OldestAfterFlush(@)]

Receive ==
    /\ Ready /\ writer.chan # << >>
    /\ LET frame == Head(writer.chan)
           w == [writer EXCEPT !.chan = Tail(@), !.buf = Append(@, frame),
                               !.oldest = IF @ = "none" THEN "young" ELSE @,
                               !.active = @ \/ frame.t = "session-start",
                               !.quiet = IF Runner = "prod" THEN 0 ELSE @]
           due == \/ Runner = "live" /\ Boundary(frame)
                  \/ Records(w.buf) >= FlushRecords
                  \/ w.oldest = "due"
       IN  IF due THEN Flush(w) ELSE writer' = w /\ flight' = flight
    /\ UNCHANGED <<runner, late, session, alarm, viewer, faults, ghost>>

\* A poll that times out, with the batching window elapsed or the channel closed.
FlushDue ==
    /\ Ready /\ writer.chan = << >> /\ writer.buf # << >>
    /\ writer.oldest = "due" \/ writer.closed
    /\ Flush(writer)
    /\ UNCHANGED <<runner, late, session, alarm, viewer, faults, ghost>>

\* live_runner's writer beats only while no batching window is due, and its
\* window, once opened, stays due for good; prod_trader's beats after every
\* interval without a line, whatever comes of it.
BeatDue ==
    /\ writer.quiet >= 1
    /\ Runner = "live" => writer.active /\ writer.buf = << >> /\ writer.oldest # "due"

Heartbeat ==
    /\ Ready /\ writer.chan = << >> /\ ~writer.closed /\ BeatDue
    /\ writer.buf # << >> => writer.oldest # "due"
    /\ flight' = [batch |-> <<[t |-> "heartbeat"]>>, attempt |-> 1, beat |-> TRUE]
    /\ writer' = [writer EXCEPT !.quiet = IF Runner = "prod" THEN 0 ELSE @]
    /\ UNCHANGED <<runner, late, session, alarm, viewer, faults, ghost>>

\* The writer has delivered what it had and ends with its runner.
WriterEnds ==
    /\ runner.pc = "ending" /\ Ready /\ writer.chan = << >> /\ writer.buf = << >>
    /\ runner' = [runner EXCEPT !.pc = "down"]
    /\ writer' = IdleWriter
    /\ UNCHANGED <<flight, late, session, alarm, viewer, faults, ghost>>

-----------------------------------------------------------------------------
(* The room *)

Broadcast(v, frames) == IF v.open THEN [v EXCEPT !.inbox = @ \o frames] ELSE v

EnsureStaleAlarm == IF alarm = Unscheduled THEN AlarmAfter ELSE alarm

\* One line: after an end only a session-start is taken.  The relayed rows are
\* those of the last positions frame.
IngestLine(acc, frame) ==
    IF ~acc.ok \/ (acc.s.status = "ended" /\ frame.t # "session-start")
    THEN [acc EXCEPT !.ok = FALSE]
    ELSE [ok |-> TRUE, s |-> Applied(acc.s, frame),
          started |-> acc.started \/ frame.t = "session-start",
          relay |-> IF frame.t = "positions" THEN <<frame>> ELSE acc.relay]

\* Before the first line of a request.
Unread(s) == [ok |-> TRUE, s |-> s, started |-> FALSE, relay |-> << >>]

\* The lines of a request, one by one, until one is refused.
Ingest(s, batch) ==
    LET upTo[n \in 0 .. Len(batch)] ==
            IF n = 0 THEN Unread(s) ELSE IngestLine(upTo[n - 1], batch[n])
    IN  upTo[Len(batch)]

\* A request refused part-way keeps what it applied and tells nobody.
Handle(done) ==
    /\ session' = done.s
    /\ IF done.ok
       THEN /\ viewer' = Broadcast(viewer,
                           Append(IF done.started THEN <<SnapshotFrame(done.s, -1)>> ELSE done.relay,
                                  TotalsFrame(done.s)))
            /\ alarm' = EnsureStaleAlarm
       ELSE UNCHANGED <<viewer, alarm>>
    /\ Len(viewer.inbox) <= MaxInbox

\* A failed attempt is retried until the attempts are used up; then the batch
\* is dropped, and counted.
Retry ==
    IF flight.attempt < MaxAttempts
    THEN /\ flight' = [flight EXCEPT !.attempt = @ + 1]
         /\ UNCHANGED ghost
    ELSE /\ flight' = NoFlight
         /\ ghost' = [ghost EXCEPT !.dropped = @ \cup RowsOf(flight.batch),
                                   !.astray = @ \/ Has(flight.batch, "session-start")]

\* The request is handled and its answer arrives: 204, or the error of a refusal.
Answered ==
    /\ flight.batch # << >>
    /\ LET done == Ingest(session, flight.batch)
       IN  /\ Handle(done)
           /\ IF done.ok
              THEN /\ flight' = NoFlight
                   /\ writer' = [writer EXCEPT !.quiet = IF Runner = "live" THEN 0 ELSE @]
                   /\ UNCHANGED ghost
              ELSE Retry /\ UNCHANGED writer
    /\ UNCHANGED <<runner, late, faults>>

\* The answer is lost, or the request is, or the runner stops waiting for it.
Failed ==
    /\ flight.batch # << >> /\ FaultsLeft
    /\ \/ Handle(Ingest(session, flight.batch)) /\ UNCHANGED late
       \/ UNCHANGED <<session, alarm, viewer, late>>
       \/ /\ late' = late \cup {[run |-> runner.run, batch |-> flight.batch]}
          /\ UNCHANGED <<session, alarm, viewer>>
    /\ Retry
    /\ faults' = faults + 1
    /\ UNCHANGED <<runner, writer>>

\* A request its runner gave up reaches the room after all.  It overtakes a
\* session boundary when it belongs to an earlier run or opens one again.
Straggler(request) ==
    /\ late' = late \ {request}
    /\ Handle(Ingest(session, request.batch))
    /\ ghost' = [ghost EXCEPT !.astray = \/ @
                                            \/ request.run # runner.run
                                            \/ Has(request.batch, "session-start")]
    /\ UNCHANGED <<runner, writer, flight, faults>>

\* Mutant: a check that finds the session live schedules no other.
AlarmFiresOnce ==
    /\ alarm = 0
    /\ LET s == MarkStaleIfExpired(session)
       IN  /\ session' = s
           /\ viewer' = IF s # session THEN Broadcast(viewer, <<TotalsFrame(s)>>) ELSE viewer
           /\ alarm' = Unscheduled
    /\ UNCHANGED <<runner, writer, flight, late, faults, ghost>>

\* Mutant: staleness is noted and told to nobody.
AlarmFiresQuietly ==
    /\ alarm = 0
    /\ session' = MarkStaleIfExpired(session)
    /\ alarm' = IF session'.status = "live" THEN AlarmAfter ELSE Unscheduled
    /\ UNCHANGED <<runner, writer, flight, late, viewer, faults, ghost>>

\* The scheduled check: an expired session turns stale, a live one is checked again.
AlarmFires ==
    /\ alarm = 0
    /\ LET s == MarkStaleIfExpired(session)
       IN  /\ session' = s
           /\ viewer' = IF s # session THEN Broadcast(viewer, <<TotalsFrame(s)>>) ELSE viewer
           /\ alarm' = IF s.status = "live" THEN AlarmAfter ELSE Unscheduled
    /\ UNCHANGED <<runner, writer, flight, late, faults, ghost>>

Cut(v, n) == [v EXCEPT !.open = FALSE, !.ask = NoAsk, !.inbox = SubSeq(@, 1, n)]

\* The room is evicted: everything but its alarm is gone, its sockets close.
RoomRestarts ==
    /\ FaultsLeft /\ session # Fresh
    /\ faults' = faults + 1
    /\ session' = Fresh
    /\ ghost' = [ghost EXCEPT !.wiped = @ \cup {session.counted[i] : i \in 1..Len(session.counted)}]
    /\ \E n \in {0, Len(viewer.inbox)} : viewer' = Cut(viewer, n)
    /\ UNCHANGED <<runner, writer, flight, late, alarm>>

-----------------------------------------------------------------------------
(* The viewer *)

\* A socket opens: the room greets it with everything it holds, the browser
\* asks for what it missed in the run it saw last.
ViewerConnects ==
    /\ ~viewer.open
    /\ viewer' = [viewer EXCEPT !.open = TRUE,
                                !.inbox = @ \o <<[t |-> "hello"], SnapshotFrame(session, -1)>>,
                                !.ask = IF viewer.resume.run = NoRun THEN NoAsk ELSE viewer.resume.seq]
    /\ UNCHANGED <<runner, writer, flight, late, session, alarm, faults, ghost>>

RoomResumes ==
    /\ viewer.open /\ viewer.ask # NoAsk
    /\ viewer' = [viewer EXCEPT !.inbox = Append(@, SnapshotFrame(session, viewer.ask)), !.ask = NoAsk]
    /\ UNCHANGED <<runner, writer, flight, late, session, alarm, faults, ghost>>

\* The render timer applies everything that has arrived.
ViewerFlushes ==
    /\ viewer.inbox # << >>
    /\ LET shows == Seen(viewer.shows, viewer.inbox)
       IN  viewer' = [viewer EXCEPT !.inbox = << >>, !.shows = shows,
                                   !.resume = ResumeAfter(@, shows)]
    /\ UNCHANGED <<runner, writer, flight, late, session, alarm, faults, ghost>>

ViewerLost ==
    /\ viewer.open /\ FaultsLeft
    /\ faults' = faults + 1
    /\ \E n \in {0, Len(viewer.inbox)} : viewer' = Cut(viewer, n)
    /\ UNCHANGED <<runner, writer, flight, late, session, alarm, ghost>>

-----------------------------------------------------------------------------
(* Time *)

\* Everything due happens within its tick; only a delivery that has failed
\* before may last longer (its requests time out).
NothingDue ==
    /\ alarm # 0 /\ viewer.inbox = << >> /\ viewer.ask = NoAsk
    /\ writer.oldest # "young"
    /\ \/ runner.pc = "down"
       \/ flight.attempt > 1
       \/ Ready /\ runner.pc = "running" /\ writer.chan = << >> /\ writer.buf = << >> /\ ~BeatDue

Tick ==
    /\ NothingDue
    /\ session' = [session EXCEPT !.age = IF session.status = "live" /\ @ < StaleAfter THEN @ + 1 ELSE @]
    /\ alarm' = IF alarm = Unscheduled THEN alarm ELSE alarm - 1
    /\ writer' = [writer EXCEPT !.quiet = IF runner.pc = "down" THEN @ ELSE 1]
    /\ UNCHANGED <<runner, flight, late, viewer, faults, ghost>>

RunnerNext ==
    \/ Launch \/ (\E k \in 0..MaxRows : Window(k)) \/ (\E n \in 0..MaxRows : Trade(n)) \/ Settle
    \/ PushStats \/ EndSession \/ Crash

WriterNext == WindowElapses \/ Receive \/ FlushDue \/ Heartbeat \/ WriterEnds \/ Answered \/ Failed

RoomNext == (\E request \in late : Straggler(request)) \/ AlarmFires \/ RoomRestarts

ViewerNext == ViewerConnects \/ RoomResumes \/ ViewerFlushes \/ ViewerLost

Next == RunnerNext \/ WriterNext \/ RoomNext \/ ViewerNext \/ Tick

Spec == Init /\ [][Next]_vars

\* Time passes, the platform runs a due alarm and the browser's timers.
Progress == Tick \/ AlarmFires \/ RoomResumes \/ ViewerFlushes

FairSpec == Spec /\ WF_vars(Progress)

-----------------------------------------------------------------------------
(* Properties *)

Counted == {session.counted[i] : i \in 1..Len(session.counted)}
Pending == RowsOf(flight.batch \o writer.buf \o writer.chan)
Increasing(rows) == \A i, j \in 1..Len(rows) : i < j => rows[i].seq < rows[j].seq

\* The components keep to their values and limits.
TypeOK ==
    /\ runner.pc \in {"down", "running", "ending"}
    /\ writer.chan \o writer.buf \o flight.batch \in Seq(RunnerFrames)
    /\ viewer.inbox \in Seq(ViewerFrames)
    /\ writer.oldest \in {"none", "young", "due"} /\ writer.quiet \in 0..1
    /\ flight.attempt \in 0..MaxAttempts
    /\ session.status \in Statuses /\ session.age \in 0..StaleAfter
    /\ Len(session.ring) <= RingCap /\ Len(session.fills) <= FillCap
    /\ alarm \in Unscheduled..AlarmAfter
    /\ viewer.shows.status \in Statuses /\ Len(viewer.shows.items) <= MaxItems

\* However often a batch is retried, answered in vain or handled late, the room
\* counts a row once, in order, and its ring is the tail of what it counted
\* (PositionSession.apply, pushRing).
CountedOnce ==
    /\ Increasing(session.counted)
    /\ session.ring = Newest(session.counted, RingCap)

\* A row the runner sent and the room lacks is still on its way, or was dropped
\* by the writer (which counts it), or went with an evicted room: the gaps are
\* the reported ones, as long as no boundary went astray (deliver_batch,
\* StreamSummary).
GapsAreReported ==
    Runner = "prod" /\ ~ghost.astray =>
        {row \in ghost.sent : row.run = runner.run}
            \subseteq Counted \cup Pending \cup ghost.dropped \cup ghost.wiped

\* A connected viewer that has applied what it was sent shows the room's run,
\* status and totals, across session boundaries, staleness, retries and
\* reconnections (handleIngest, alarm, handleViewer, applyLiveFrame).
ViewerAgrees ==
    viewer.open /\ viewer.inbox = << >> =>
        /\ viewer.shows.run = session.run
        /\ viewer.shows.status = session.status
        /\ viewer.shows.totals = session.counted

\* Snapshots, relayed rows and resume replays never put a row on screen twice
\* or out of order (applyLiveFrame).
NoRowTwiceOnScreen == Increasing(viewer.shows.items)

\* While deliveries succeed and the runner runs, its session is not called
\* stale: heartbeats bridge every silence (spawn_writer, markStaleIfExpired).
NeverFalselyStale ==
    Runner = "prod" /\ session.run = runner.run /\ session.status = "stale" =>
        faults > 0 \/ ~Running

\* The silence of a runner that is gone does not go unnoticed
\* (ensureStaleAlarm, alarm).
SilenceIsNoticed ==
    runner.pc = "down" /\ session.status = "live" ~> session.status # "live" \/ Running
=============================================================================
