--------------------------- MODULE PositionSession ---------------------------
(***************************************************************************)
(* The session a room keeps (dashboard/worker/state.ts) as operators on a  *)
(* record.                                                                 *)
(*                                                                         *)
(* A row is a trade record, told apart by its run and its number.  The     *)
(* cumulative numbers of the code (trades, stakes, profits, fees, the four *)
(* classification counters) are sums over the rows it accepted, so the     *)
(* sequence of accepted rows stands for all of them; the gauges of a stats *)
(* frame stand as the window they were taken in.  The clock of the last    *)
(* activity is kept as its age in ticks.                                   *)
(***************************************************************************)
EXTENDS Integers, Sequences, SequencesExt

CONSTANTS
    RingCap,    \* rows kept for viewers (RING_CAPACITY)
    FillCap,    \* fills kept for viewers (FILL_RING_CAPACITY)
    StaleAfter  \* ticks without activity after which a session is stale

Unknown == "unknown"
NoRun == 0  \* no session header yet; runs are numbered from 1

Rows == [run : Nat, seq : Nat]
FillRecords == [order : Nat, venueId : {"given", "none"}, status : {"open", "settled"}]
Statuses == {"idle", "live", "stale", "ended"}

\* The frames the ingest schema lets through.
RunnerFrames ==
    [t : {"session-start"}, run : Nat]
        \cup [t : {"risk"}, switch : {"engaged", "disarmed"}]
        \cup [t : {"fills"}, items : Seq(FillRecords)]
        \cup [t : {"positions"}, items : Seq(Rows)]
        \cup [t : {"stats"}, cursor : Nat, window : Nat]
        \cup [t : {"heartbeat", "session-end"}]

\* What a room holds before any runner has spoken, and after reset().
Fresh == [run |-> NoRun, status |-> "idle", counted |-> << >>, ring |-> << >>,
          cursor |-> -1, risk |-> Unknown, fills |-> << >>,
          windows |-> 0, gauges |-> 0, age |-> 0]

Larger(a, b) == IF a > b THEN a ELSE b

\* The last n entries of s: what remains of a ring after its oldest are spliced off.
Newest(s, n) == SubSeq(s, Larger(1, Len(s) - n + 1), Len(s))

\* A row that the running cursor has passed is dropped; another moves it.
TakeRow(acc, row) ==
    IF row.seq <= acc.next THEN acc
    ELSE [rows |-> Append(acc.rows, row), next |-> row.seq]

\* The rows of a batch that a running cursor has not passed.
FreshRows(items, cursor) ==
    LET upTo[n \in 0 .. Len(items)] ==
            IF n = 0 THEN [rows |-> << >>, next |-> cursor] ELSE TakeRow(upTo[n - 1], items[n])
    IN  upTo[Len(items)]

\* The rows numbered above a given number, in their order.
KeepAbove(kept, row, floor) == IF row.seq > floor THEN Append(kept, row) ELSE kept

RowsAbove(rows, floor) ==
    LET upTo[n \in 0 .. Len(rows)] ==
            IF n = 0 THEN << >> ELSE KeepAbove(upTo[n - 1], rows[n], floor)
    IN  upTo[Len(rows)]

\* Mutant: every row of a batch is counted, whether it came before or not.
WithPositionsAgain(s, items) ==
    [s EXCEPT !.counted = @ \o items, !.cursor = Larger(@, FreshRows(items, @).next),
              !.ring = Newest(@ \o items, RingCap)]

WithPositions(s, items) ==
    LET fresh == FreshRows(items, s.cursor)
    IN  [s EXCEPT !.counted = @ \o fresh.rows,
                  !.cursor = Larger(@, fresh.next),
                  !.ring = Newest(@ \o fresh.rows, RingCap)]

\* A stats frame replaces the gauges and may advance the cursor past rows that
\* were never accepted.
WithStats(s, frame) ==
    [s EXCEPT !.gauges = frame.window,
              !.windows = Larger(@, frame.window),
              !.cursor = Larger(@, frame.cursor)]

FillKey(fill) == <<fill.order, fill.venueId>>

\* A fill takes the place of an earlier report with the same key, as the newest.
Reported(fills, items) ==
    FoldLeft(LAMBDA ring, fill :
                 Append(SelectSeq(ring, LAMBDA old : FillKey(old) # FillKey(fill)), fill),
             fills, items)

WithFills(s, items) == [s EXCEPT !.fills = Newest(Reported(@, items), FillCap)]

\* What one validated frame does; everything but an end (re)opens the session.
Applied(s, frame) ==
    LET next == CASE frame.t = "session-start" -> [Fresh EXCEPT !.run = frame.run, !.status = "live"]
                  [] frame.t = "positions" -> WithPositions(s, frame.items)
                  [] frame.t = "stats" -> WithStats(s, frame)
                  [] frame.t = "heartbeat" -> s
                  [] frame.t = "risk" -> [s EXCEPT !.risk = frame.switch]
                  [] frame.t = "fills" -> WithFills(s, frame.items)
                  [] frame.t = "session-end" -> [s EXCEPT !.status = "ended"]
    IN  [next EXCEPT !.status = IF @ = "ended" THEN @ ELSE "live", !.age = 0]

\* Mutant: a check too early calls a session stale.
ExpiredEarly(s) == s.status = "live" /\ s.age >= StaleAfter - 1

Expired(s) == s.status = "live" /\ s.age >= StaleAfter

MarkStaleIfExpired(s) == IF Expired(s) THEN [s EXCEPT !.status = "stale"] ELSE s

RecordsAfter(s, after) == RowsAbove(s.ring, after)

\* The two frames viewers live on.
SnapshotFrame(s, after) ==
    [t |-> "snapshot", run |-> s.run, status |-> s.status, risk |-> s.risk,
     fills |-> s.fills, counted |-> s.counted, gauges |-> s.gauges,
     cursor |-> s.cursor, items |-> RecordsAfter(s, after)]

TotalsFrame(s) ==
    [t |-> "totals", status |-> s.status, risk |-> s.risk, counted |-> s.counted,
     gauges |-> s.gauges, cursor |-> s.cursor]
=============================================================================
