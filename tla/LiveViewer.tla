------------------------------ MODULE LiveViewer ------------------------------
(***************************************************************************)
(* The browser's side of a live session: the frame reducer of              *)
(* dashboard/src/data/liveSession.ts and the resume cursor of              *)
(* useLiveSession.ts, as operators on a record.  The rows on screen are    *)
(* `items`; the totals are the rows the room says it counted.              *)
(***************************************************************************)
EXTENDS PositionSession

CONSTANT MaxItems  \* rows kept on screen (MAX_ITEMS)

\* The frames a room sends, as the browser's schema lets them through.
ViewerFrames ==
    [t : {"hello"}]
        \cup [t : {"snapshot"}, run : Nat, status : Statuses, risk : {Unknown, "engaged", "disarmed"},
              fills : Seq(FillRecords), counted : Seq(Rows), gauges : Nat, cursor : Int, items : Seq(Rows)]
        \cup [t : {"positions"}, items : Seq(Rows)]
        \cup [t : {"totals"}, status : Statuses, risk : {Unknown, "engaged", "disarmed"},
              counted : Seq(Rows), gauges : Nat, cursor : Int]

NothingSeen == [run |-> NoRun, status |-> "idle", risk |-> Unknown, fills |-> << >>,
                known |-> FALSE, totals |-> << >>, gauges |-> 0, cursor |-> -1, items |-> << >>]

\* An authoritative snapshot is adopted, except that the cursor never falls.
Adopt(v, frame) ==
    [run |-> frame.run, status |-> frame.status, risk |-> frame.risk, fills |-> frame.fills,
     known |-> TRUE, totals |-> frame.counted, gauges |-> frame.gauges,
     cursor |-> Larger(v.cursor, frame.cursor), items |-> Newest(frame.items, MaxItems)]

\* Mutant: relayed rows are shown without looking at the cursor.
ShowAllRows(v, items) == [v EXCEPT !.items = Newest(@ \o items, MaxItems)]

ShowRows(v, items) ==
    LET fresh == RowsAbove(items, v.cursor)
        top   == Max({v.cursor} \cup {fresh[i].seq : i \in 1..Len(fresh)})
    IN  [v EXCEPT !.cursor = top, !.items = Newest(@ \o fresh, MaxItems)]

\* A totals push that repeats status, cursor and totals is not adopted at all,
\* its risk posture and gauges included.
AdoptTotals(v, frame) ==
    LET top == Larger(v.cursor, frame.cursor)
        repeat == /\ v.known /\ v.totals = frame.counted
                  /\ v.status = frame.status /\ v.cursor = top
    IN  IF repeat THEN v
        ELSE [v EXCEPT !.status = frame.status, !.risk = frame.risk, !.known = TRUE,
                       !.totals = frame.counted, !.gauges = frame.gauges, !.cursor = top]

ApplyLiveFrame(v, frame) ==
    CASE frame.t = "hello" -> v
      [] frame.t = "snapshot" -> Adopt(v, frame)
      [] frame.t = "positions" -> ShowRows(v, frame.items)
      [] frame.t = "totals" -> AdoptTotals(v, frame)

\* What a viewer shows after the frames that have arrived.
Seen(v, frames) ==
    LET upTo[n \in 0 .. Len(frames)] ==
            IF n = 0 THEN v ELSE ApplyLiveFrame(upTo[n - 1], frames[n])
    IN  upTo[Len(frames)]

\* What a later reconnection will ask to resume from, kept per run.
ResumeAfter(resume, v) ==
    IF v.run = NoRun THEN resume
    ELSE IF v.run = resume.run THEN [resume EXCEPT !.seq = Larger(@, v.cursor)]
    ELSE [run |-> v.run, seq |-> v.cursor]
=============================================================================
