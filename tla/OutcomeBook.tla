---------------------------- MODULE OutcomeBook ----------------------------
(***************************************************************************)
(* The book of one outcome at one venue (arbkit-core book.rs), as far as   *)
(* staleness and sequencing go: [stale, quoted, seq], quoted telling       *)
(* whether a level is held.  chain, epoch and index are history: the last  *)
(* change applied to the book was change number index of the venue's book, *)
(* received on connection epoch, and chain says that within a connection   *)
(* no change was skipped since the last snapshot.                          *)
(***************************************************************************)
EXTENDS Naturals

NewBook == [stale |-> TRUE, quoted |-> FALSE, seq |-> 0,
            chain |-> TRUE, epoch |-> 0, index |-> 0]

\* levels() is not empty.
InService(b) == ~b.stale /\ b.quoted

MarkStale(b) == [b EXCEPT !.stale = TRUE, !.quoted = FALSE]

ApplySnapshot(b, e) ==
    [stale |-> FALSE, quoted |-> e.some, seq |-> e.seq,
     chain |-> TRUE, epoch |-> e.epoch, index |-> e.index]

\* Mutant of AcceptSeq: later numbers are accepted as well.
AcceptLater(b, seq) == ~b.stale /\ seq > b.seq

\* accept_seq returns true.
AcceptSeq(b, seq) == ~b.stale /\ seq = b.seq + 1

\* A delta: the book becomes its one level, or empty for a delete.
ApplyDelta(b, e) ==
    IF AcceptSeq(b, e.seq)
    THEN [ApplySnapshot(b, e) EXCEPT
            !.chain = b.chain /\ (e.epoch # b.epoch \/ e.index = b.index + 1)]
    ELSE MarkStale(b)
=============================================================================
