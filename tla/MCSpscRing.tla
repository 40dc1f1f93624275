----------------------------- MODULE MCSpscRing -----------------------------
(***************************************************************************)
(* Bounded instance of SpscRing with the feed event slot as its payload.   *)
(* The items agree on the fields left out (venue, market, sequence number, *)
(* time and levels), which stay as they start in every slot.               *)
(***************************************************************************)
EXTENDS SpscRing, EventSlots

CONSTANTS MaxItems   \* bound on the sequence numbers the producer uses

SlotFields == {"kind", "outcome_id", "num_levels", "extra_flags"} \X {0}

\* An empty book, a deletion in the book of outcome 1, a halt of that
\* outcome, a halt of the whole market and a heartbeat: each leaves other fields
\* of its slot alone.
Snapshot == [kind |-> "Snapshot", venue_id |-> 0, market_id |-> 0, outcome_id |-> 0,
             seq |-> 0, timestamp_ns |-> 0, levels |-> <<>>]

Deletion == [kind |-> "Delta", venue_id |-> 0, market_id |-> 0, outcome_id |-> 1,
             seq |-> 0, timestamp_ns |-> 0, level |-> [price |-> CERTAIN, size |-> 0],
             is_delete |-> TRUE]

HaltOf(outcome) == [kind |-> "Halt", venue_id |-> 0, market_id |-> 0,
                    outcome_id |-> outcome, timestamp_ns |-> 0, reason_code |-> 2]

Heartbeat == [kind |-> "Heartbeat", venue_id |-> 0, timestamp_ns |-> 0]

Events == {Snapshot, Deletion, HaltOf(1), HaltOf(NoOutcome), Heartbeat}

EventStores(e) == {w \in FeedStores(e) : w.field \in SlotFields}

EventLoad(p) == FeedLoad([f \in FeedFields |-> IF f \in SlotFields THEN p[f] ELSE 0])

BoundedPush == head < MaxItems /\ \E v \in Values : PushBegin(v)

MCNext == Produce \/ Consume \/ BoundedPush

MCSpec == Init /\ [][MCNext]_vars /\ Fairness

\* Every item whose push returned Ok is eventually returned by a pop, as long
\* as the consumer thread keeps polling.
EveryItemDelivered ==
    \A n \in 1 .. MaxItems : (Len(sent) = n) ~> (Len(received) >= n)
=============================================================================
