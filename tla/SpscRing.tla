------------------------------ MODULE SpscRing ------------------------------
(***************************************************************************)
(* The lock-free single-producer single-consumer ring of                   *)
(* crates/arbkit-engine/src/ring.rs, at the grain of its atomic accesses.  *)
(*                                                                         *)
(* A slot is a turn counter and a payload of several independent atomics,  *)
(* stored and loaded with relaxed ordering, so the fields of one item may  *)
(* become visible, and may be read, in any order.  Which fields an item    *)
(* stores, and how an item is read back from them, is the slot type's      *)
(* business (trait AtomicSlot): the ring is written for any Stores and     *)
(* Load, and correct for those that keep SlotContract.  What the code relies on *)
(* is that a turn is stored with Release after the fields and loaded with  *)
(* Acquire before them: the order of those two accesses relative to the    *)
(* fields is kept here, and nothing else is.                               *)
(*                                                                         *)
(* A failed try_push or try_pop (the turn is not the expected one) changes *)
(* nothing, whether the turn it loaded was the latest or an older one:     *)
(* turns of a slot only grow, so an older turn is never the expected one.  *)
(***************************************************************************)
EXTENDS Naturals, Sequences

CONSTANTS Capacity,   \* power-of-two number of slots
          Fields,     \* the atomics of one payload
          Contents,   \* the numbers they can hold
          Unset,      \* content of a field before its first store
          Values,     \* the items that can be sent
          NoItem,     \* the producer is not inside try_push
          Stores(_),  \* item -> set of [field, content]: AtomicSlot::store
          Load(_)     \* payload -> item: AtomicSlot::load

\* spsc_ring panics unless the capacity is a power of two; for such a
\* capacity the masking head & (capacity - 1) is head % capacity.
ASSUME RingAssumption ==
    /\ Capacity \in Nat \ {0}
    /\ Unset \in Contents
    /\ \A v \in Values : Stores(v) \subseteq [field : Fields, content : Contents]

Payloads == [Fields -> Contents]

\* What the ring needs of its slot type: a payload that holds everything an
\* item stored is read back as that item, whatever the fields the item did not
\* store were left at, and no item stores one field twice.
SlotContract ==
    \A v \in Values :
        /\ \A w1, w2 \in Stores(v) : w1.field = w2.field => w1 = w2
        /\ \A p \in Payloads :
               (\A w \in Stores(v) : p[w.field] = w.content) => Load(p) = v

VARIABLES
    turn,      \* slot index -> the slot's turn (shared)
    payload,   \* slot index -> field -> value (shared)
    head,      \* the producer's next sequence number
    producer,  \* what the producer is doing: phase, item, stores still to make
    tail,      \* the consumer's next sequence number
    consumer,  \* what the consumer is doing: phase, fields read so far
    sent,      \* history: every item whose push returned Ok
    received   \* history: every item returned by try_pop

vars == <<turn, payload, head, producer, tail, consumer, sent, received>>

Slots == 0 .. Capacity - 1

\* The slot of sequence number n (the code's idx).
SlotOf(n) == n % Capacity

Blank == [f \in Fields |-> Unset]

ProducerIdle == [phase |-> "idle", item |-> NoItem, left |-> {}]
ConsumerIdle == [phase |-> "idle", copy |-> Blank, left |-> {}]

\* spsc_ring: slot i starts with turn i and a default payload.
Init ==
    /\ turn = [i \in Slots |-> i]
    /\ payload = [i \in Slots |-> Blank]
    /\ head = 0 /\ tail = 0
    /\ producer = ProducerIdle
    /\ consumer = ConsumerIdle
    /\ sent = <<>> /\ received = <<>>

----------------------------------------------------------------------------
\* Producer::try_push

\* Mutant of IsFull: an ordering test where the code tests equality.
IsFullLoose == turn[SlotOf(head)] > head

\* is_full: the slot at head does not have the producer's turn.
IsFull == turn[SlotOf(head)] # head

\* The Acquire load of the turn finds the slot free.
PushBegin(v) ==
    /\ producer.phase = "idle"
    /\ ~IsFull
    /\ producer' = [phase |-> "store", item |-> v, left |-> Stores(v)]
    /\ UNCHANGED <<turn, payload, head, tail, consumer, sent, received>>

\* payload.store: one of the relaxed field stores takes effect.
PushStore ==
    /\ producer.phase = "store"
    /\ \E w \in producer.left :
           /\ payload' = [payload EXCEPT ![SlotOf(head)][w.field] = w.content]
           /\ producer' = [producer EXCEPT !.left = @ \ {w}]
    /\ UNCHANGED <<turn, head, tail, consumer, sent, received>>

\* Mutant of PushPublish: the turn is left one behind.
PushPublishSameTurn ==
    /\ producer.phase = "store"
    /\ producer.left = {}
    /\ turn' = [turn EXCEPT ![SlotOf(head)] = head]
    /\ head' = head + 1
    /\ sent' = Append(sent, producer.item)
    /\ producer' = ProducerIdle
    /\ UNCHANGED <<payload, tail, consumer, received>>

\* The Release store of the turn, after every field store; Ok(()).
PushPublish ==
    /\ producer.phase = "store"
    /\ producer.left = {}
    /\ turn' = [turn EXCEPT ![SlotOf(head)] = head + 1]
    /\ head' = head + 1
    /\ sent' = Append(sent, producer.item)
    /\ producer' = ProducerIdle
    /\ UNCHANGED <<payload, tail, consumer, received>>

----------------------------------------------------------------------------
\* Consumer::try_pop

\* is_empty: the slot at tail has not been published for this round.
IsEmpty == turn[SlotOf(tail)] # tail + 1

\* The Acquire load of the turn finds a published item.
PopBegin ==
    /\ consumer.phase = "idle"
    /\ ~IsEmpty
    /\ consumer' = [phase |-> "load", copy |-> Blank, left |-> Fields]
    /\ UNCHANGED <<turn, payload, head, producer, tail, sent, received>>

\* payload.load: one of the relaxed field loads.
PopLoad ==
    /\ consumer.phase = "load"
    /\ \E f \in consumer.left :
           consumer' = [consumer EXCEPT !.copy[f] = payload[SlotOf(tail)][f],
                                        !.left = @ \ {f}]
    /\ UNCHANGED <<turn, payload, head, producer, tail, sent, received>>

\* Mutants of PopRelease: the slot is not advanced to the next round; the
\* next slot is released instead of the one just read.
PopReleaseNoWrap ==
    /\ consumer.phase = "load"
    /\ consumer.left = {}
    /\ turn' = [turn EXCEPT ![SlotOf(tail)] = tail + 1]
    /\ tail' = tail + 1
    /\ received' = Append(received, Load(consumer.copy))
    /\ consumer' = ConsumerIdle
    /\ UNCHANGED <<payload, head, producer, sent>>

PopReleaseNextSlot ==
    /\ consumer.phase = "load"
    /\ consumer.left = {}
    /\ turn' = [turn EXCEPT ![SlotOf(tail + 1)] = tail + 1 + Capacity]
    /\ tail' = tail + 1
    /\ received' = Append(received, Load(consumer.copy))
    /\ consumer' = ConsumerIdle
    /\ UNCHANGED <<payload, head, producer, sent>>

\* The Release store that hands the slot back to the producer; Some(item).
PopRelease ==
    /\ consumer.phase = "load"
    /\ consumer.left = {}
    /\ turn' = [turn EXCEPT ![SlotOf(tail)] = tail + Capacity]
    /\ tail' = tail + 1
    /\ received' = Append(received, Load(consumer.copy))
    /\ consumer' = ConsumerIdle
    /\ UNCHANGED <<payload, head, producer, sent>>

----------------------------------------------------------------------------
Produce == PushPublish \/ PushStore
Consume == PopBegin \/ PopRelease \/ PopLoad

Next == Produce \/ Consume \/ \E v \in Values : PushBegin(v)

Spec == Init /\ [][Next]_vars

\* The consumer thread polls in a loop, and a thread inside try_push keeps
\* running; nobody has to push.
Fairness == WF_vars(Produce) /\ WF_vars(Consume)

FairSpec == Spec /\ Fairness

----------------------------------------------------------------------------
\* Type invariant.
TypeOK ==
    /\ turn \in [Slots -> Nat]
    /\ payload \in [Slots -> Payloads]
    /\ head \in Nat /\ tail \in Nat
    /\ producer \in [phase : {"idle", "store"}, item : Values \cup {NoItem},
                     left : SUBSET [field : Fields, content : Contents]]
    /\ consumer \in [phase : {"idle", "load"}, copy : Payloads, left : SUBSET Fields]
    /\ sent \in Seq(Values)
    /\ received \in Seq(Values)

\* try_pop returns exactly the items pushed, in order and once each: no item
\* is torn between two pushes, mixed with what its slot held before, lost,
\* repeated or reordered, however the field stores of one thread interleave
\* with the field loads of the other (ring.rs:8-12, test_cross_thread_spsc).
FifoDelivery ==
    /\ Len(received) <= Len(sent)
    /\ \A i \in 1 .. Len(received) : received[i] = sent[i]

\* The two threads are never inside the payload of the same slot: the
\* relaxed field accesses are protected by the turn alone.
SlotExclusion ==
    ~ ( /\ producer.phase = "store" /\ consumer.phase = "load"
        /\ SlotOf(head) = SlotOf(tail) )

\* is_full is exact in both directions whenever the producer asks and sees
\* the slot's latest turn: it is true when Capacity items are unread and false
\* once a pop has freed a slot.
FullIsExact ==
    producer.phase = "idle" => (IsFull <=> Len(sent) - Len(received) = Capacity)

\* is_empty is exact whenever the consumer asks and sees the latest turn.
EmptyIsExact ==
    consumer.phase = "idle" => (IsEmpty <=> Len(sent) = Len(received))

\* A caller that saw room (is_full false) or an item (is_empty false) keeps
\* it until it acts itself: the other thread cannot take it away.
RoomAndItemsAreStable ==
    [][/\ ~IsFull /\ head' = head => ~IsFull'
       /\ ~IsEmpty /\ tail' = tail => ~IsEmpty']_vars

\* Both answers are exact whenever their thread asks (is_full, is_empty).
AnswersAreExact == FullIsExact /\ EmptyIsExact

\* Abstract channel the ring implements.
Fifo == INSTANCE BoundedFifo WITH in <- sent, out <- received

\* The ring implements the bounded FIFO channel.
ImplementsFifo == Fifo!FifoSpec
=============================================================================
