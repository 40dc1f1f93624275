--------------------------- MODULE SpscRingProofs ---------------------------
(***************************************************************************)
(* Safety of the SPSC ring for every capacity of at least two and every    *)
(* slot type that keeps the ring's contract; and the two slot types of the *)
(* engine (EventSlots) keep it, whatever the slot held before.             *)
(***************************************************************************)
EXTENDS SpscRing, EventSlots, Integers, TLAPS

\* Payload p holds every field that item v stores.
Carries(p, v) == \A w \in Stores(v) : p[w.field] = w.content

\* How the counters relate to the histories: at most Capacity items unread.
Counters ==
    /\ head = Len(sent) /\ tail = Len(received)
    /\ tail <= head /\ head <= tail + Capacity

\* The turn of each of the Capacity sequence numbers in play: published and
\* unread ones carry n + 1, free ones carry n.
Turns ==
    /\ \A n \in Nat : tail <= n /\ n < head => turn[SlotOf(n)] = n + 1
    /\ \A n \in Nat : head <= n /\ n < tail + Capacity => turn[SlotOf(n)] = n

\* The payload of a published and unread item is complete.
Published ==
    \A n \in Nat : tail <= n /\ n < head => Carries(payload[SlotOf(n)], sent[n + 1])

\* Inside try_push the slot at head is free and holds the fields stored so far.
Producing ==
    producer.phase = "store" =>
        /\ head < tail + Capacity
        /\ producer.item \in Values
        /\ producer.left \subseteq Stores(producer.item)
        /\ \A w \in Stores(producer.item) \ producer.left :
               payload[SlotOf(head)][w.field] = w.content

\* Inside try_pop the slot at tail is published and the fields read so far
\* that its item stores are its item's.
Consuming ==
    consumer.phase = "load" =>
        /\ tail < head
        /\ \A w \in Stores(sent[tail + 1]) :
               w.field \notin consumer.left => consumer.copy[w.field] = w.content

RingInv ==
    TypeOK /\ Counters /\ Turns /\ Published /\ Producing /\ Consuming /\ FifoDelivery

----------------------------------------------------------------------------
\* Quotient and remainder of a sequence number.
LEMMA Division ==
    ASSUME NEW n \in Nat
    PROVE  /\ n \div Capacity \in Nat
           /\ n % Capacity \in 0 .. Capacity - 1
           /\ n = Capacity * (n \div Capacity) + (n % Capacity)
<1>1. Capacity \in Int /\ Capacity > 0
  BY RingAssumption
<1>2. n = Capacity * (n \div Capacity) + (n % Capacity)
  BY <1>1
<1>3. n % Capacity \in 0 .. Capacity - 1
  BY <1>1
<1>4. n \div Capacity \in Nat
  BY <1>1
<1> QED BY <1>2, <1>3, <1>4

\* A remainder is a slot index.
LEMMA SlotType == \A n \in Nat : SlotOf(n) \in Slots
BY Division DEF SlotOf, Slots

\* Two sequence numbers less than Capacity apart use different slots.
LEMMA SlotsDiffer ==
    ASSUME NEW m \in Nat, NEW n \in Nat, m < n, n < m + Capacity
    PROVE  SlotOf(m) # SlotOf(n)
<1> DEFINE qm == m \div Capacity
           qn == n \div Capacity
<1>0. Capacity \in Nat
  BY RingAssumption
<1> SUFFICES ASSUME m % Capacity = n % Capacity PROVE FALSE
  BY DEF SlotOf
<1>1. qm \in Nat /\ qn \in Nat
  BY Division
<1>2. n - m = Capacity * qn - Capacity * qm
  BY <1>0, <1>1, Division
<1> HIDE DEF qm, qn
<1>3. n - m = Capacity * (qn - qm)
  BY <1>0, <1>1, <1>2
<1>4. CASE qn - qm <= 0
  BY <1>0, <1>1, <1>3, <1>4
<1>5. CASE qn - qm >= 1
  BY <1>0, <1>1, <1>3, <1>5
<1> QED BY <1>1, <1>4, <1>5

\* Sequence numbers Capacity apart share a slot.
LEMMA SlotWraps ==
    ASSUME NEW n \in Nat
    PROVE  SlotOf(n + Capacity) = SlotOf(n)
<1> DEFINE q == n \div Capacity
           p == (n + Capacity) \div Capacity
           r == n % Capacity
           s == (n + Capacity) % Capacity
<1>0. Capacity \in Nat /\ Capacity > 0 /\ n + Capacity \in Nat
  BY RingAssumption
<1>1. /\ q \in Nat /\ r \in 0 .. Capacity - 1 /\ n = Capacity * q + r
  BY Division
<1>2. /\ p \in Nat /\ s \in 0 .. Capacity - 1 /\ n + Capacity = Capacity * p + s
  BY <1>0, Division
<1> SUFFICES r = s
  BY DEF SlotOf
<1> HIDE DEF q, p, r, s
<1>3. s - r = Capacity * (q + 1 - p)
  BY <1>0, <1>1, <1>2
<1>4. CASE q + 1 - p <= -1
  BY <1>0, <1>1, <1>2, <1>3, <1>4
<1>5. CASE q + 1 - p = 0
  BY <1>0, <1>1, <1>2, <1>3, <1>5
<1>6. CASE q + 1 - p >= 1
  BY <1>0, <1>1, <1>2, <1>3, <1>6
<1> QED BY <1>1, <1>2, <1>4, <1>5, <1>6

----------------------------------------------------------------------------
\* The inductive invariant holds initially.
LEMMA InitInv == Init => RingInv
<1> SUFFICES ASSUME Init PROVE RingInv
  OBVIOUS
<1> USE RingAssumption DEF Init, ProducerIdle, ConsumerIdle
<1>1. Blank \in Payloads
  BY DEF Blank, Payloads
<1>2. TypeOK
  BY <1>1 DEF TypeOK, Slots
<1>3. Turns
  <2> SUFFICES ASSUME NEW n \in Nat, n < Capacity PROVE turn[SlotOf(n)] = n
    BY DEF Turns
  <2>1. n % Capacity = n
    BY SMT
  <2> QED BY <2>1 DEF SlotOf, Slots
<1>4. Counters /\ Published /\ Producing /\ Consuming /\ FifoDelivery
  BY DEF Counters, Published, Producing, Consuming, FifoDelivery
<1> QED BY <1>2, <1>3, <1>4 DEF RingInv

\* Every step keeps the inductive invariant, provided there are two slots:
\* with a single slot the turn of a full ring and of a free one coincide.
LEMMA NextInv ==
    ASSUME Capacity >= 2, SlotContract, RingInv, [Next]_vars
    PROVE  RingInv'
<1>n. /\ Capacity \in Nat /\ head \in Nat /\ tail \in Nat
      /\ tail <= head /\ head <= tail + Capacity
  BY RingAssumption DEF RingInv, TypeOK, Counters
<1>s. /\ \A n \in Nat : SlotOf(n) \in Slots
      /\ SlotOf(head) \in Slots /\ SlotOf(tail) \in Slots
      /\ turn \in [Slots -> Nat] /\ payload \in [Slots -> Payloads]
  BY <1>n, SlotType DEF RingInv, TypeOK
<1>0. /\ TypeOK /\ Counters /\ Turns /\ Published /\ Producing /\ Consuming
      /\ FifoDelivery
  BY DEF RingInv
<1>1. ASSUME NEW v \in Values, PushBegin(v) PROVE RingInv'
  <2>1. head < tail + Capacity
    <3> SUFFICES ASSUME head = tail + Capacity PROVE FALSE
      BY <1>n
    <3>1. SlotOf(head) = SlotOf(tail)
      BY <1>n, SlotWraps
    <3>2. turn[SlotOf(tail)] = tail + 1
      BY <1>0, <1>n, Capacity >= 2 DEF Turns
    <3> QED BY <1>n, <1>1, <3>1, <3>2, Capacity >= 2 DEF PushBegin, IsFull
  <2>2. TypeOK'
    BY <1>0, <1>1, RingAssumption DEF TypeOK, PushBegin
  <2> QED BY <1>0, <1>1, <2>1, <2>2
          DEF RingInv, PushBegin, Counters, Turns, Published, Producing, Consuming,
              FifoDelivery
<1>2. CASE PushStore
  <2> USE <1>2 DEF PushStore
  <2>0. PICK w \in producer.left :
            /\ payload' = [payload EXCEPT ![SlotOf(head)][w.field] = w.content]
            /\ producer' = [producer EXCEPT !.left = @ \ {w}]
    OBVIOUS
  <2>1. /\ head < tail + Capacity /\ producer.item \in Values
        /\ producer.left \subseteq Stores(producer.item)
        /\ \A u \in Stores(producer.item) \ producer.left :
               payload[SlotOf(head)][u.field] = u.content
    BY <1>0 DEF Producing
  <2>2. w \in Stores(producer.item) /\ w.field \in Fields /\ w.content \in Contents
    BY <2>1, RingAssumption
  <2>3. /\ payload' \in [Slots -> Payloads]
        /\ \A i \in Slots : i # SlotOf(head) => payload'[i] = payload[i]
        /\ payload'[SlotOf(head)][w.field] = w.content
        /\ \A g \in Fields : g # w.field =>
               payload'[SlotOf(head)][g] = payload[SlotOf(head)][g]
    BY <1>s, <2>0, <2>2 DEF Payloads
  <2>4. TypeOK'
    BY <1>0, <2>0, <2>3 DEF TypeOK
  <2>5. Published'
    <3>1. \A n \in Nat : tail <= n /\ n < head => payload'[SlotOf(n)] = payload[SlotOf(n)]
      BY <1>n, <1>s, <2>1, <2>3, SlotsDiffer
    <3> QED BY <1>0, <3>1 DEF Published, Carries
  <2>6. Producing'
    <3>1. ASSUME NEW u \in Stores(producer.item), u \notin producer.left \ {w}
          PROVE  payload'[SlotOf(head)][u.field] = u.content
      <4>1. CASE u = w
        BY <2>3, <4>1
      <4>2. CASE u # w
        <5>1. u.field # w.field
          BY <2>1, <2>2, <4>2 DEF SlotContract
        <5>2. u.field \in Fields
          BY <2>1, RingAssumption
        <5> QED BY <2>1, <2>3, <3>1, <4>2, <5>1, <5>2
      <4> QED BY <4>1, <4>2
    <3>2. producer'.item = producer.item /\ producer'.left = producer.left \ {w}
      BY <1>0, <2>0 DEF TypeOK
    <3> QED BY <2>1, <3>1, <3>2 DEF Producing
  <2> QED BY <1>0, <2>4, <2>5, <2>6
          DEF RingInv, Counters, Turns, Consuming, FifoDelivery
<1>3. CASE PushPublish
  <2> USE <1>3 DEF PushPublish, ProducerIdle
  <2>1. /\ head < tail + Capacity /\ producer.item \in Values
        /\ head \in Nat /\ tail \in Nat /\ tail <= head /\ head = Len(sent)
        /\ sent \in Seq(Values)
    BY <1>0 DEF Producing, TypeOK, Counters
  <2>2. TypeOK'
    <3>0. /\ turn' = [turn EXCEPT ![SlotOf(head)] = head + 1]
          /\ head' = head + 1 /\ head + 1 \in Nat
      BY <1>n
    <3>1. turn' \in [Slots -> Nat] /\ head' \in Nat
      BY ONLY <1>s, <3>0
    <3>2. sent' \in Seq(Values)
      BY <2>1
    <3> QED BY <1>0, <3>1, <3>2 DEF TypeOK
  <2>3. Counters'
    BY <1>0, <1>n, <2>1 DEF Counters, TypeOK
  <2>4. \A n \in Nat : tail <= n /\ n < tail + Capacity /\ n # head
                       => SlotOf(n) # SlotOf(head)
    BY <1>n, <2>1, SlotsDiffer
  <2>5. Turns'
    <3>1. /\ turn'[SlotOf(head)] = head + 1
          /\ \A n \in Nat : SlotOf(n) # SlotOf(head) => turn'[SlotOf(n)] = turn[SlotOf(n)]
      BY <1>s
    <3>2. ASSUME NEW n \in Nat, tail <= n, n < head + 1
          PROVE  turn'[SlotOf(n)] = n + 1
      <4>1. CASE n = head
        BY <3>1, <4>1
      <4>2. CASE n # head
        BY <1>0, <1>n, <2>1, <2>4, <3>1, <3>2, <4>2 DEF Turns
      <4> QED BY <4>1, <4>2
    <3>3. ASSUME NEW n \in Nat, head + 1 <= n, n < tail + Capacity
          PROVE  turn'[SlotOf(n)] = n
      BY <1>0, <1>n, <2>4, <3>1, <3>3 DEF Turns
    <3> QED BY <3>2, <3>3 DEF Turns
  <2>6. \A i \in 1 .. Len(sent) : sent'[i] = sent[i]
    BY <2>1
  <2>7. sent'[head + 1] = producer.item
    BY <2>1
  <2>8. Carries(payload[SlotOf(head)], producer.item)
    BY <1>0 DEF Producing, Carries
  <2>9. Published'
    <3> SUFFICES ASSUME NEW n \in Nat, tail <= n, n < head + 1
                 PROVE  Carries(payload[SlotOf(n)], sent'[n + 1])
      BY DEF Published, Carries
    <3>1. CASE n = head
      BY <2>7, <2>8, <3>1
    <3>2. CASE n < head
      <4>1. sent'[n + 1] = sent[n + 1]
        BY <2>1, <2>6, <3>2
      <4> QED BY <1>0, <3>2, <4>1 DEF Published
    <3> QED BY <1>n, <2>1, <3>1, <3>2
  <2>10. Consuming'
    BY <1>0, <2>1, <2>6 DEF Consuming
  <2>11. FifoDelivery'
    <3>1. Len(sent') = Len(sent) + 1 /\ Len(received) \in Nat /\ Len(sent) \in Nat
      BY <1>0, <2>1 DEF TypeOK
    <3>2. ASSUME NEW i \in 1 .. Len(received)
          PROVE  received[i] = sent'[i]
      BY <1>0, <2>6, <3>1 DEF FifoDelivery
    <3>3. Len(received) <= Len(sent')
      BY <1>0, <3>1 DEF FifoDelivery
    <3> QED BY <3>2, <3>3 DEF FifoDelivery
  <2> QED BY <2>2, <2>3, <2>5, <2>9, <2>10, <2>11 DEF RingInv, Producing
<1>4. CASE PopBegin
  <2> USE <1>4 DEF PopBegin
  <2>1. tail < head
    <3> SUFFICES ASSUME head = tail PROVE FALSE
      BY <1>n
    <3>1. turn[SlotOf(tail)] = tail
      BY <1>0, <1>n, Capacity >= 2 DEF Turns
    <3> QED BY <1>n, <3>1 DEF IsEmpty
  <2>2. TypeOK'
    BY <1>0, RingAssumption DEF TypeOK, Blank, Payloads
  <2>3. Consuming'
    <3>1. sent[tail + 1] \in Values
      BY <1>0, <1>n, <2>1 DEF TypeOK, Counters
    <3>2. \A w \in Stores(sent[tail + 1]) : w.field \in Fields
      BY <3>1, RingAssumption
    <3> QED BY <2>1, <3>2 DEF Consuming
  <2> QED BY <1>0, <2>1, <2>2, <2>3
          DEF RingInv, Counters, Turns, Published, Producing, FifoDelivery
<1>5. CASE PopLoad
  <2> USE <1>5 DEF PopLoad
  <2>0. PICK f \in consumer.left :
            consumer' = [consumer EXCEPT !.copy[f] = payload[SlotOf(tail)][f],
                                         !.left = @ \ {f}]
    OBVIOUS
  <2>1. /\ tail < head /\ Carries(payload[SlotOf(tail)], sent[tail + 1])
        /\ f \in Fields /\ consumer.left \subseteq Fields /\ consumer.copy \in Payloads
    BY <1>0, <1>n, <2>0 DEF Consuming, TypeOK, Published
  <2>2. /\ consumer'.phase = consumer.phase
        /\ consumer'.left = consumer.left \ {f}
        /\ consumer'.copy = [consumer.copy EXCEPT ![f] = payload[SlotOf(tail)][f]]
        /\ DOMAIN consumer' = DOMAIN consumer
    BY <1>0, <2>0, <2>1 DEF TypeOK, Payloads
  <2>3. TypeOK'
    <3>1. payload[SlotOf(tail)][f] \in Contents
      BY <1>s, <2>1 DEF Payloads
    <3>2. consumer' \in [phase : {"idle", "load"}, copy : Payloads, left : SUBSET Fields]
      BY <1>0, <2>0, <2>1, <3>1 DEF TypeOK, Payloads
    <3> QED BY <1>0, <3>2 DEF TypeOK
  <2>4. Consuming'
    <3>1. ASSUME NEW w \in Stores(sent[tail + 1]), w.field \notin consumer.left \ {f}
          PROVE  consumer'.copy[w.field] = w.content
      <4>1. sent[tail + 1] \in Values
        BY <1>0, <1>n, <2>1 DEF TypeOK, Counters
      <4>2. w.field \in Fields
        BY <4>1, RingAssumption
      <4>3. CASE w.field = f
        BY <2>1, <2>2, <4>3 DEF Carries, Payloads
      <4>4. CASE w.field # f
        BY <1>0, <2>1, <2>2, <3>1, <4>2, <4>4 DEF Consuming, Payloads
      <4> QED BY <4>3, <4>4
    <3> QED BY <2>1, <2>2, <3>1 DEF Consuming
  <2> QED BY <1>0, <2>3, <2>4
          DEF RingInv, Counters, Turns, Published, Producing, FifoDelivery
<1>6. CASE PopRelease
  <2> USE <1>6 DEF PopRelease, ConsumerIdle
  <2>1. /\ tail < head /\ tail \in Nat /\ head \in Nat /\ head <= tail + Capacity
        /\ head = Len(sent) /\ tail = Len(received) /\ received \in Seq(Values)
        /\ consumer.copy \in Payloads
    BY <1>0 DEF Consuming, TypeOK, Counters
  <2>2. sent[tail + 1] \in Values /\ Load(consumer.copy) = sent[tail + 1]
    <3>1. sent[tail + 1] \in Values
      BY <1>0, <2>1 DEF TypeOK
    <3>2. \A w \in Stores(sent[tail + 1]) : consumer.copy[w.field] = w.content
      BY <1>0 DEF Consuming
    <3> QED BY <2>1, <3>1, <3>2 DEF SlotContract
  <2>3. TypeOK'
    <3>1. Blank \in Payloads
      BY RingAssumption DEF Blank, Payloads
    <3>2. /\ turn' \in [Slots -> Nat] /\ tail' \in Nat
          /\ received' \in Seq(Values)
      BY SMTT(30), <1>n, <1>s, <2>1, <2>2
    <3> QED BY <1>0, <3>1, <3>2 DEF TypeOK
  <2>4. Counters'
    BY <1>0, <1>n, <2>1 DEF Counters
  <2>5. \A n \in Nat : tail + 1 <= n /\ n < tail + Capacity => SlotOf(n) # SlotOf(tail)
    BY <2>1, SlotsDiffer
  <2>6. SlotOf(tail + Capacity) = SlotOf(tail)
    BY <2>1, SlotWraps
  <2>7. Turns'
    <3>0. /\ turn'[SlotOf(tail)] = tail + Capacity
          /\ \A n \in Nat : SlotOf(n) # SlotOf(tail) => turn'[SlotOf(n)] = turn[SlotOf(n)]
      BY <1>s
    <3>1. ASSUME NEW n \in Nat, tail + 1 <= n, n < head
          PROVE  turn'[SlotOf(n)] = n + 1
      BY SMTT(30), <1>0, <1>n, <2>5, <3>0, <3>1 DEF Turns
    <3>2. ASSUME NEW n \in Nat, head <= n, n < tail + 1 + Capacity
          PROVE  turn'[SlotOf(n)] = n
      <4>1. CASE n = tail + Capacity
        BY <2>6, <3>0, <4>1
      <4>2. CASE n < tail + Capacity
        BY <1>0, <1>n, <2>1, <2>5, <3>0, <3>2, <4>2 DEF Turns
      <4>3. n = tail + Capacity \/ n < tail + Capacity
        BY ONLY <1>n, <3>2, n \in Nat
      <4> QED BY <4>1, <4>2, <4>3
    <3> QED BY <2>1, <3>1, <3>2 DEF Turns
  <2>8. Published'
    BY <1>0, <2>1 DEF Published
  <2>9. Producing'
    BY <1>0, <1>n, <2>1 DEF Producing
  <2>10. /\ \A i \in 1 .. tail : received'[i] = received[i]
         /\ received'[tail + 1] = sent[tail + 1]
         /\ Len(received') = tail + 1
    BY <2>1, <2>2
  <2>11. FifoDelivery'
    <3>1. ASSUME NEW i \in 1 .. tail + 1
          PROVE  received'[i] = sent[i]
      <4>1. CASE i = tail + 1
        BY <2>10, <4>1
      <4>2. CASE i # tail + 1
        BY <1>0, <1>n, <2>1, <2>10, <4>2 DEF FifoDelivery
      <4> QED BY <4>1, <4>2
    <3>2. /\ Len(received') = tail + 1 /\ tail + 1 <= Len(sent)
          /\ sent' = sent
      BY <2>1, <2>10
    <3>3. Len(received') <= Len(sent')
      BY <3>2
    <3>4. \A i \in 1 .. Len(received') : received'[i] = sent'[i]
      BY <3>1, <3>2
    <3> QED BY ONLY <3>3, <3>4 DEF FifoDelivery
  <2> QED BY <2>3, <2>4, <2>7, <2>8, <2>9, <2>11 DEF RingInv, Consuming
<1>7. CASE UNCHANGED vars
  BY <1>0, <1>7 DEF vars, RingInv, TypeOK, Counters, Turns, Published, Producing,
                   Consuming, FifoDelivery
<1> QED BY <1>1, <1>2, <1>3, <1>4, <1>5, <1>6, <1>7 DEF Next, Produce, Consume

\* The inductive invariant holds in every reachable state.
THEOREM RingInvariant ==
    ASSUME Capacity >= 2, SlotContract
    PROVE  Spec => []RingInv
<1>1. Init => RingInv
  BY InitInv
<1>2. RingInv /\ [Next]_vars => RingInv'
  BY NextInv
<1> QED BY <1>1, <1>2, PTL DEF Spec

\* Type correctness.
THEOREM TypeCorrect ==
    ASSUME Capacity >= 2, SlotContract
    PROVE  Spec => []TypeOK
BY RingInvariant, PTL DEF RingInv

\* try_pop returns the pushed items, whole, in order and once each.
THEOREM Delivery ==
    ASSUME Capacity >= 2, SlotContract
    PROVE  Spec => []FifoDelivery
BY RingInvariant, PTL DEF RingInv

\* The producer and the consumer are never inside the same slot.
THEOREM Exclusion ==
    ASSUME Capacity >= 2, SlotContract
    PROVE  Spec => []SlotExclusion
<1>1. RingInv => SlotExclusion
  BY SlotsDiffer DEF RingInv, TypeOK, Counters, Producing, Consuming, SlotExclusion
<1> QED BY <1>1, RingInvariant, PTL

\* The turn of the slot at head and the turn of the slot at tail say exactly
\* whether the ring is full and whether it is empty.
Decided ==
    /\ IsFull <=> head = tail + Capacity
    /\ IsEmpty <=> head = tail

LEMMA TurnsDecide ==
    ASSUME Capacity >= 2, RingInv
    PROVE  Decided
<1>1. /\ Capacity \in Nat /\ head \in Nat /\ tail \in Nat
      /\ tail <= head /\ head <= tail + Capacity /\ Turns
  BY RingAssumption DEF RingInv, TypeOK, Counters
<1>2. CASE head = tail + Capacity
  <2>1. SlotOf(head) = SlotOf(tail)
    BY <1>1, <1>2, SlotWraps
  <2>2. turn[SlotOf(tail)] = tail + 1
    BY <1>1, <1>2, Capacity >= 2 DEF Turns
  <2> QED BY <1>1, <1>2, <2>1, <2>2, Capacity >= 2 DEF Decided, IsFull, IsEmpty
<1>3. CASE head < tail + Capacity
  <2>1. turn[SlotOf(head)] = head
    BY <1>1, <1>3 DEF Turns
  <2>2. CASE head = tail
    BY <1>1, <2>1, <2>2, Capacity >= 2 DEF Decided, IsFull, IsEmpty
  <2>3. CASE tail < head
    <3>1. turn[SlotOf(tail)] = tail + 1
      BY <1>1, <2>3 DEF Turns
    <3> QED BY <1>1, <1>3, <2>1, <2>3, <3>1 DEF Decided, IsFull, IsEmpty
  <2> QED BY <1>1, <2>2, <2>3
<1> QED BY <1>1, <1>2, <1>3

\* is_full and is_empty are exact.
THEOREM Exactness ==
    ASSUME Capacity >= 2, SlotContract
    PROVE  Spec => []AnswersAreExact
<1>1. RingInv => AnswersAreExact
  <2> SUFFICES ASSUME RingInv PROVE AnswersAreExact
    OBVIOUS
  <2>1. /\ head = Len(sent) /\ tail = Len(received)
        /\ head \in Nat /\ tail \in Nat /\ Capacity \in Nat
    BY RingAssumption DEF RingInv, Counters, TypeOK
  <2> QED BY <2>1, TurnsDecide DEF Decided, AnswersAreExact, FullIsExact, EmptyIsExact
<1> QED BY <1>1, RingInvariant, PTL

\* Room seen by the producer and items seen by the consumer do not go away
\* before they act on them.
THEOREM Stability ==
    ASSUME Capacity >= 2, SlotContract
    PROVE  Spec => RoomAndItemsAreStable
<1>1. RingInv => Decided
  BY TurnsDecide
<1>2. RingInv /\ RingInv' /\ Decided /\ Decided' /\ [Next]_vars =>
          [/\ ~IsFull /\ head' = head => ~IsFull'
           /\ ~IsEmpty /\ tail' = tail => ~IsEmpty']_vars
  <2> SUFFICES ASSUME RingInv, RingInv', Decided, Decided', [Next]_vars
               PROVE  /\ ~IsFull /\ head' = head => ~IsFull'
                      /\ ~IsEmpty /\ tail' = tail => ~IsEmpty'
    OBVIOUS
  <2>1. /\ IsFull <=> head = tail + Capacity
        /\ IsEmpty <=> head = tail
    BY DEF Decided
  <2>2. /\ IsFull' <=> head' = tail' + Capacity
        /\ IsEmpty' <=> head' = tail'
    BY DEF Decided
  <2>3. /\ head' = head \/ head' = head + 1
        /\ tail' = tail \/ tail' = tail + 1
    BY DEF Next, Produce, Consume, PushBegin, PushStore, PushPublish, PopBegin,
           PopLoad, PopRelease, vars
  <2>4. /\ Capacity \in Nat /\ head \in Nat /\ tail \in Nat
        /\ tail <= head /\ head <= tail + Capacity
        /\ tail' <= head' /\ head' <= tail' + Capacity
    BY RingAssumption DEF RingInv, TypeOK, Counters
  <2> QED BY <2>1, <2>2, <2>3, <2>4
<1> QED BY <1>1, <1>2, RingInvariant, PTL DEF Spec, RoomAndItemsAreStable

\* The ring implements the bounded FIFO channel: publishing a turn is the
\* push, releasing a slot is the pop, and every other step is invisible.
THEOREM Refinement ==
    ASSUME Capacity >= 2, SlotContract
    PROVE  Spec => ImplementsFifo
<1>1. Init => Fifo!FifoInit
  BY DEF Init, Fifo!FifoInit
<1>2. RingInv /\ RingInv' /\ [Next]_vars => [Fifo!FifoNext]_Fifo!fifoVars
  <2> SUFFICES ASSUME RingInv, RingInv', [Next]_vars
               PROVE  [Fifo!FifoNext]_Fifo!fifoVars
    OBVIOUS
  <2>0. /\ sent \in Seq(Values) /\ received \in Seq(Values)
        /\ Len(sent) \in Nat /\ Len(received) \in Nat /\ Capacity \in Nat
        /\ head = Len(sent) /\ tail = Len(received)
    BY RingAssumption DEF RingInv, TypeOK, Counters
  <2>2. CASE PushPublish
    <3>1. producer.item \in Values /\ head < tail + Capacity
      BY <2>2 DEF RingInv, Producing, PushPublish
    <3>2. sent' = Append(sent, producer.item) /\ received' = received
      BY <2>2 DEF PushPublish
    <3>3. Fifo!FifoPush(producer.item)
      BY <2>0, <3>1, <3>2 DEF Fifo!FifoPush
    <3> QED BY <3>1, <3>3 DEF Fifo!FifoNext
  <2>3. CASE PopRelease
    <3>1. /\ tail < head /\ received' = Append(received, Load(consumer.copy))
          /\ sent' = sent
      BY <2>3 DEF RingInv, Consuming, PopRelease
    <3>2. Len(received') = tail + 1 /\ received'[tail + 1] = Load(consumer.copy)
      BY <2>0, <3>1
    <3>3. received'[tail + 1] = sent'[tail + 1]
      BY <2>0, <3>2 DEF RingInv, FifoDelivery
    <3> QED BY <2>0, <3>1, <3>2, <3>3 DEF Fifo!FifoNext, Fifo!FifoPop
  <2>4. CASE sent' = sent /\ received' = received
    BY <2>4 DEF Fifo!fifoVars
  <2> QED BY <2>2, <2>3, <2>4
          DEF Next, Produce, Consume, PushBegin, PushStore, PopBegin, PopLoad, vars
<1> QED BY <1>1, <1>2, RingInvariant, PTL DEF Spec, ImplementsFifo, Fifo!FifoSpec

----------------------------------------------------------------------------
\* The two rings of the engine: feed events in, signals out.
FeedRing == INSTANCE SpscRing WITH
                Fields <- FeedFields, Contents <- Int, Unset <- 0,
                Values <- FeedEvents, Stores <- FeedStores, Load <- FeedLoad

SignalRing == INSTANCE SpscRing WITH
                  Fields <- SignalFields, Contents <- Int, Unset <- 0,
                  Values <- SignalEvents, Stores <- SignalStores, Load <- SignalLoad

\* A trade's side and a leg's fee survive their byte.
LEMMA SideRoundTrip == \A side \in Sides : SideOf(SideByte(side)) = side
BY DEF Sides, SideOf, SideByte

LEMMA FeeRoundTrip == \A fee \in Fees : FeeOf(FeeTag(fee), fee.bps) = fee
<1> SUFFICES ASSUME NEW fee \in Fees PROVE FeeOf(FeeTag(fee), fee.bps) = fee
  OBVIOUS
<1>1. fee \in [kind : FeeKinds, bps : Nat] /\ (fee.kind = "None" => fee.bps = 0)
  BY DEF Fees
<1>2. fee = [kind |-> fee.kind, bps |-> fee.bps]
  BY <1>1
<1> QED BY <1>1, <1>2 DEF FeeKinds, FeeOf, FeeTag

\* A payload that holds a store holds its content at its field.
LEMMA Held ==
    ASSUME NEW p, NEW stores, Holds(p, stores), NEW name, NEW i, NEW x,
           Write(name, i, x) \in stores
    PROVE  p[<<name, i>>] = x
BY DEF Holds, Write

\* A halt, whatever the slot held.
LEMMA HaltRoundTrip ==
    ASSUME NEW e \in HaltEvents, NEW p, Holds(p, FeedStores(e))
    PROVE  FeedLoad(p) = e
<1>1. e = [kind |-> "Halt", venue_id |-> e.venue_id, market_id |-> e.market_id,
           outcome_id |-> e.outcome_id, timestamp_ns |-> e.timestamp_ns,
           reason_code |-> e.reason_code]
  BY DEF HaltEvents
<1>2. Holds(p, HaltStores(e))
  BY <1>1 DEF FeedStores
<1>3. /\ Write("kind", 0, 5) \in HaltStores(e)
      /\ Write("venue_id", 0, e.venue_id) \in HaltStores(e)
      /\ Write("timestamp_ns", 0, e.timestamp_ns) \in HaltStores(e)
      /\ Write("market_id", 0, e.market_id) \in HaltStores(e)
      /\ Write("num_levels", 0, e.reason_code) \in HaltStores(e)
  BY DEF HaltStores, Stamp
<1>4. /\ p[<<"kind", 0>>] = 5 /\ p[<<"venue_id", 0>>] = e.venue_id
      /\ p[<<"timestamp_ns", 0>>] = e.timestamp_ns
      /\ p[<<"market_id", 0>>] = e.market_id
      /\ p[<<"num_levels", 0>>] = e.reason_code
  BY <1>2, <1>3, Held
<1>5. (IF p[<<"extra_flags", 0>>] # 0 THEN p[<<"outcome_id", 0>>] ELSE NoOutcome)
          = e.outcome_id
  <2>1. CASE e.outcome_id = NoOutcome
    <3>1. Write("extra_flags", 0, 0) \in HaltStores(e)
      BY <2>1 DEF HaltStores
    <3> QED BY <1>2, <2>1, <3>1, Held
  <2>2. CASE e.outcome_id # NoOutcome
    <3>1. /\ Write("extra_flags", 0, 1) \in HaltStores(e)
          /\ Write("outcome_id", 0, e.outcome_id) \in HaltStores(e)
      BY <2>2 DEF HaltStores
    <3> QED BY <1>2, <2>2, <3>1, Held
  <2> QED BY <2>1, <2>2
<1> QED BY <1>1, <1>4, <1>5 DEF FeedLoad

\* A change of one level.
LEMMA DeltaRoundTrip ==
    ASSUME NEW e \in DeltaEvents, NEW p, Holds(p, FeedStores(e))
    PROVE  FeedLoad(p) = e
<1>1. e = [kind |-> "Delta", venue_id |-> e.venue_id, market_id |-> e.market_id,
           outcome_id |-> e.outcome_id, seq |-> e.seq,
           timestamp_ns |-> e.timestamp_ns, level |-> e.level,
           is_delete |-> e.is_delete]
  BY DEF DeltaEvents
<1>2. Holds(p, DeltaStores(e))
  BY <1>1 DEF FeedStores
<1> DEFINE flag == IF e.is_delete THEN 1 ELSE 0
<1>3. /\ Write("kind", 0, 2) \in DeltaStores(e)
      /\ Write("venue_id", 0, e.venue_id) \in DeltaStores(e)
      /\ Write("timestamp_ns", 0, e.timestamp_ns) \in DeltaStores(e)
      /\ Write("market_id", 0, e.market_id) \in DeltaStores(e)
      /\ Write("outcome_id", 0, e.outcome_id) \in DeltaStores(e)
      /\ Write("seq", 0, e.seq) \in DeltaStores(e)
      /\ Write("extra_flags", 0, flag) \in DeltaStores(e)
      /\ Write("level_prices", 1, e.level.price) \in DeltaStores(e)
      /\ Write("level_sizes", 1, e.level.size) \in DeltaStores(e)
  BY DEF DeltaStores, Stamp, BookKey, LevelAt
<1>4. /\ p[<<"kind", 0>>] = 2 /\ p[<<"venue_id", 0>>] = e.venue_id
      /\ p[<<"timestamp_ns", 0>>] = e.timestamp_ns
      /\ p[<<"market_id", 0>>] = e.market_id
      /\ p[<<"outcome_id", 0>>] = e.outcome_id
      /\ p[<<"seq", 0>>] = e.seq
      /\ p[<<"extra_flags", 0>>] = flag
      /\ p[<<"level_prices", 1>>] = e.level.price
      /\ p[<<"level_sizes", 1>>] = e.level.size
  BY <1>2, <1>3, Held
<1>5. e.is_delete = (p[<<"extra_flags", 0>>] # 0)
  BY <1>4 DEF DeltaEvents
<1>6. e.level = [price |-> ProbOf(p[<<"level_prices", 1>>]),
                 size |-> p[<<"level_sizes", 1>>]]
  BY <1>4 DEF DeltaEvents, Levels, ProbOf
<1> HIDE DEF flag
<1> QED BY <1>1, <1>4, <1>5, <1>6 DEF FeedLoad

\* A trade.
LEMMA TradeRoundTrip ==
    ASSUME NEW e \in TradeEvents, NEW p, Holds(p, FeedStores(e))
    PROVE  FeedLoad(p) = e
<1>1. e = [kind |-> "Trade", venue_id |-> e.venue_id, market_id |-> e.market_id,
           outcome_id |-> e.outcome_id, seq |-> e.seq,
           timestamp_ns |-> e.timestamp_ns, price |-> e.price, size |-> e.size,
           side |-> e.side]
  BY DEF TradeEvents
<1>2. Holds(p, TradeStores(e))
  BY <1>1 DEF FeedStores
<1>3. /\ Write("kind", 0, 3) \in TradeStores(e)
      /\ Write("venue_id", 0, e.venue_id) \in TradeStores(e)
      /\ Write("timestamp_ns", 0, e.timestamp_ns) \in TradeStores(e)
      /\ Write("market_id", 0, e.market_id) \in TradeStores(e)
      /\ Write("outcome_id", 0, e.outcome_id) \in TradeStores(e)
      /\ Write("seq", 0, e.seq) \in TradeStores(e)
      /\ Write("extra_flags", 0, SideByte(e.side)) \in TradeStores(e)
      /\ Write("level_prices", 1, e.price) \in TradeStores(e)
      /\ Write("level_sizes", 1, e.size) \in TradeStores(e)
  BY DEF TradeStores, Stamp, BookKey, LevelAt
<1>4. /\ p[<<"kind", 0>>] = 3 /\ p[<<"venue_id", 0>>] = e.venue_id
      /\ p[<<"timestamp_ns", 0>>] = e.timestamp_ns
      /\ p[<<"market_id", 0>>] = e.market_id
      /\ p[<<"outcome_id", 0>>] = e.outcome_id
      /\ p[<<"seq", 0>>] = e.seq
      /\ p[<<"extra_flags", 0>>] = SideByte(e.side)
      /\ p[<<"level_prices", 1>>] = e.price
      /\ p[<<"level_sizes", 1>>] = e.size
  BY <1>2, <1>3, Held
<1>5. SideOf(p[<<"extra_flags", 0>>]) = e.side
  BY <1>4, SideRoundTrip DEF TradeEvents
<1>6. ProbOf(p[<<"level_prices", 1>>]) = e.price
  BY <1>4 DEF TradeEvents, ProbOf
<1> QED BY <1>1, <1>4, <1>5, <1>6 DEF FeedLoad

\* A heartbeat.
LEMMA HeartbeatRoundTrip ==
    ASSUME NEW e \in HeartbeatEvents, NEW p, Holds(p, FeedStores(e))
    PROVE  FeedLoad(p) = e
<1>1. e = [kind |-> "Heartbeat", venue_id |-> e.venue_id,
           timestamp_ns |-> e.timestamp_ns]
  BY DEF HeartbeatEvents
<1>2. Holds(p, HeartbeatStores(e))
  BY <1>1 DEF FeedStores
<1>3. /\ Write("kind", 0, 4) \in HeartbeatStores(e)
      /\ Write("venue_id", 0, e.venue_id) \in HeartbeatStores(e)
      /\ Write("timestamp_ns", 0, e.timestamp_ns) \in HeartbeatStores(e)
  BY DEF HeartbeatStores, Stamp
<1>4. /\ p[<<"kind", 0>>] = 4 /\ p[<<"venue_id", 0>>] = e.venue_id
      /\ p[<<"timestamp_ns", 0>>] = e.timestamp_ns
  BY <1>2, <1>3, Held
<1> QED BY <1>1, <1>4 DEF FeedLoad

\* A book of at most MAX_LEVELS levels, whatever deeper levels the slot held.
LEMMA SnapshotRoundTrip ==
    ASSUME NEW e \in SnapshotEvents, NEW p, Holds(p, FeedStores(e))
    PROVE  FeedLoad(p) = e
<1>1. e = [kind |-> "Snapshot", venue_id |-> e.venue_id, market_id |-> e.market_id,
           outcome_id |-> e.outcome_id, seq |-> e.seq,
           timestamp_ns |-> e.timestamp_ns, levels |-> e.levels]
  BY DEF SnapshotEvents
<1>2. Holds(p, SnapshotStores(e))
  BY <1>1 DEF FeedStores
<1>3. PICK n \in 0 .. MAX_LEVELS : e.levels \in [1 .. n -> Levels]
  BY DEF SnapshotEvents, Books
<1>4. n \in Nat /\ n <= MAX_LEVELS /\ Len(e.levels) = n
  BY <1>3 DEF MAX_LEVELS
<1>5. /\ Write("kind", 0, 1) \in SnapshotStores(e)
      /\ Write("venue_id", 0, e.venue_id) \in SnapshotStores(e)
      /\ Write("timestamp_ns", 0, e.timestamp_ns) \in SnapshotStores(e)
      /\ Write("market_id", 0, e.market_id) \in SnapshotStores(e)
      /\ Write("outcome_id", 0, e.outcome_id) \in SnapshotStores(e)
      /\ Write("seq", 0, e.seq) \in SnapshotStores(e)
      /\ Write("num_levels", 0, Len(e.levels)) \in SnapshotStores(e)
  BY DEF SnapshotStores, Stamp, BookKey
<1>6. /\ p[<<"kind", 0>>] = 1 /\ p[<<"venue_id", 0>>] = e.venue_id
      /\ p[<<"timestamp_ns", 0>>] = e.timestamp_ns
      /\ p[<<"market_id", 0>>] = e.market_id
      /\ p[<<"outcome_id", 0>>] = e.outcome_id
      /\ p[<<"seq", 0>>] = e.seq
      /\ p[<<"num_levels", 0>>] = n
  BY <1>2, <1>4, <1>5, Held
<1>7. ASSUME NEW i \in 1 .. n
      PROVE  e.levels[i] = [price |-> ProbOf(p[<<"level_prices", i>>]),
                            size |-> p[<<"level_sizes", i>>]]
  <2>1. /\ Write("level_prices", i, e.levels[i].price) \in SnapshotStores(e)
        /\ Write("level_sizes", i, e.levels[i].size) \in SnapshotStores(e)
    BY <1>4 DEF SnapshotStores
  <2>2. /\ p[<<"level_prices", i>>] = e.levels[i].price
        /\ p[<<"level_sizes", i>>] = e.levels[i].size
    BY <1>2, <2>1, Held
  <2>3. e.levels[i] \in Levels
    BY <1>3
  <2> QED BY <2>2, <2>3 DEF Levels, ProbOf
<1> DEFINE shown == IF n < MAX_LEVELS THEN n ELSE MAX_LEVELS
           read == [i \in 1 .. shown |-> [price |-> ProbOf(p[<<"level_prices", i>>]),
                                          size |-> p[<<"level_sizes", i>>]]]
<1>8. shown = n
  BY <1>4 DEF MAX_LEVELS
<1>9. e.levels = read
  BY <1>3, <1>7, <1>8
<1>10. FeedLoad(p) = [kind |-> "Snapshot", venue_id |-> e.venue_id,
                      market_id |-> e.market_id, outcome_id |-> e.outcome_id,
                      seq |-> e.seq, timestamp_ns |-> e.timestamp_ns, levels |-> read]
  BY <1>6 DEF FeedLoad
<1> QED BY ONLY <1>1, <1>9, <1>10

\* The stores S are of fields of the slot, each stored once.
Stored(S, fields) ==
    /\ S \subseteq [field : fields, content : Int]
    /\ \A w1, w2 \in S : w1.field = w2.field => w1 = w2

LEMMA HaltStored == \A e \in HaltEvents : Stored(HaltStores(e), FeedFields)
BY DEF HaltEvents, HaltStores, Stamp, Write, Stored, FeedFields, NoOutcome

LEMMA HeartbeatStored == \A e \in HeartbeatEvents : Stored(HeartbeatStores(e), FeedFields)
BY DEF HeartbeatEvents, HeartbeatStores, Stamp, Write, Stored, FeedFields

\* What an event about one level of a book stores.
LEMMA LevelStored ==
    ASSUME NEW e, NEW kind \in Int, NEW flags \in Int, NEW price \in Int, NEW size \in Int,
           e.venue_id \in Int, e.timestamp_ns \in Int, e.market_id \in Int,
           e.outcome_id \in Int, e.seq \in Int
    PROVE  Stored(Stamp(e, kind) \cup BookKey(e, 1, flags) \cup LevelAt(1, price, size), FeedFields)
<1> DEFINE S == Stamp(e, kind) \cup BookKey(e, 1, flags) \cup LevelAt(1, price, size)
<1>1. ASSUME NEW w \in S
      PROVE  \/ w.field = <<"kind", 0>> /\ w = Write("kind", 0, kind)
             \/ w.field = <<"venue_id", 0>> /\ w = Write("venue_id", 0, e.venue_id)
             \/ w.field = <<"timestamp_ns", 0>> /\ w = Write("timestamp_ns", 0, e.timestamp_ns)
             \/ w.field = <<"market_id", 0>> /\ w = Write("market_id", 0, e.market_id)
             \/ w.field = <<"outcome_id", 0>> /\ w = Write("outcome_id", 0, e.outcome_id)
             \/ w.field = <<"seq", 0>> /\ w = Write("seq", 0, e.seq)
             \/ w.field = <<"num_levels", 0>> /\ w = Write("num_levels", 0, 1)
             \/ w.field = <<"extra_flags", 0>> /\ w = Write("extra_flags", 0, flags)
             \/ w.field = <<"level_prices", 1>> /\ w = Write("level_prices", 1, price)
             \/ w.field = <<"level_sizes", 1>> /\ w = Write("level_sizes", 1, size)
  BY <1>1 DEF Stamp, BookKey, LevelAt, Write
<1>2. /\ 1 \in 1 .. MAX_LEVELS
      /\ \A name \in {"kind", "venue_id", "timestamp_ns", "market_id", "outcome_id", "seq",
                      "num_levels", "extra_flags"} : <<name, 0>> \in FeedFields
  BY DEF FeedFields, MAX_LEVELS
<1>3. <<"level_prices", 1>> \in FeedFields /\ <<"level_sizes", 1>> \in FeedFields
  BY <1>2 DEF FeedFields
<1>4. \A w \in S : w \in [field : FeedFields, content : Int]
  BY <1>1, <1>2, <1>3 DEF Write
<1>5. \A w1, w2 \in S : w1.field = w2.field => w1 = w2
  <2> HIDE DEF S
  <2> QED BY <1>1
<1> QED BY <1>4, <1>5 DEF Stored

LEMMA TradeStored == \A e \in TradeEvents : Stored(TradeStores(e), FeedFields)
<1> SUFFICES ASSUME NEW e \in TradeEvents PROVE Stored(TradeStores(e), FeedFields)
  OBVIOUS
<1>1. /\ e.venue_id \in Int /\ e.timestamp_ns \in Int /\ e.market_id \in Int
      /\ e.outcome_id \in Int /\ e.seq \in Int /\ e.price \in Int /\ e.size \in Int
      /\ SideByte(e.side) \in Int
  BY DEF TradeEvents, Sides, SideByte, Probs
<1> QED BY <1>1, LevelStored DEF TradeStores

LEMMA DeltaStored == \A e \in DeltaEvents : Stored(DeltaStores(e), FeedFields)
<1> SUFFICES ASSUME NEW e \in DeltaEvents PROVE Stored(DeltaStores(e), FeedFields)
  OBVIOUS
<1>1. /\ e.venue_id \in Int /\ e.timestamp_ns \in Int /\ e.market_id \in Int
      /\ e.outcome_id \in Int /\ e.seq \in Int
      /\ e.level.price \in Int /\ e.level.size \in Int
  BY DEF DeltaEvents, Levels, Probs
<1> QED BY <1>1, LevelStored DEF DeltaStores

LEMMA SnapshotStored == \A e \in SnapshotEvents : Stored(SnapshotStores(e), FeedFields)
<1> SUFFICES ASSUME NEW e \in SnapshotEvents PROVE Stored(SnapshotStores(e), FeedFields)
  OBVIOUS
<1>1. PICK n \in 0 .. MAX_LEVELS : e.levels \in [1 .. n -> Levels]
  BY DEF SnapshotEvents, Books
<1>2. /\ n \in Nat /\ n <= MAX_LEVELS /\ Len(e.levels) = n
      /\ \A i \in 1 .. n : /\ i \in 1 .. MAX_LEVELS
                          /\ e.levels[i].price \in Int /\ e.levels[i].size \in Int
  BY <1>1 DEF MAX_LEVELS, Levels, Probs
<1> QED BY SMTT(30), <1>2 DEF SnapshotEvents, SnapshotStores, Stamp, BookKey, Write, Stored,
                    FeedFields

\* The feed event slot keeps the ring's contract: an event comes out of a slot
\* as it went in, whatever the slot held before.
THEOREM FeedSlotContract ==
    /\ \A e \in FeedEvents : FeedStores(e) \subseteq [field : FeedFields, content : Int]
    /\ FeedRing!SlotContract
<1> SUFFICES ASSUME NEW e \in FeedEvents
             PROVE  /\ Stored(FeedStores(e), FeedFields)
                    /\ \A p : Holds(p, FeedStores(e)) => FeedLoad(p) = e
  BY DEF FeedRing!SlotContract, Stored, Holds
<1>1. CASE e \in SnapshotEvents
  BY <1>1, SnapshotStored, SnapshotRoundTrip DEF FeedStores, SnapshotEvents
<1>2. CASE e \in DeltaEvents
  BY <1>2, DeltaStored, DeltaRoundTrip DEF FeedStores, DeltaEvents
<1>3. CASE e \in TradeEvents
  BY <1>3, TradeStored, TradeRoundTrip DEF FeedStores, TradeEvents
<1>4. CASE e \in HeartbeatEvents
  BY <1>4, HeartbeatStored, HeartbeatRoundTrip DEF FeedStores, HeartbeatEvents
<1>5. CASE e \in HaltEvents
  BY <1>5, HaltStored, HaltRoundTrip DEF FeedStores, HaltEvents
<1> QED BY <1>1, <1>2, <1>3, <1>4, <1>5 DEF FeedEvents

\* A signal's allocations, whatever deeper ones the slot held.
LEMMA AllocationRoundTrip ==
    ASSUME NEW a \in Allocations, NEW i, NEW p, Holds(p, AllocationStores(i, a))
    PROVE  a = [leg |-> p[<<"alloc_leg", i>>], stake |-> p[<<"alloc_stake", i>>],
                payout |-> p[<<"alloc_payout", i>>]]
<1>1. a.leg % 256 = a.leg
  BY DEF Allocations, MAX_CHUNKS
<1>2. /\ Write("alloc_leg", i, a.leg) \in AllocationStores(i, a)
      /\ Write("alloc_stake", i, a.stake) \in AllocationStores(i, a)
      /\ Write("alloc_payout", i, a.payout) \in AllocationStores(i, a)
  BY <1>1 DEF AllocationStores
<1>3. /\ p[<<"alloc_leg", i>>] = a.leg /\ p[<<"alloc_stake", i>>] = a.stake
      /\ p[<<"alloc_payout", i>>] = a.payout
  BY <1>2, Held
<1> QED BY <1>3 DEF Allocations

\* A leg of a signal's plan, fee included.
LEMMA PlanRoundTrip ==
    ASSUME NEW leg \in PlanLegs, NEW i, NEW p, Holds(p, PlanStores(i, leg))
    PROVE  leg = [venue |-> p[<<"plan_venue", i>>], outcome |-> p[<<"plan_outcome", i>>],
                  quoted |-> ProbOf(p[<<"plan_quoted_ppm", i>>]),
                  fee |-> FeeOf(p[<<"plan_fee_tag", i>>], p[<<"plan_fee_arg_bps", i>>]),
                  increment |-> p[<<"plan_increment", i>>],
                  capacity |-> p[<<"plan_capacity", i>>]]
<1>1. /\ Write("plan_venue", i, leg.venue) \in PlanStores(i, leg)
      /\ Write("plan_outcome", i, leg.outcome) \in PlanStores(i, leg)
      /\ Write("plan_quoted_ppm", i, leg.quoted) \in PlanStores(i, leg)
      /\ Write("plan_fee_tag", i, FeeTag(leg.fee)) \in PlanStores(i, leg)
      /\ Write("plan_fee_arg_bps", i, leg.fee.bps) \in PlanStores(i, leg)
      /\ Write("plan_increment", i, leg.increment) \in PlanStores(i, leg)
      /\ Write("plan_capacity", i, leg.capacity) \in PlanStores(i, leg)
  BY DEF PlanStores
<1>2. /\ p[<<"plan_venue", i>>] = leg.venue /\ p[<<"plan_outcome", i>>] = leg.outcome
      /\ p[<<"plan_quoted_ppm", i>>] = leg.quoted
      /\ p[<<"plan_fee_tag", i>>] = FeeTag(leg.fee)
      /\ p[<<"plan_fee_arg_bps", i>>] = leg.fee.bps
      /\ p[<<"plan_increment", i>>] = leg.increment
      /\ p[<<"plan_capacity", i>>] = leg.capacity
  BY <1>1, Held
<1>3. leg.quoted \in Probs /\ leg.fee \in Fees
  BY DEF PlanLegs
<1>4. /\ ProbOf(p[<<"plan_quoted_ppm", i>>]) = leg.quoted
      /\ FeeOf(p[<<"plan_fee_tag", i>>], p[<<"plan_fee_arg_bps", i>>]) = leg.fee
  BY <1>2, <1>3, FeeRoundTrip DEF ProbOf
<1>5. leg = [venue |-> leg.venue, outcome |-> leg.outcome, quoted |-> leg.quoted,
             fee |-> leg.fee, increment |-> leg.increment, capacity |-> leg.capacity]
  BY DEF PlanLegs
<1> QED BY <1>2, <1>4, <1>5

\* The number of entries of an array of chunks.
LEMMA ChunkCount ==
    ASSUME NEW S, NEW c \in Chunks(S)
    PROVE  /\ Len(c) \in 0 .. MAX_CHUNKS /\ c \in [1 .. Len(c) -> S]
           /\ \A i \in 1 .. Len(c) : i \in 1 .. MAX_CHUNKS /\ c[i] \in S
<1>1. PICK n \in 0 .. MAX_CHUNKS : c \in [1 .. n -> S]
  BY DEF Chunks
<1>2. Len(c) = n
  BY <1>1 DEF MAX_CHUNKS
<1> QED BY <1>1, <1>2 DEF MAX_CHUNKS

\* A signal, whatever the slot held.
LEMMA SignalRoundTrip ==
    ASSUME NEW s \in SignalEvents, NEW p, Holds(p, SignalStores(s))
    PROVE  SignalLoad(p) = s
<1>1. /\ s.allocations \in Chunks(Allocations) /\ s.plan \in Chunks(PlanLegs)
      /\ s = [market_id |-> s.market_id, allocations |-> s.allocations,
              overround_ppm |-> s.overround_ppm, total_stake |-> s.total_stake,
              worst_case_profit |-> s.worst_case_profit, profit_bps |-> s.profit_bps,
              plan |-> s.plan, ingest_timestamp_ns |-> s.ingest_timestamp_ns,
              signal_timestamp_ns |-> s.signal_timestamp_ns,
              latency_ns |-> s.latency_ns]
  BY DEF SignalEvents
<1> DEFINE held == Len(s.allocations)
           legs == Len(s.plan)
<1>2. /\ held \in 0 .. MAX_CHUNKS /\ s.allocations \in [1 .. held -> Allocations]
      /\ legs \in 0 .. MAX_CHUNKS /\ s.plan \in [1 .. legs -> PlanLegs]
  BY <1>1, ChunkCount
<1>3. /\ Write("market_id", 0, s.market_id) \in SignalStores(s)
      /\ Write("len", 0, held) \in SignalStores(s)
      /\ Write("overround_ppm", 0, s.overround_ppm) \in SignalStores(s)
      /\ Write("total_stake", 0, s.total_stake) \in SignalStores(s)
      /\ Write("worst_case_profit", 0, s.worst_case_profit) \in SignalStores(s)
      /\ Write("profit_bps", 0, s.profit_bps) \in SignalStores(s)
      /\ Write("plan_len", 0, legs) \in SignalStores(s)
      /\ Write("ingest_timestamp_ns", 0, s.ingest_timestamp_ns) \in SignalStores(s)
      /\ Write("signal_timestamp_ns", 0, s.signal_timestamp_ns) \in SignalStores(s)
      /\ Write("latency_ns", 0, s.latency_ns) \in SignalStores(s)
  BY DEF SignalStores, ScalarStores
<1>4. /\ p[<<"market_id", 0>>] = s.market_id /\ p[<<"len", 0>>] = held
      /\ p[<<"overround_ppm", 0>>] = s.overround_ppm
      /\ p[<<"total_stake", 0>>] = s.total_stake
      /\ p[<<"worst_case_profit", 0>>] = s.worst_case_profit
      /\ p[<<"profit_bps", 0>>] = s.profit_bps /\ p[<<"plan_len", 0>>] = legs
      /\ p[<<"ingest_timestamp_ns", 0>>] = s.ingest_timestamp_ns
      /\ p[<<"signal_timestamp_ns", 0>>] = s.signal_timestamp_ns
      /\ p[<<"latency_ns", 0>>] = s.latency_ns
  BY <1>3, Held
<1>5. ASSUME NEW i \in 1 .. held PROVE Holds(p, AllocationStores(i, s.allocations[i]))
  <2>1. AllocationStores(i, s.allocations[i])
            \in {AllocationStores(j, s.allocations[j]) : j \in 1 .. Len(s.allocations)}
    OBVIOUS
  <2>2. AllocationStores(i, s.allocations[i]) \subseteq SignalStores(s)
    BY <2>1, Zenon DEF SignalStores
  <2> QED BY <2>2 DEF Holds
<1>6. ASSUME NEW i \in 1 .. legs PROVE Holds(p, PlanStores(i, s.plan[i]))
  <2>1. PlanStores(i, s.plan[i])
            \in {PlanStores(j, s.plan[j]) : j \in 1 .. Len(s.plan)}
    OBVIOUS
  <2>2. PlanStores(i, s.plan[i]) \subseteq SignalStores(s)
    BY <2>1, Zenon DEF SignalStores
  <2> QED BY <2>2 DEF Holds
<1> HIDE DEF held, legs
<1> DEFINE allocation(i) ==
               [leg |-> p[<<"alloc_leg", i>>], stake |-> p[<<"alloc_stake", i>>],
                payout |-> p[<<"alloc_payout", i>>]]
           leg(i) ==
               [venue |-> p[<<"plan_venue", i>>], outcome |-> p[<<"plan_outcome", i>>],
                quoted |-> ProbOf(p[<<"plan_quoted_ppm", i>>]),
                fee |-> FeeOf(p[<<"plan_fee_tag", i>>], p[<<"plan_fee_arg_bps", i>>]),
                increment |-> p[<<"plan_increment", i>>],
                capacity |-> p[<<"plan_capacity", i>>]]
           clamp(n) == IF n < MAX_CHUNKS THEN n ELSE MAX_CHUNKS
<1>7. \A i \in 1 .. held : s.allocations[i] = allocation(i)
  BY <1>2, <1>5, AllocationRoundTrip
<1>8. ASSUME NEW i \in 1 .. legs PROVE s.plan[i] = leg(i)
  <2>1. s.plan[i] \in PlanLegs /\ Holds(p, PlanStores(i, s.plan[i]))
    BY <1>2, <1>6
  <2> QED BY <2>1, PlanRoundTrip
<1>9. SignalLoad(p) =
          [market_id |-> s.market_id,
           allocations |-> [i \in 1 .. clamp(held) |-> allocation(i)],
           overround_ppm |-> s.overround_ppm, total_stake |-> s.total_stake,
           worst_case_profit |-> s.worst_case_profit, profit_bps |-> s.profit_bps,
           plan |-> [i \in 1 .. clamp(legs) |-> leg(i)],
           ingest_timestamp_ns |-> s.ingest_timestamp_ns,
           signal_timestamp_ns |-> s.signal_timestamp_ns,
           latency_ns |-> s.latency_ns]
  BY <1>4 DEF SignalLoad
<1>10. /\ held <= MAX_CHUNKS /\ legs <= MAX_CHUNKS /\ held \in Int /\ legs \in Int
       /\ MAX_CHUNKS \in Int
  BY <1>2 DEF MAX_CHUNKS
<1>11. clamp(held) = held /\ clamp(legs) = legs
  BY ONLY <1>10
<1> HIDE DEF allocation, leg, clamp
<1>12. s.allocations = [i \in 1 .. clamp(held) |-> allocation(i)]
  BY <1>2, <1>7, <1>11
<1>13. s.plan = [i \in 1 .. clamp(legs) |-> leg(i)]
  BY <1>2, <1>8, <1>11
<1> QED BY ONLY <1>1, <1>9, <1>12, <1>13

\* The three groups of fields of a signal slot, entry by entry.
SignalScalars == {"market_id", "len", "overround_ppm", "total_stake",
                  "worst_case_profit", "profit_bps", "plan_len",
                  "ingest_timestamp_ns", "signal_timestamp_ns", "latency_ns"}
AllocationNames == {"alloc_leg", "alloc_stake", "alloc_payout"}
PlanNames == {"plan_venue", "plan_outcome", "plan_quoted_ppm", "plan_fee_tag",
              "plan_fee_arg_bps", "plan_increment", "plan_capacity"}

LEMMA ScalarsStored ==
    ASSUME NEW s \in SignalEvents, Len(s.allocations) \in Nat, Len(s.plan) \in Nat
    PROVE  Stored(ScalarStores(s), SignalScalars \X {0})
BY DEF Stored, ScalarStores, SignalScalars, Write, SignalEvents

LEMMA AllocationStored ==
    ASSUME NEW a \in Allocations, NEW i
    PROVE  Stored(AllocationStores(i, a), AllocationNames \X {i})
BY DEF Stored, AllocationStores, AllocationNames, Write, Allocations, MAX_CHUNKS

LEMMA PlanStored ==
    ASSUME NEW leg \in PlanLegs, NEW i
    PROVE  Stored(PlanStores(i, leg), PlanNames \X {i})
<1>1. /\ leg.venue \in Int /\ leg.outcome \in Int /\ leg.quoted \in Int
      /\ leg.fee.bps \in Int /\ leg.increment \in Int /\ leg.capacity \in Int
  BY DEF PlanLegs, Probs, Fees
<1>2. FeeTag(leg.fee) \in Int
  BY DEF PlanLegs, Fees, FeeKinds, FeeTag
<1> QED BY <1>1, <1>2 DEF Stored, PlanStores, PlanNames, Write

\* The signal slot keeps the ring's contract: a signal and its plan come out
\* complete, leg by leg, whatever the slot held before.
THEOREM SignalSlotContract ==
    /\ \A s \in SignalEvents :
           SignalStores(s) \subseteq [field : SignalFields, content : Int]
    /\ SignalRing!SlotContract
<1> SUFFICES ASSUME NEW s \in SignalEvents
             PROVE  /\ Stored(SignalStores(s), SignalFields)
                    /\ \A p : Holds(p, SignalStores(s)) => SignalLoad(p) = s
  BY DEF SignalRing!SlotContract, Stored, Holds
<1> DEFINE held == 1 .. Len(s.allocations)
           legs == 1 .. Len(s.plan)
           A(i) == AllocationStores(i, s.allocations[i])
           P(i) == PlanStores(i, s.plan[i])
<1>1. /\ Len(s.allocations) \in Nat /\ Len(s.plan) \in Nat
      /\ \A i \in held : i \in 1 .. MAX_CHUNKS /\ s.allocations[i] \in Allocations
      /\ \A i \in legs : i \in 1 .. MAX_CHUNKS /\ s.plan[i] \in PlanLegs
  BY ChunkCount DEF SignalEvents
<1>2. /\ Stored(ScalarStores(s), SignalScalars \X {0})
      /\ \A i \in held : Stored(A(i), AllocationNames \X {i})
      /\ \A i \in legs : Stored(P(i), PlanNames \X {i})
  BY <1>1, ScalarsStored, AllocationStored, PlanStored
<1>3. \A w \in SignalStores(s) : \/ w \in ScalarStores(s)
                                 \/ \E i \in held : w \in A(i)
                                 \/ \E i \in legs : w \in P(i)
  <2> SUFFICES ASSUME NEW w \in SignalStores(s)
               PROVE  \/ w \in ScalarStores(s)
                      \/ \E i \in held : w \in A(i)
                      \/ \E i \in legs : w \in P(i)
    OBVIOUS
  <2>1. \/ w \in ScalarStores(s)
        \/ w \in UNION {A(i) : i \in held}
        \/ w \in UNION {P(i) : i \in legs}
    BY Zenon DEF SignalStores
  <2> HIDE DEF held, legs, A, P
  <2> QED BY <2>1
<1> HIDE DEF held, legs, A, P
<1>4. SignalStores(s) \subseteq [field : SignalFields, content : Int]
  <2>1. /\ SignalScalars \X {0} \subseteq SignalFields
        /\ \A i \in 1 .. MAX_CHUNKS : /\ AllocationNames \X {i} \subseteq SignalFields
                                      /\ PlanNames \X {i} \subseteq SignalFields
    BY DEF SignalFields, SignalScalars, AllocationNames, PlanNames
  <2> QED BY <1>1, <1>2, <1>3, <2>1 DEF Stored
<1>5. ASSUME NEW w1 \in SignalStores(s), NEW w2 \in SignalStores(s), w1.field = w2.field
      PROVE  w1 = w2
  <2>1. /\ \A w \in ScalarStores(s) : w.field[1] \in SignalScalars
        /\ \A i \in held : \A w \in A(i) : w.field[1] \in AllocationNames /\ w.field[2] = i
        /\ \A i \in legs : \A w \in P(i) : w.field[1] \in PlanNames /\ w.field[2] = i
    BY <1>2 DEF Stored
  <2>2. /\ SignalScalars \cap AllocationNames = {} /\ SignalScalars \cap PlanNames = {}
        /\ AllocationNames \cap PlanNames = {}
    BY DEF SignalScalars, AllocationNames, PlanNames
  <2>3. CASE w1 \in ScalarStores(s)
    BY <1>2, <1>3, <1>5, <2>1, <2>2, <2>3 DEF Stored
  <2>4. ASSUME NEW i \in held, w1 \in A(i) PROVE w1 = w2
    BY <1>2, <1>3, <1>5, <2>1, <2>2, <2>4 DEF Stored
  <2>5. ASSUME NEW i \in legs, w1 \in P(i) PROVE w1 = w2
    BY <1>2, <1>3, <1>5, <2>1, <2>2, <2>5 DEF Stored
  <2> QED BY <1>3, <2>3, <2>4, <2>5
<1> QED BY <1>4, <1>5, SignalRoundTrip DEF Stored
=============================================================================
