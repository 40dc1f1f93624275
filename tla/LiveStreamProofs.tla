---------------------------- MODULE LiveStreamProofs ----------------------------
(***************************************************************************)
(* Proofs about the live stream: a room counts a row once, a screen shows  *)
(* it once, a viewer that has applied what it was sent agrees with the     *)
(* room, heartbeats keep a session from being called stale, and the rows a *)
(* room lacks are on their way, dropped or wiped.  For every sequence of   *)
(* runs, all capacities and every number of rows and faults.               *)
(***************************************************************************)
EXTENDS LiveStream, DataLemmas

(***************************************************************************)
(* Folds: what a request, a batch of rows or a render does is the value of *)
(* a function that obeys its recursion.                                    *)
(***************************************************************************)

\* Row by row through a batch.
FreshSteps(items, cursor, g) ==
    g = [n \in 0 .. Len(items) |-> IF n = 0 THEN [rows |-> << >>, next |-> cursor] ELSE TakeRow(g[n - 1], items[n])]

\* Reading a batch of rows unfolds row by row (FreshRows).
LEMMA FreshRowsUnfolds ==
    ASSUME NEW items, NEW cursor, Len(items) \in Nat
    PROVE  \E g : FreshSteps(items, cursor, g) /\ FreshRows(items, cursor) = g[Len(items)]
<1> DEFINE On(k, g) == g = [n \in 0 .. k |-> IF n = 0 THEN [rows |-> << >>, next |-> cursor] ELSE TakeRow(g[n - 1], items[n])]
           Good == {k \in 0 .. Len(items) : \E g : On(k, g)}
<1>1. 0 \in Good
  <2> DEFINE h == [n \in 0 .. 0 |-> [rows |-> << >>, next |-> cursor]]
  <2>1. On(0, h)
    OBVIOUS
  <2> HIDE DEF On, h
  <2> QED BY <2>1
<1>2. ASSUME NEW k \in 0 .. Len(items) - 1, k \in Good PROVE k + 1 \in Good
  <2>1. PICK g : On(k, g)
    BY <1>2
  <2> DEFINE h == [n \in 0 .. k + 1 |-> IF n = k + 1 THEN TakeRow(g[k], items[k + 1]) ELSE g[n]]
  <2>2. \A n \in 0 .. k : h[n] = g[n] /\ n \in 0 .. k + 1
    OBVIOUS
  <2>3. h[k + 1] = TakeRow(h[k], items[k + 1])
    BY <2>2
  <2>4. \A n \in 0 .. k + 1 : h[n] = IF n = 0 THEN [rows |-> << >>, next |-> cursor] ELSE TakeRow(h[n - 1], items[n])
    <3> SUFFICES ASSUME NEW n \in 0 .. k + 1
                 PROVE  h[n] = IF n = 0 THEN [rows |-> << >>, next |-> cursor] ELSE TakeRow(h[n - 1], items[n])
      OBVIOUS
    <3>1. CASE n = k + 1
      <4>1. n # 0 /\ n - 1 = k
        BY <3>1
      <4> HIDE DEF h
      <4> QED BY <2>3, <3>1, <4>1
    <3>2. CASE n # k + 1
      <4>1. n \in 0 .. k /\ (n # 0 => n - 1 \in 0 .. k)
        BY <3>2
      <4>2. g[n] = IF n = 0 THEN [rows |-> << >>, next |-> cursor] ELSE TakeRow(g[n - 1], items[n])
        BY <2>1, <4>1
      <4> HIDE DEF h
      <4> QED BY <2>2, <4>1, <4>2
    <3> QED BY <3>1, <3>2
  <2>5. On(k + 1, h)
    <3> DEFINE e == [n \in 0 .. k + 1 |-> IF n = 0 THEN [rows |-> << >>, next |-> cursor] ELSE TakeRow(h[n - 1], items[n])]
    <3>1. e = h
      BY <2>4
    <3> QED BY <3>1
  <2>6. k + 1 \in 0 .. Len(items)
    OBVIOUS
  <2> HIDE DEF On
  <2> QED BY <2>5, <2>6
<1>3. Len(items) \in Good
  <2> HIDE DEF Good
  <2>1. \A k \in 0 .. Len(items) : k \in Good
    BY <1>1, <1>2, CountUp
  <2> QED BY <2>1
<1>4. FreshRows(items, cursor) = (CHOOSE g : FreshSteps(items, cursor, g))[Len(items)]
  BY DEF FreshRows, FreshSteps
<1>5. \E g : FreshSteps(items, cursor, g)
  BY <1>3 DEF FreshSteps
<1> QED BY <1>4, <1>5

\* Row by row past a number.
AboveSteps(rows, floor, g) ==
    g = [n \in 0 .. Len(rows) |-> IF n = 0 THEN << >> ELSE KeepAbove(g[n - 1], rows[n], floor)]

\* So does picking the rows above a number (RowsAbove).
LEMMA RowsAboveUnfolds ==
    ASSUME NEW rows, NEW floor, Len(rows) \in Nat
    PROVE  \E g : AboveSteps(rows, floor, g) /\ RowsAbove(rows, floor) = g[Len(rows)]
<1> DEFINE On(k, g) == g = [n \in 0 .. k |-> IF n = 0 THEN << >> ELSE KeepAbove(g[n - 1], rows[n], floor)]
           Good == {k \in 0 .. Len(rows) : \E g : On(k, g)}
<1>1. 0 \in Good
  <2> DEFINE h == [n \in 0 .. 0 |-> << >>]
  <2>1. On(0, h)
    OBVIOUS
  <2> HIDE DEF On, h
  <2> QED BY <2>1
<1>2. ASSUME NEW k \in 0 .. Len(rows) - 1, k \in Good PROVE k + 1 \in Good
  <2>1. PICK g : On(k, g)
    BY <1>2
  <2> DEFINE h == [n \in 0 .. k + 1 |-> IF n = k + 1 THEN KeepAbove(g[k], rows[k + 1], floor) ELSE g[n]]
  <2>2. \A n \in 0 .. k : h[n] = g[n] /\ n \in 0 .. k + 1
    OBVIOUS
  <2>3. h[k + 1] = KeepAbove(h[k], rows[k + 1], floor)
    BY <2>2
  <2>4. \A n \in 0 .. k + 1 : h[n] = IF n = 0 THEN << >> ELSE KeepAbove(h[n - 1], rows[n], floor)
    <3> SUFFICES ASSUME NEW n \in 0 .. k + 1
                 PROVE  h[n] = IF n = 0 THEN << >> ELSE KeepAbove(h[n - 1], rows[n], floor)
      OBVIOUS
    <3>1. CASE n = k + 1
      <4>1. n # 0 /\ n - 1 = k
        BY <3>1
      <4> HIDE DEF h
      <4> QED BY <2>3, <3>1, <4>1
    <3>2. CASE n # k + 1
      <4>1. n \in 0 .. k /\ (n # 0 => n - 1 \in 0 .. k)
        BY <3>2
      <4>2. g[n] = IF n = 0 THEN << >> ELSE KeepAbove(g[n - 1], rows[n], floor)
        BY <2>1, <4>1
      <4> HIDE DEF h
      <4> QED BY <2>2, <4>1, <4>2
    <3> QED BY <3>1, <3>2
  <2>5. On(k + 1, h)
    <3> DEFINE e == [n \in 0 .. k + 1 |-> IF n = 0 THEN << >> ELSE KeepAbove(h[n - 1], rows[n], floor)]
    <3>1. e = h
      BY <2>4
    <3> QED BY <3>1
  <2>6. k + 1 \in 0 .. Len(rows)
    OBVIOUS
  <2> HIDE DEF On
  <2> QED BY <2>5, <2>6
<1>3. Len(rows) \in Good
  <2> HIDE DEF Good
  <2>1. \A k \in 0 .. Len(rows) : k \in Good
    BY <1>1, <1>2, CountUp
  <2> QED BY <2>1
<1>4. RowsAbove(rows, floor) = (CHOOSE g : AboveSteps(rows, floor, g))[Len(rows)]
  BY DEF RowsAbove, AboveSteps
<1>5. \E g : AboveSteps(rows, floor, g)
  BY <1>3 DEF AboveSteps
<1> QED BY <1>4, <1>5

\* Frame by frame through a render.
SeenSteps(v, frames, g) ==
    g = [n \in 0 .. Len(frames) |-> IF n = 0 THEN v ELSE ApplyLiveFrame(g[n - 1], frames[n])]

\* So does a render of the mail (Seen).
LEMMA SeenUnfolds ==
    ASSUME NEW v, NEW frames, Len(frames) \in Nat
    PROVE  \E g : SeenSteps(v, frames, g) /\ Seen(v, frames) = g[Len(frames)]
<1> DEFINE On(k, g) == g = [n \in 0 .. k |-> IF n = 0 THEN v ELSE ApplyLiveFrame(g[n - 1], frames[n])]
           Good == {k \in 0 .. Len(frames) : \E g : On(k, g)}
<1>1. 0 \in Good
  <2> DEFINE h == [n \in 0 .. 0 |-> v]
  <2>1. On(0, h)
    OBVIOUS
  <2> HIDE DEF On, h
  <2> QED BY <2>1
<1>2. ASSUME NEW k \in 0 .. Len(frames) - 1, k \in Good PROVE k + 1 \in Good
  <2>1. PICK g : On(k, g)
    BY <1>2
  <2> DEFINE h == [n \in 0 .. k + 1 |-> IF n = k + 1 THEN ApplyLiveFrame(g[k], frames[k + 1]) ELSE g[n]]
  <2>2. \A n \in 0 .. k : h[n] = g[n] /\ n \in 0 .. k + 1
    OBVIOUS
  <2>3. h[k + 1] = ApplyLiveFrame(h[k], frames[k + 1])
    BY <2>2
  <2>4. \A n \in 0 .. k + 1 : h[n] = IF n = 0 THEN v ELSE ApplyLiveFrame(h[n - 1], frames[n])
    <3> SUFFICES ASSUME NEW n \in 0 .. k + 1
                 PROVE  h[n] = IF n = 0 THEN v ELSE ApplyLiveFrame(h[n - 1], frames[n])
      OBVIOUS
    <3>1. CASE n = k + 1
      <4>1. n # 0 /\ n - 1 = k
        BY <3>1
      <4> HIDE DEF h
      <4> QED BY <2>3, <3>1, <4>1
    <3>2. CASE n # k + 1
      <4>1. n \in 0 .. k /\ (n # 0 => n - 1 \in 0 .. k)
        BY <3>2
      <4>2. g[n] = IF n = 0 THEN v ELSE ApplyLiveFrame(g[n - 1], frames[n])
        BY <2>1, <4>1
      <4> HIDE DEF h
      <4> QED BY <2>2, <4>1, <4>2
    <3> QED BY <3>1, <3>2
  <2>5. On(k + 1, h)
    <3> DEFINE e == [n \in 0 .. k + 1 |-> IF n = 0 THEN v ELSE ApplyLiveFrame(h[n - 1], frames[n])]
    <3>1. e = h
      BY <2>4
    <3> QED BY <3>1
  <2>6. k + 1 \in 0 .. Len(frames)
    OBVIOUS
  <2> HIDE DEF On
  <2> QED BY <2>5, <2>6
<1>3. Len(frames) \in Good
  <2> HIDE DEF Good
  <2>1. \A k \in 0 .. Len(frames) : k \in Good
    BY <1>1, <1>2, CountUp
  <2> QED BY <2>1
<1>4. Seen(v, frames) = (CHOOSE g : SeenSteps(v, frames, g))[Len(frames)]
  BY DEF Seen, SeenSteps
<1>5. \E g : SeenSteps(v, frames, g)
  BY <1>3 DEF SeenSteps
<1> QED BY <1>4, <1>5

\* Line by line through a request.
IngestSteps(s, batch, g) ==
    g = [n \in 0 .. Len(batch) |-> IF n = 0 THEN Unread(s) ELSE IngestLine(g[n - 1], batch[n])]

\* So does the reading of a request (Ingest).
LEMMA IngestUnfolds ==
    ASSUME NEW s, NEW batch, Len(batch) \in Nat
    PROVE  \E g : IngestSteps(s, batch, g) /\ Ingest(s, batch) = g[Len(batch)]
<1> DEFINE On(k, g) == g = [n \in 0 .. k |-> IF n = 0 THEN Unread(s) ELSE IngestLine(g[n - 1], batch[n])]
           Good == {k \in 0 .. Len(batch) : \E g : On(k, g)}
<1>1. 0 \in Good
  <2> DEFINE h == [n \in 0 .. 0 |-> Unread(s)]
  <2>1. On(0, h)
    OBVIOUS
  <2> HIDE DEF On, h
  <2> QED BY <2>1
<1>2. ASSUME NEW k \in 0 .. Len(batch) - 1, k \in Good PROVE k + 1 \in Good
  <2>1. PICK g : On(k, g)
    BY <1>2
  <2> DEFINE h == [n \in 0 .. k + 1 |-> IF n = k + 1 THEN IngestLine(g[k], batch[k + 1]) ELSE g[n]]
  <2>2. \A n \in 0 .. k : h[n] = g[n] /\ n \in 0 .. k + 1
    OBVIOUS
  <2>3. h[k + 1] = IngestLine(h[k], batch[k + 1])
    BY <2>2
  <2>4. \A n \in 0 .. k + 1 : h[n] = IF n = 0 THEN Unread(s) ELSE IngestLine(h[n - 1], batch[n])
    <3> SUFFICES ASSUME NEW n \in 0 .. k + 1
                 PROVE  h[n] = IF n = 0 THEN Unread(s) ELSE IngestLine(h[n - 1], batch[n])
      OBVIOUS
    <3>1. CASE n = k + 1
      <4>1. n # 0 /\ n - 1 = k
        BY <3>1
      <4> HIDE DEF h
      <4> QED BY <2>3, <3>1, <4>1
    <3>2. CASE n # k + 1
      <4>1. n \in 0 .. k /\ (n # 0 => n - 1 \in 0 .. k)
        BY <3>2
      <4>2. g[n] = IF n = 0 THEN Unread(s) ELSE IngestLine(g[n - 1], batch[n])
        BY <2>1, <4>1
      <4> HIDE DEF h
      <4> QED BY <2>2, <4>1, <4>2
    <3> QED BY <3>1, <3>2
  <2>5. On(k + 1, h)
    <3> DEFINE e == [n \in 0 .. k + 1 |-> IF n = 0 THEN Unread(s) ELSE IngestLine(h[n - 1], batch[n])]
    <3>1. e = h
      BY <2>4
    <3> QED BY <3>1
  <2>6. k + 1 \in 0 .. Len(batch)
    OBVIOUS
  <2> HIDE DEF On
  <2> QED BY <2>5, <2>6
<1>3. Len(batch) \in Good
  <2> HIDE DEF Good
  <2>1. \A k \in 0 .. Len(batch) : k \in Good
    BY <1>1, <1>2, CountUp
  <2> QED BY <2>1
<1>4. Ingest(s, batch) = (CHOOSE g : IngestSteps(s, batch, g))[Len(batch)]
  BY DEF Ingest, IngestSteps
<1>5. \E g : IngestSteps(s, batch, g)
  BY <1>3 DEF IngestSteps
<1> QED BY <1>4, <1>5

(***************************************************************************)
(* Rows                                                                    *)
(***************************************************************************)

\* The members of a sequence.
Entries(s) == {s[i] : i \in 1 .. Len(s)}

\* Batches of rows as a runner makes them.
GoodRows == {items \in Seq(Rows) : Increasing(items)}

Above(rows, floor) == \A i \in 1 .. Len(rows) : floor < rows[i].seq
UpTo(rows, top) == \A i \in 1 .. Len(rows) : rows[i].seq <= top

\* Rows have integer numbers.
LEMMA RowNumbers ==
    ASSUME NEW s \in Seq(Rows)
    PROVE  Len(s) \in Nat /\ \A i \in 1 .. Len(s) : s[i] \in Rows /\ s[i].seq \in Int
<1>1. Len(s) \in Nat /\ \A i \in 1 .. Len(s) : s[i] \in Rows
  BY LenProperties, ElementOfSeq
<1> QED BY <1>1 DEF Rows

\* No rows are in order, and within all bounds.
LEMMA NoRows == << >> \in GoodRows /\ \A n \in Int : Above(<< >>, n) /\ UpTo(<< >>, n)
<1>1. << >> \in Seq(Rows) /\ Len(<< >>) = 0 /\ 1 .. 0 = {}
  BY EmptySeq
<1> QED BY <1>1 DEF GoodRows, Increasing, Above, UpTo

\* A row above all others keeps them in order.
LEMMA RowAppended ==
    ASSUME NEW s \in GoodRows, NEW row \in Rows, \A i \in 1 .. Len(s) : s[i].seq < row.seq
    PROVE  /\ Append(s, row) \in GoodRows
           /\ \A x : x \in Entries(Append(s, row)) <=> x \in Entries(s) \/ x = row
           /\ \A n \in Int : Above(Append(s, row), n) <=> Above(s, n) /\ n < row.seq
           /\ \A n \in Int : UpTo(Append(s, row), n) <=> UpTo(s, n) /\ row.seq <= n
<1> DEFINE t == Append(s, row)
           k == Len(s)
<1>1. s \in Seq(Rows) /\ k \in Nat
  BY LenProperties DEF GoodRows
<1>2. /\ t \in Seq(Rows) /\ Len(t) = k + 1 /\ t[k + 1] = row
      /\ \A i \in 1 .. k : t[i] = s[i]
  BY <1>1, AppendProperties
<1>3. \A i \in 1 .. k + 1 : i \in 1 .. k \/ i = k + 1
  BY <1>1
<1>4. k + 1 \in 1 .. k + 1 /\ \A i \in 1 .. k : i \in 1 .. k + 1 /\ ~(k + 1 < i)
  BY <1>1
<1>5. Increasing(t)
  <2> SUFFICES ASSUME NEW i \in 1 .. k + 1, NEW j \in 1 .. k + 1, i < j
               PROVE  t[i].seq < t[j].seq
    BY <1>2 DEF Increasing
  <2>1. i \in 1 .. k
    BY <1>1
  <2>2. CASE j = k + 1
    BY <1>2, <2>1, <2>2
  <2>3. CASE j # k + 1
    <3>1. j \in 1 .. k
      BY <1>3, <2>3
    <3> QED BY <1>2, <2>1, <3>1 DEF GoodRows, Increasing
  <2> QED BY <2>2, <2>3
<1> HIDE DEF t, k
<1>6. \A x : x \in Entries(t) <=> x \in Entries(s) \/ x = row
  BY <1>2, <1>3, <1>4 DEF Entries, k
<1>7. \A n \in Int : Above(t, n) <=> Above(s, n) /\ n < row.seq
  BY <1>2, <1>3, <1>4 DEF Above, k
<1>8. \A n \in Int : UpTo(t, n) <=> UpTo(s, n) /\ row.seq <= n
  BY <1>2, <1>3, <1>4 DEF UpTo, k
<1> QED BY <1>2, <1>5, <1>6, <1>7, <1>8 DEF GoodRows, t

\* Rows that all come after others follow them in order.
LEMMA RowsJoined ==
    ASSUME NEW a \in GoodRows, NEW b \in GoodRows, NEW m \in Int, UpTo(a, m), Above(b, m)
    PROVE  /\ a \o b \in GoodRows
           /\ \A x : x \in Entries(a \o b) <=> x \in Entries(a) \/ x \in Entries(b)
           /\ \A n \in Int : UpTo(a \o b, n) <=> UpTo(a, n) /\ UpTo(b, n)
<1> DEFINE c == a \o b
           p == Len(a)
           q == Len(b)
<1>1. a \in Seq(Rows) /\ b \in Seq(Rows) /\ p \in Nat /\ q \in Nat
  BY LenProperties DEF GoodRows
<1>2. /\ c \in Seq(Rows) /\ Len(c) = p + q
      /\ \A i \in 1 .. p + q : c[i] = IF i <= p THEN a[i] ELSE b[i - p]
  BY <1>1, ConcatProperties
<1> HIDE DEF c, p, q
<1>3. \A i \in 1 .. p : i \in 1 .. p + q /\ c[i] = a[i]
  BY <1>1, <1>2
<1>4. \A i \in 1 .. q : p + i \in 1 .. p + q /\ c[p + i] = b[i]
  <2>1. \A i \in 1 .. q : p + i \in 1 .. p + q /\ ~(p + i <= p) /\ (p + i) - p = i
    BY <1>1
  <2> QED BY <1>2, <2>1
<1>5. \A i \in 1 .. p + q : i \in 1 .. p \/ (i - p \in 1 .. q /\ p + (i - p) = i)
  BY <1>1
<1>6. \A i \in 1 .. p + q : c[i] \in Entries(a) \/ c[i] \in Entries(b)
  BY <1>3, <1>4, <1>5 DEF Entries, p, q
<1>7. \A x : x \in Entries(c) <=> x \in Entries(a) \/ x \in Entries(b)
  <2>1. \A x \in Entries(a) : x \in Entries(c)
    BY <1>2, <1>3 DEF Entries, p
  <2>2. \A x \in Entries(b) : x \in Entries(c)
    BY <1>2, <1>4 DEF Entries, q
  <2>3. \A x \in Entries(c) : x \in Entries(a) \/ x \in Entries(b)
    BY <1>2, <1>6 DEF Entries
  <2> QED BY <2>1, <2>2, <2>3
<1>8. \A n \in Int : UpTo(c, n) <=> UpTo(a, n) /\ UpTo(b, n)
  <2> TAKE n \in Int
  <2>1. UpTo(c, n) => UpTo(a, n)
    BY <1>2, <1>3 DEF UpTo, p
  <2>2. UpTo(c, n) => UpTo(b, n)
    BY <1>2, <1>4 DEF UpTo, q
  <2>3. UpTo(a, n) /\ UpTo(b, n) => UpTo(c, n)
    <3> HAVE UpTo(a, n) /\ UpTo(b, n)
    <3>1. \A i \in 1 .. p + q : c[i].seq <= n
      BY <1>3, <1>4, <1>5 DEF UpTo, p, q
    <3> QED BY <1>2, <3>1 DEF UpTo
  <2> QED BY <2>1, <2>2, <2>3
<1>9. Increasing(c)
  <2> SUFFICES ASSUME NEW i \in 1 .. p + q, NEW j \in 1 .. p + q, i < j
               PROVE  c[i].seq < c[j].seq
    BY <1>2 DEF Increasing
  <2>1. CASE i \in 1 .. p /\ j \in 1 .. p
    BY <1>3, <2>1 DEF GoodRows, Increasing, p
  <2>2. CASE i \in 1 .. p /\ j \notin 1 .. p
    <3>1. j - p \in 1 .. q /\ p + (j - p) = j
      BY <1>5, <2>2
    <3>2. c[i] = a[i] /\ c[j] = b[j - p]
      BY <1>3, <1>4, <2>2, <3>1
    <3>3. c[i].seq <= m /\ m < c[j].seq
      BY <2>2, <3>1, <3>2 DEF UpTo, Above, p, q
    <3>4. c[i].seq \in Int /\ c[j].seq \in Int
      BY <1>2, RowNumbers
    <3> QED BY <3>3, <3>4
  <2>3. CASE i \notin 1 .. p
    <3>1. i - p \in 1 .. q /\ p + (i - p) = i
      BY <1>5, <2>3
    <3>2. j - p \in 1 .. q /\ p + (j - p) = j /\ i - p < j - p
      BY <1>1, <3>1
    <3>3. c[i] = b[i - p] /\ c[j] = b[j - p]
      BY <1>4, <3>1, <3>2
    <3> QED BY <3>1, <3>2, <3>3 DEF GoodRows, Increasing, q
  <2> QED BY <2>1, <2>2, <2>3
<1> QED BY <1>2, <1>7, <1>8, <1>9 DEF GoodRows, c

\* What a ring of n keeps.
LEMMA NewestIs ==
    ASSUME NEW S, NEW s \in Seq(S), NEW n \in Nat
    PROVE  \E k \in Nat :
              /\ k = IF Len(s) <= n THEN 0 ELSE Len(s) - n
              /\ Newest(s, n) \in Seq(S) /\ Len(Newest(s, n)) = Len(s) - k
              /\ \A i \in 1 .. Len(s) - k : Newest(s, n)[i] = s[k + i] /\ k + i \in 1 .. Len(s)
<1> DEFINE c == Len(s)
           k == IF c <= n THEN 0 ELSE c - n
           from == Larger(1, c - n + 1)
<1>1. c \in Nat /\ \A i \in 1 .. c : s[i] \in S
  BY LenProperties, ElementOfSeq
<1>2. k \in Nat /\ k <= c /\ from = k + 1
  BY <1>1 DEF Larger
<1>3. Newest(s, n) = SubSeq(s, from, c) /\ k = IF c <= n THEN 0 ELSE c - n
  BY DEF Newest
<1> HIDE DEF from, k
<1> HIDE DEF c
<1>4. \A i \in from .. c : s[i] \in S
  BY <1>1, <1>2
<1>5. from \in Int /\ c \in Int /\ c - from + 1 = c - k /\ (IF from <= c THEN c - from + 1 ELSE 0) = c - k
  BY <1>1, <1>2
<1>6. /\ SubSeq(s, from, c) \in Seq(S)
      /\ Len(SubSeq(s, from, c)) = IF from <= c THEN c - from + 1 ELSE 0
      /\ \A i \in 1 .. c - from + 1 : SubSeq(s, from, c)[i] = s[from + i - 1]
  BY <1>4, <1>5, SubSeqProperties
<1>7. \A i \in 1 .. c - k : from + i - 1 = k + i /\ k + i \in 1 .. c
  BY <1>1, <1>2
<1>8. \A i \in 1 .. c - k : SubSeq(s, from, c)[i] = s[k + i]
  BY <1>5, <1>6, <1>7
<1>9. Len(SubSeq(s, from, c)) = c - k
  BY <1>5, <1>6
<1>10. \A i \in 1 .. c - k : Newest(s, n)[i] = s[k + i] /\ k + i \in 1 .. c
  BY <1>3, <1>7, <1>8
<1>11. Newest(s, n) \in Seq(S) /\ Len(Newest(s, n)) = c - k
  BY <1>3, <1>6, <1>9
<1>12. Len(s) = c
  BY DEF c
<1> QED BY <1>2, <1>3, <1>10, <1>11, <1>12

\* The newest rows of rows in order are in order.
LEMMA NewestRows ==
    ASSUME NEW s \in GoodRows, NEW n \in Nat
    PROVE  /\ Newest(s, n) \in GoodRows
           /\ \A m \in Int : UpTo(s, m) => UpTo(Newest(s, n), m)
<1> DEFINE t == Newest(s, n)
           c == Len(s)
<1>1. s \in Seq(Rows) /\ c \in Nat
  BY LenProperties DEF GoodRows
<1>2. PICK k \in Nat : /\ t \in Seq(Rows) /\ Len(t) = c - k
                       /\ \A i \in 1 .. c - k : t[i] = s[k + i] /\ k + i \in 1 .. c
  BY <1>1, NewestIs
<1> HIDE DEF t, c
<1>3. Increasing(t)
  <2> SUFFICES ASSUME NEW i \in 1 .. c - k, NEW j \in 1 .. c - k, i < j
               PROVE  t[i].seq < t[j].seq
    BY <1>2 DEF Increasing
  <2>1. k + i < k + j /\ k + i \in 1 .. c /\ k + j \in 1 .. c
    BY <1>2
  <2>2. s[k + i].seq < s[k + j].seq
    BY <2>1 DEF GoodRows, Increasing, c
  <2> QED BY <1>2, <2>2
<1>4. \A m \in Int : UpTo(s, m) => UpTo(t, m)
  BY <1>2 DEF UpTo, c
<1> QED BY <1>2, <1>3, <1>4 DEF GoodRows, t

\* A ring that is filled in parts keeps the same as one filled at once.
LEMMA NewestTwice ==
    ASSUME NEW S, NEW a \in Seq(S), NEW b \in Seq(S), NEW n \in Nat
    PROVE  Newest(Newest(a, n) \o b, n) = Newest(a \o b, n)
<1> DEFINE p == Len(a)
           q == Len(b)
           d == Newest(a, n)
           r == Len(d)
           u == d \o b
           v == a \o b
<1>1. p \in Nat /\ q \in Nat
  BY LenProperties
<1>2. PICK k \in Nat : /\ k = IF p <= n THEN 0 ELSE p - n
                       /\ d \in Seq(S) /\ r = p - k
                       /\ \A i \in 1 .. p - k : d[i] = a[k + i] /\ k + i \in 1 .. p
  BY NewestIs
<1>3. /\ v \in Seq(S) /\ Len(v) = p + q
      /\ \A i \in 1 .. p + q : v[i] = IF i <= p THEN a[i] ELSE b[i - p]
  BY ConcatProperties
<1>4. /\ u \in Seq(S) /\ Len(u) = r + q
      /\ \A i \in 1 .. r + q : u[i] = IF i <= r THEN d[i] ELSE b[i - r]
  BY <1>2, ConcatProperties
<1> HIDE DEF p, q, d, r, u, v
<1>5. r \in Nat /\ p = k + r
  BY <1>1, <1>2
<1>6. \A i \in 1 .. r + q : u[i] = v[k + i] /\ k + i \in 1 .. p + q
  <2> TAKE i \in 1 .. r + q
  <2>1. k + i \in 1 .. p + q /\ (k + i <= p <=> i <= r) /\ (k + i) - p = i - r
    BY <1>1, <1>5
  <2>2. i <= r => i \in 1 .. p - k
    BY <1>5
  <2> QED BY <1>2, <1>3, <1>4, <2>1, <2>2
<1>7. PICK g \in Nat : /\ g = IF Len(u) <= n THEN 0 ELSE Len(u) - n
                       /\ Newest(u, n) \in Seq(S) /\ Len(Newest(u, n)) = Len(u) - g
                       /\ \A i \in 1 .. Len(u) - g : Newest(u, n)[i] = u[g + i] /\ g + i \in 1 .. Len(u)
  BY <1>4, NewestIs
<1>8. PICK h \in Nat : /\ h = IF Len(v) <= n THEN 0 ELSE Len(v) - n
                       /\ Newest(v, n) \in Seq(S) /\ Len(Newest(v, n)) = Len(v) - h
                       /\ \A i \in 1 .. Len(v) - h : Newest(v, n)[i] = v[h + i] /\ h + i \in 1 .. Len(v)
  BY <1>3, NewestIs
<1>9. h = k + g
  <2>1. g = IF r + q <= n THEN 0 ELSE (r + q) - n
    BY <1>4, <1>7
  <2>2. h = IF p + q <= n THEN 0 ELSE (p + q) - n
    BY <1>3, <1>8
  <2> QED BY <1>1, <1>2, <1>5, <2>1, <2>2
<1>10. Len(u) = r + q /\ Len(v) = p + q /\ Len(v) - h = Len(u) - g
  BY <1>1, <1>3, <1>4, <1>5, <1>9
<1>11. \A i \in 1 .. Len(u) - g : Newest(u, n)[i] = Newest(v, n)[i]
  <2> TAKE i \in 1 .. Len(u) - g
  <2>1. Newest(u, n)[i] = u[g + i] /\ g + i \in 1 .. r + q
    BY <1>7, <1>10
  <2>2. Newest(v, n)[i] = v[h + i]
    BY <1>8, <1>10
  <2>3. k + (g + i) = h + i
    BY <1>9
  <2>4. u[g + i] = v[k + (g + i)]
    BY <1>6, <2>1
  <2> QED BY <2>1, <2>2, <2>3, <2>4
<1>12. Newest(u, n) = Newest(v, n)
  BY <1>7, <1>8, <1>10, <1>11, SeqEqual
<1> QED BY <1>12 DEF u, v, d

\* What is known of the first n rows of a batch.
FreshUpTo(items, cursor, n, x) ==
    /\ x.rows \in GoodRows /\ x.next \in Int /\ cursor <= x.next
    /\ Above(x.rows, cursor) /\ UpTo(x.rows, x.next)
    /\ x.next = cursor \/ \E i \in 1 .. n : x.next = items[i].seq
    /\ \A i \in 1 .. n : cursor < items[i].seq => items[i] \in Entries(x.rows)

\* The rows of a batch above a cursor, in order, and how far they go.
LEMMA FreshRowsAre ==
    ASSUME NEW items \in GoodRows, NEW cursor \in Int
    PROVE  FreshUpTo(items, cursor, Len(items), FreshRows(items, cursor))
<1>1. items \in Seq(Rows) /\ Increasing(items)
  BY DEF GoodRows
<1>2. /\ Len(items) \in Nat
      /\ \A i \in 1 .. Len(items) : items[i] \in Rows /\ items[i].seq \in Int
  BY <1>1, RowNumbers
<1>3. PICK g : FreshSteps(items, cursor, g) /\ FreshRows(items, cursor) = g[Len(items)]
  BY <1>2, FreshRowsUnfolds
<1> DEFINE T == {n \in 0 .. Len(items) : FreshUpTo(items, cursor, n, g[n])}
<1>4. 0 \in T
  <2>1. 0 \in 0 .. Len(items) /\ 1 .. 0 = {}
    BY <1>2
  <2>2. g[0] = [rows |-> << >>, next |-> cursor]
    BY <1>3, <2>1 DEF FreshSteps
  <2> QED BY <2>1, <2>2, NoRows DEF FreshUpTo
<1>5. ASSUME NEW n \in 0 .. Len(items) - 1, n \in T PROVE n + 1 \in T
  <2> DEFINE x == g[n]
             row == items[n + 1]
  <2>1. /\ n + 1 \in 0 .. Len(items) /\ n + 1 # 0 /\ (n + 1) - 1 = n
        /\ n + 1 \in 1 .. Len(items) /\ n \in Nat
        /\ \A i \in 1 .. n + 1 : i \in 1 .. n \/ i = n + 1
        /\ \A i \in 1 .. n : i \in 1 .. n + 1 /\ i < n + 1 /\ i \in 1 .. Len(items)
    BY <1>2
  <2>2. g[n + 1] = TakeRow(x, row)
    BY <1>3, <2>1 DEF FreshSteps
  <2>3. FreshUpTo(items, cursor, n, x)
    BY <1>5
  <2>4. row \in Rows /\ row.seq \in Int
    BY <1>2, <2>1
  <2>5. \A i \in 1 .. n : items[i].seq < row.seq
    BY <1>1, <2>1 DEF Increasing
  <2> HIDE DEF x, row, T
  <2>6. x.next = cursor \/ x.next < row.seq
    BY <2>3, <2>5 DEF FreshUpTo
  <2>7. CASE row.seq <= x.next
    <3>1. TakeRow(x, row) = x
      BY <2>7 DEF TakeRow
    <3>2. x.next = cursor
      BY <2>3, <2>4, <2>6, <2>7 DEF FreshUpTo
    <3>3. ~(cursor < row.seq)
      BY <2>4, <2>7, <3>2
    <3>4. FreshUpTo(items, cursor, n + 1, x)
      BY <2>1, <2>3, <3>2, <3>3 DEF FreshUpTo, row
    <3> QED BY <2>1, <2>2, <3>1, <3>4 DEF T
  <2>8. CASE ~(row.seq <= x.next)
    <3> DEFINE y == [rows |-> Append(x.rows, row), next |-> row.seq]
    <3>1. TakeRow(x, row) = y
      BY <2>8 DEF TakeRow
    <3>2. x.next \in Int /\ cursor <= x.next /\ x.next < row.seq
      BY <2>3, <2>4, <2>8 DEF FreshUpTo
    <3>3. x.rows \in GoodRows /\ Above(x.rows, cursor) /\ UpTo(x.rows, x.next)
      BY <2>3 DEF FreshUpTo
    <3>4. \A i \in 1 .. Len(x.rows) : x.rows[i].seq < row.seq /\ x.rows[i].seq <= row.seq
      <4>1. \A i \in 1 .. Len(x.rows) : x.rows[i].seq \in Int
        BY <3>3, RowNumbers DEF GoodRows
      <4> TAKE i \in 1 .. Len(x.rows)
      <4> DEFINE q == x.rows[i].seq
      <4>2. q \in Int /\ q <= x.next
        BY <3>3, <4>1 DEF UpTo
      <4> HIDE DEF q
      <4>3. q < row.seq /\ q <= row.seq
        BY <2>4, <3>2, <4>2
      <4> QED BY <4>3 DEF q
    <3>5. /\ Append(x.rows, row) \in GoodRows
          /\ \A e : e \in Entries(Append(x.rows, row)) <=> e \in Entries(x.rows) \/ e = row
          /\ Above(Append(x.rows, row), cursor)
          /\ UpTo(Append(x.rows, row), row.seq)
      <4>1. UpTo(x.rows, row.seq) /\ cursor < row.seq /\ row.seq <= row.seq
        BY <2>4, <3>2, <3>4 DEF UpTo
      <4> QED BY <2>4, <3>3, <3>4, <4>1, RowAppended
    <3>6. y.rows = Append(x.rows, row) /\ y.next = row.seq
      OBVIOUS
    <3> HIDE DEF y
    <3>7. \E i \in 1 .. n + 1 : y.next = items[i].seq
      BY <2>1, <3>6 DEF row
    <3>8. \A i \in 1 .. n + 1 : cursor < items[i].seq => items[i] \in Entries(y.rows)
      BY <2>1, <2>3, <3>5, <3>6 DEF FreshUpTo, row
    <3>9. y.next \in Int /\ cursor <= y.next
      BY <2>4, <3>2, <3>6
    <3>10. FreshUpTo(items, cursor, n + 1, y)
      BY <3>5, <3>6, <3>7, <3>8, <3>9 DEF FreshUpTo
    <3> QED BY <2>1, <2>2, <3>1, <3>10 DEF T
  <2> QED BY <2>7, <2>8
<1>6. Len(items) \in T
  <2> HIDE DEF T
  <2>1. \A n \in 0 .. Len(items) : n \in T
    BY <1>2, <1>4, <1>5, CountUp
  <2> QED BY <1>2, <2>1
<1> QED BY <1>3, <1>6

\* What is known of the first n rows past a number.
AboveUpTo(rows, floor, n, x) ==
    /\ x \in GoodRows
    /\ \A i \in 1 .. Len(x) : x[i].seq > floor
    /\ \A i \in 1 .. Len(x) : \E j \in 1 .. n : x[i] = rows[j]

\* The rows above a number are in order, above it and among the rows.
LEMMA RowsAboveAre ==
    ASSUME NEW rows \in GoodRows, NEW floor
    PROVE  AboveUpTo(rows, floor, Len(rows), RowsAbove(rows, floor))
<1>1. rows \in Seq(Rows) /\ Increasing(rows)
  BY DEF GoodRows
<1>2. /\ Len(rows) \in Nat
      /\ \A i \in 1 .. Len(rows) : rows[i] \in Rows /\ rows[i].seq \in Int
  BY <1>1, RowNumbers
<1>3. PICK g : AboveSteps(rows, floor, g) /\ RowsAbove(rows, floor) = g[Len(rows)]
  BY <1>2, RowsAboveUnfolds
<1> DEFINE T == {n \in 0 .. Len(rows) : AboveUpTo(rows, floor, n, g[n])}
<1>4. 0 \in T
  <2>1. 0 \in 0 .. Len(rows) /\ 1 .. 0 = {} /\ Len(<< >>) = 0
    BY <1>2, EmptySeq
  <2>2. g[0] = << >>
    BY <1>3, <2>1 DEF AboveSteps
  <2> QED BY <2>1, <2>2, NoRows DEF AboveUpTo
<1>5. ASSUME NEW n \in 0 .. Len(rows) - 1, n \in T PROVE n + 1 \in T
  <2> DEFINE x == g[n]
             row == rows[n + 1]
  <2>1. /\ n + 1 \in 0 .. Len(rows) /\ n + 1 # 0 /\ (n + 1) - 1 = n
        /\ n + 1 \in 1 .. Len(rows) /\ n \in Nat /\ n + 1 \in 1 .. n + 1
        /\ \A i \in 1 .. n : i \in 1 .. n + 1 /\ i < n + 1 /\ i \in 1 .. Len(rows)
    BY <1>2
  <2>2. g[n + 1] = KeepAbove(x, row, floor)
    BY <1>3, <2>1 DEF AboveSteps
  <2>3. AboveUpTo(rows, floor, n, x)
    BY <1>5
  <2>4. row \in Rows
    BY <1>2, <2>1
  <2>5. \A i \in 1 .. n : rows[i].seq < row.seq
    BY <1>1, <2>1 DEF Increasing
  <2> HIDE DEF x, row, T
  <2>6. CASE ~(row.seq > floor)
    <3>1. KeepAbove(x, row, floor) = x
      BY <2>6 DEF KeepAbove
    <3>2. AboveUpTo(rows, floor, n + 1, x)
      BY <2>1, <2>3 DEF AboveUpTo
    <3> QED BY <2>1, <2>2, <3>1, <3>2 DEF T
  <2>7. CASE row.seq > floor
    <3> DEFINE y == Append(x, row)
               c == Len(x)
    <3>1. KeepAbove(x, row, floor) = y
      BY <2>7 DEF KeepAbove
    <3>2. x \in GoodRows /\ x \in Seq(Rows) /\ c \in Nat
      BY <2>3, LenProperties DEF AboveUpTo, GoodRows
    <3>3. \A i \in 1 .. c : x[i].seq < row.seq
      BY <2>3, <2>5 DEF AboveUpTo
    <3>4. y \in GoodRows
      BY <2>4, <3>2, <3>3, RowAppended
    <3>5. Len(y) = c + 1 /\ y[c + 1] = row /\ \A i \in 1 .. c : y[i] = x[i]
      BY <2>4, <3>2, AppendProperties
    <3>6. \A i \in 1 .. c + 1 : i \in 1 .. c \/ i = c + 1
      BY <3>2
    <3> HIDE DEF y
    <3>7. \A i \in 1 .. c : x[i].seq > floor /\ \E j \in 1 .. n + 1 : x[i] = rows[j]
      BY <2>1, <2>3 DEF AboveUpTo
    <3>8. \E j \in 1 .. n + 1 : row = rows[j]
      BY <2>1 DEF row
    <3> HIDE DEF c
    <3>9. AboveUpTo(rows, floor, n + 1, y)
      BY <2>7, <3>4, <3>5, <3>6, <3>7, <3>8 DEF AboveUpTo
    <3> QED BY <2>1, <2>2, <3>1, <3>9 DEF T
  <2> QED BY <2>6, <2>7
<1>6. Len(rows) \in T
  <2> HIDE DEF T
  <2>1. \A n \in 0 .. Len(rows) : n \in T
    BY <1>2, <1>4, <1>5, CountUp
  <2> QED BY <1>2, <2>1
<1> QED BY <1>3, <1>6

\* What is left of rows up to a bound is up to it.
LEMMA RowsAboveUpTo ==
    ASSUME NEW rows \in GoodRows, NEW floor, NEW m \in Int, UpTo(rows, m)
    PROVE  RowsAbove(rows, floor) \in GoodRows /\ UpTo(RowsAbove(rows, floor), m)
<1>1. AboveUpTo(rows, floor, Len(rows), RowsAbove(rows, floor))
  BY RowsAboveAre
<1> DEFINE x == RowsAbove(rows, floor)
<1> HIDE DEF x
<1>2. AboveUpTo(rows, floor, Len(rows), x)
  BY <1>1 DEF x
<1>3. x \in GoodRows /\ UpTo(x, m)
  BY <1>2 DEF AboveUpTo, UpTo
<1> QED BY <1>3 DEF x

(***************************************************************************)
(* Frames and the session                                                  *)
(***************************************************************************)

\* The frames a runner makes: the rows of one are in order.
GoodFrames == {f \in RunnerFrames : f.t = "positions" => f.items \in GoodRows}

\* What the kinds of frames carry.
LEMMA FrameFacts ==
    ASSUME NEW f \in GoodFrames
    PROVE  /\ f.t \in {"session-start", "risk", "fills", "positions", "stats", "heartbeat", "session-end"}
           /\ f.t = "session-start" => f.run \in Nat
           /\ f.t = "positions" => f.items \in GoodRows
           /\ f.t = "stats" => f.cursor \in Nat
<1>1. f \in RunnerFrames /\ (f.t = "positions" => f.items \in GoodRows)
  BY DEF GoodFrames
<1>2. CASE f \in [t : {"session-start"}, run : Nat]
  BY <1>1, <1>2
<1>3. CASE f \in [t : {"risk"}, switch : {"engaged", "disarmed"}]
  BY <1>1, <1>3
<1>4. CASE f \in [t : {"fills"}, items : Seq(FillRecords)]
  <2>1. f.t = "fills"
    BY <1>4
  <2> QED BY <1>1, <2>1
<1>5. CASE f \in [t : {"positions"}, items : Seq(Rows)]
  <2>1. f.t = "positions"
    BY <1>5
  <2> QED BY <1>1, <2>1
<1>6. CASE f \in [t : {"stats"}, cursor : Nat, window : Nat]
  BY <1>1, <1>6
<1>7. CASE f \in [t : {"heartbeat", "session-end"}]
  BY <1>1, <1>7
<1> QED BY <1>1, <1>2, <1>3, <1>4, <1>5, <1>6, <1>7 DEF RunnerFrames

SessionFields == {"run", "status", "counted", "ring", "cursor", "risk", "fills", "windows",
                  "gauges", "age"}

\* Every row counted is counted once, none is beyond the cursor, and the ring
\* is the end of what was counted.
GoodSession(s) ==
    /\ DOMAIN s = SessionFields
    /\ s.run \in Nat /\ s.status \in Statuses /\ s.age \in Nat
    /\ s.counted \in GoodRows /\ s.cursor \in Int /\ UpTo(s.counted, s.cursor)
    /\ s.ring = Newest(s.counted, RingCap)

\* A session that lacks nothing is as good as what it consists of.
LEMMA SessionOf ==
    ASSUME NEW s, NEW e, GoodSession(s), DOMAIN e = SessionFields,
           e.run \in Nat, e.status \in Statuses, e.age \in Nat,
           e.counted = s.counted, e.cursor \in Int, s.cursor <= e.cursor, e.ring = s.ring
    PROVE  GoodSession(e)
<1>1. s.counted \in GoodRows /\ UpTo(s.counted, s.cursor) /\ s.cursor \in Int
  BY DEF GoodSession
<1>2. \A i \in 1 .. Len(s.counted) : s.counted[i].seq \in Int
  BY <1>1, RowNumbers DEF GoodRows
<1>3. UpTo(s.counted, e.cursor)
  <2> SUFFICES ASSUME NEW i \in 1 .. Len(s.counted) PROVE s.counted[i].seq <= e.cursor
    BY DEF UpTo
  <2> DEFINE q == s.counted[i].seq
  <2>1. q \in Int /\ q <= s.cursor
    BY <1>1, <1>2 DEF UpTo
  <2> HIDE DEF q
  <2>2. q <= e.cursor
    BY <1>1, <2>1
  <2> QED BY <2>2 DEF q
<1> QED BY <1>3 DEF GoodSession

\* The numbers of a fresh session.
LEMMA FreshIsGood ==
    /\ GoodSession(Fresh)
    /\ Fresh.run = NoRun /\ Fresh.status = "idle" /\ Fresh.counted = << >> /\ Fresh.cursor = -1
<1>1. RingCap \in Nat
  BY StreamAssumption
<1>2. << >> \in GoodRows /\ UpTo(<< >>, -1)
  BY NoRows
<1>3. Newest(<< >>, RingCap) = << >>
  <2> DEFINE m == Larger(1, 0 - RingCap + 1)
  <2>1. m \in Int /\ 0 \in Int /\ 0 < m
    BY <1>1 DEF Larger
  <2>2. Newest(<< >>, RingCap) = SubSeq(<< >>, m, 0)
    BY EmptySeq DEF Newest
  <2> HIDE DEF m
  <2> QED BY <2>1, <2>2, SubSeqEmpty
<1>4. NoRun \in Nat /\ 0 \in Nat /\ -1 \in Int
  BY DEF NoRun
<1>5. GoodSession(Fresh)
  BY <1>2, <1>3, <1>4 DEF GoodSession, Fresh, SessionFields, Statuses
<1> QED BY <1>5 DEF Fresh

\* What a frame makes of a session.
Effect(s, f, a) ==
    /\ a.age = 0
    /\ a.status = IF f.t = "session-end" \/ (s.status = "ended" /\ f.t # "session-start")
                  THEN "ended" ELSE "live"
    /\ a.run = IF f.t = "session-start" THEN f.run ELSE s.run
    /\ f.t = "session-start" => a.counted = << >> /\ a.cursor = -1
    /\ f.t = "positions" =>
          /\ a.counted = s.counted \o FreshRows(f.items, s.cursor).rows
          /\ a.cursor = FreshRows(f.items, s.cursor).next
    /\ f.t = "stats" => a.counted = s.counted /\ a.cursor = Larger(s.cursor, f.cursor)
    /\ f.t \notin {"session-start", "positions", "stats"} =>
          a.counted = s.counted /\ a.cursor = s.cursor

\* A frame does what it should, and the session stays as it should be.
LEMMA AppliedIs ==
    ASSUME NEW s, GoodSession(s), NEW f \in GoodFrames
    PROVE  GoodSession(Applied(s, f)) /\ Effect(s, f, Applied(s, f))
<1> DEFINE Ended(n) == [n EXCEPT !.status = IF @ = "ended" THEN @ ELSE "live", !.age = 0]
<1>0. /\ f.t \in {"session-start", "risk", "fills", "positions", "stats", "heartbeat", "session-end"}
      /\ f.t = "session-start" => f.run \in Nat
      /\ f.t = "positions" => f.items \in GoodRows
      /\ f.t = "stats" => f.cursor \in Nat
  BY FrameFacts
<1>1. ASSUME NEW n, DOMAIN n = SessionFields
      PROVE  /\ DOMAIN Ended(n) = SessionFields
             /\ Ended(n).age = 0 /\ Ended(n).status = IF n.status = "ended" THEN "ended" ELSE "live"
             /\ Ended(n).run = n.run /\ Ended(n).counted = n.counted /\ Ended(n).cursor = n.cursor
             /\ Ended(n).ring = n.ring
  BY <1>1 DEF SessionFields
<1> HIDE DEF Ended
<1>2. /\ DOMAIN s = SessionFields /\ s.run \in Nat /\ s.counted \in GoodRows
      /\ s.cursor \in Int /\ UpTo(s.counted, s.cursor) /\ s.ring = Newest(s.counted, RingCap)
  BY DEF GoodSession
<1>3. {"ended", "live"} \subseteq Statuses /\ 0 \in Nat
  BY DEF Statuses
<1>4. ASSUME NEW n, DOMAIN n = SessionFields, n.run \in Nat, n.counted = s.counted,
             n.cursor \in Int, s.cursor <= n.cursor, n.ring = s.ring
      PROVE  GoodSession(Ended(n))
  <2> DEFINE e == Ended(n)
  <2>1. /\ DOMAIN e = SessionFields /\ e.age = 0
        /\ e.status = IF n.status = "ended" THEN "ended" ELSE "live"
        /\ e.run = n.run /\ e.counted = n.counted /\ e.cursor = n.cursor /\ e.ring = n.ring
    BY <1>1, <1>4
  <2> HIDE DEF e
  <2>2. e.status \in Statuses /\ e.age \in Nat
    BY <1>3, <2>1
  <2>3. GoodSession(e)
    BY <1>4, <2>1, <2>2, SessionOf
  <2> QED BY <2>3 DEF e
<1> DEFINE a == Applied(s, f)
<1>5. CASE f.t = "session-start"
  <2> DEFINE n == [Fresh EXCEPT !.run = f.run, !.status = "live"]
  <2>1. a = Ended(n)
    BY <1>5 DEF Applied, Ended
  <2>2. /\ DOMAIN n = SessionFields /\ n.run = f.run /\ n.status = "live"
        /\ n.counted = Fresh.counted /\ n.cursor = Fresh.cursor /\ n.ring = Fresh.ring
    BY DEF Fresh, SessionFields
  <2>3. /\ DOMAIN a = SessionFields /\ a.age = 0 /\ a.status = "live" /\ a.run = f.run
        /\ a.counted = Fresh.counted /\ a.cursor = Fresh.cursor /\ a.ring = Fresh.ring
    <3> HIDE DEF n
    <3> QED BY <1>1, <2>1, <2>2
  <2> HIDE DEF a
  <2>4. a.status \in Statuses /\ a.age \in Nat /\ a.run \in Nat /\ a.cursor \in Int /\ Fresh.cursor <= a.cursor
    BY <1>0, <1>3, <1>5, <2>3, FreshIsGood
  <2>5. GoodSession(a)
    BY <2>3, <2>4, FreshIsGood, SessionOf
  <2>6. Effect(s, f, a)
    BY <1>5, <2>3, FreshIsGood DEF Effect
  <2> QED BY <2>5, <2>6 DEF a
<1>6. CASE f.t = "positions"
  <2> DEFINE fresh == FreshRows(f.items, s.cursor)
             n == WithPositions(s, f.items)
  <2>1. a = Ended(n)
    BY <1>6 DEF Applied, Ended
  <2>2. FreshUpTo(f.items, s.cursor, Len(f.items), fresh)
    BY <1>0, <1>2, <1>6, FreshRowsAre
  <2> HIDE DEF fresh
  <2>3. fresh.rows \in GoodRows /\ fresh.next \in Int /\ s.cursor <= fresh.next
        /\ Above(fresh.rows, s.cursor) /\ UpTo(fresh.rows, fresh.next)
    BY <2>2 DEF FreshUpTo
  <2>4. Larger(s.cursor, fresh.next) = fresh.next
    BY <1>2, <2>3 DEF Larger
  <2>5. /\ DOMAIN n = SessionFields /\ n.run = s.run /\ n.status = s.status
        /\ n.counted = s.counted \o fresh.rows
        /\ n.cursor = Larger(s.cursor, fresh.next)
        /\ n.ring = Newest(s.ring \o fresh.rows, RingCap)
    BY <1>2 DEF WithPositions, SessionFields, fresh
  <2>6. /\ DOMAIN a = SessionFields /\ a.age = 0
        /\ a.status = IF s.status = "ended" THEN "ended" ELSE "live"
        /\ a.run = s.run /\ a.counted = s.counted \o fresh.rows /\ a.cursor = fresh.next
        /\ a.ring = Newest(s.ring \o fresh.rows, RingCap)
    <3> HIDE DEF n
    <3>1. /\ DOMAIN a = SessionFields /\ a.age = 0
          /\ a.status = IF n.status = "ended" THEN "ended" ELSE "live"
          /\ a.run = n.run /\ a.counted = n.counted /\ a.cursor = n.cursor /\ a.ring = n.ring
      BY <1>1, <2>1, <2>5
    <3> HIDE DEF a
    <3> QED BY <2>4, <2>5, <3>1
  <2>7. a.counted \in GoodRows /\ UpTo(a.counted, a.cursor)
    <3>1. UpTo(s.counted, fresh.next)
      <4>1. GoodSession([s EXCEPT !.cursor = fresh.next])
        <5> DEFINE e == [s EXCEPT !.cursor = fresh.next]
        <5>1. /\ DOMAIN e = SessionFields /\ e.run = s.run /\ e.status = s.status /\ e.age = s.age
              /\ e.counted = s.counted /\ e.cursor = fresh.next /\ e.ring = s.ring
          BY <1>2 DEF SessionFields
        <5> HIDE DEF e
        <5>2. GoodSession(e)
          BY <2>3, <5>1, SessionOf DEF GoodSession
        <5> QED BY <5>2 DEF e
      <4>2. /\ [s EXCEPT !.cursor = fresh.next].counted = s.counted
            /\ [s EXCEPT !.cursor = fresh.next].cursor = fresh.next
        BY <1>2 DEF SessionFields
      <4> QED BY <4>1, <4>2 DEF GoodSession
    <3>2. s.counted \o fresh.rows \in GoodRows /\ UpTo(s.counted \o fresh.rows, fresh.next)
      BY <1>2, <2>3, <3>1, RowsJoined
    <3> QED BY <2>6, <3>2
  <2>8. a.ring = Newest(a.counted, RingCap)
    <3>1. RingCap \in Nat /\ s.counted \in Seq(Rows) /\ fresh.rows \in Seq(Rows)
      BY <1>2, <2>3, StreamAssumption DEF GoodRows
    <3> QED BY <1>2, <2>6, <3>1, NewestTwice
  <2> HIDE DEF a
  <2>9. GoodSession(a)
    BY <1>2, <1>3, <2>3, <2>6, <2>7, <2>8 DEF GoodSession
  <2>10. Effect(s, f, a)
    BY <1>6, <2>6 DEF Effect, fresh
  <2> QED BY <2>9, <2>10 DEF a
<1>7. CASE f.t = "stats"
  <2> DEFINE n == WithStats(s, f)
  <2>1. a = Ended(n)
    BY <1>7 DEF Applied, Ended
  <2>2. /\ DOMAIN n = SessionFields /\ n.run = s.run /\ n.status = s.status
        /\ n.counted = s.counted /\ n.cursor = Larger(s.cursor, f.cursor) /\ n.ring = s.ring
    BY <1>2 DEF WithStats, SessionFields
  <2>3. n.cursor \in Int /\ s.cursor <= n.cursor
    BY <1>0, <1>2, <1>7, <2>2 DEF Larger
  <2> HIDE DEF n
  <2>4. /\ a.age = 0 /\ a.status = IF s.status = "ended" THEN "ended" ELSE "live"
        /\ a.run = s.run /\ a.counted = s.counted /\ a.cursor = Larger(s.cursor, f.cursor)
    BY <1>1, <2>1, <2>2
  <2>5. GoodSession(a)
    BY <1>2, <1>4, <2>1, <2>2, <2>3
  <2> HIDE DEF a
  <2>6. Effect(s, f, a)
    BY <1>7, <2>4 DEF Effect
  <2> QED BY <2>5, <2>6 DEF a
<1>8. CASE f.t \in {"heartbeat", "risk", "fills", "session-end"}
  <2>1. PICK n : /\ a = Ended(n) /\ DOMAIN n = SessionFields /\ n.run = s.run
                 /\ n.status = IF f.t = "session-end" THEN "ended" ELSE s.status
                 /\ n.counted = s.counted /\ n.cursor = s.cursor /\ n.ring = s.ring
    <3>1. CASE f.t = "heartbeat"
      <4>1. a = Ended(s)
        BY <3>1 DEF Applied, Ended
      <4> QED BY <1>2, <3>1, <4>1
    <3>2. CASE f.t = "risk"
      <4> DEFINE n == [s EXCEPT !.risk = f.switch]
      <4>1. a = Ended(n)
        BY <3>2 DEF Applied, Ended
      <4>2. DOMAIN n = SessionFields /\ n.run = s.run /\ n.status = s.status
            /\ n.counted = s.counted /\ n.cursor = s.cursor /\ n.ring = s.ring
        BY <1>2 DEF SessionFields
      <4> HIDE DEF n
      <4> QED BY <3>2, <4>1, <4>2
    <3>3. CASE f.t = "fills"
      <4> DEFINE n == WithFills(s, f.items)
      <4>1. a = Ended(n)
        BY <3>3 DEF Applied, Ended
      <4>2. DOMAIN n = SessionFields /\ n.run = s.run /\ n.status = s.status
            /\ n.counted = s.counted /\ n.cursor = s.cursor /\ n.ring = s.ring
        <5> DEFINE x == Newest(Reported(s.fills, f.items), FillCap)
        <5>1. n = [s EXCEPT !.fills = x]
          BY DEF WithFills
        <5> HIDE DEF x, n
        <5> QED BY <1>2, <5>1 DEF SessionFields
      <4> HIDE DEF n
      <4> QED BY <3>3, <4>1, <4>2
    <3>4. CASE f.t = "session-end"
      <4> DEFINE n == [s EXCEPT !.status = "ended"]
      <4>1. a = Ended(n)
        BY <3>4 DEF Applied, Ended
      <4>2. DOMAIN n = SessionFields /\ n.run = s.run /\ n.status = "ended"
            /\ n.counted = s.counted /\ n.cursor = s.cursor /\ n.ring = s.ring
        BY <1>2 DEF SessionFields
      <4> HIDE DEF n
      <4> QED BY <3>4, <4>1, <4>2
    <3> QED BY <1>8, <3>1, <3>2, <3>3, <3>4
  <2>2. /\ a.age = 0 /\ a.status = IF n.status = "ended" THEN "ended" ELSE "live"
        /\ a.run = s.run /\ a.counted = s.counted /\ a.cursor = s.cursor
    BY <1>1, <2>1
  <2>3. GoodSession(a)
    <3>1. s.cursor <= s.cursor
      BY <1>2
    <3> QED BY <1>2, <1>4, <2>1, <3>1
  <2> HIDE DEF a
  <2>4. Effect(s, f, a)
    BY <1>8, <2>1, <2>2 DEF Effect
  <2> QED BY <2>3, <2>4 DEF a
<1> QED BY <1>0, <1>5, <1>6, <1>7, <1>8

(***************************************************************************)
(* Requests                                                                *)
(***************************************************************************)

\* Nothing follows the end of a session in a batch.
EndsLast(b) == \A i \in 1 .. Len(b) : b[i].t = "session-end" => i = Len(b)

\* A batch of frames as a runner makes them.
Batches == {b \in Seq(GoodFrames) : EndsLast(b)}

AnswerFields == {"ok", "s", "started", "relay"}

\* What is known of the first n lines of a request: a refused one changed
\* nothing, and only an ended session refuses.
Read(s, batch, n, acc) ==
    /\ DOMAIN acc = AnswerFields /\ acc.ok \in BOOLEAN /\ acc.started \in BOOLEAN
    /\ GoodSession(acc.s)
    /\ ~acc.ok => acc.s = s /\ s.status = "ended"
    /\ acc.ok => (acc.started <=> \E i \in 1 .. n : batch[i].t = "session-start")
    /\ acc.ok /\ n = 0 => acc.s = s
    /\ acc.ok /\ n > 0 =>
          acc.s.age = 0 /\ acc.s.status = IF batch[n].t = "session-end" THEN "ended" ELSE "live"
    /\ acc.ok /\ ~acc.started => acc.s.run = s.run
    /\ acc.ok /\ acc.started =>
          \E i \in 1 .. n : batch[i].t = "session-start" /\ acc.s.run = batch[i].run
    /\ acc.relay = << >> \/ \E i \in 1 .. n : batch[i].t = "positions" /\ acc.relay = <<batch[i]>>

\* A further line is read as it should be.
LEMMA LineReads ==
    ASSUME NEW s, NEW batch \in Batches, NEW n \in 0 .. Len(batch) - 1, NEW acc,
           Read(s, batch, n, acc)
    PROVE  Read(s, batch, n + 1, IngestLine(acc, batch[n + 1]))
<1> DEFINE f == batch[n + 1]
           next == IngestLine(acc, f)
<1>1. batch \in Seq(GoodFrames) /\ EndsLast(batch) /\ Len(batch) \in Nat
  BY LenProperties DEF Batches
<1>2. /\ n \in Nat /\ n + 1 \in 1 .. Len(batch) /\ n + 1 \in 1 .. n + 1 /\ n + 1 > 0 /\ n + 1 # 0
      /\ \A i \in 1 .. n : i \in 1 .. n + 1
      /\ \A i \in 1 .. n + 1 : i \in 1 .. n \/ i = n + 1
      /\ n # 0 => n \in 1 .. Len(batch) /\ n # Len(batch) /\ n > 0
  BY <1>1
<1>3. f \in GoodFrames
  BY <1>1, <1>2, ElementOfSeq
<1>4. /\ DOMAIN acc = AnswerFields /\ acc.ok \in BOOLEAN /\ acc.started \in BOOLEAN
      /\ GoodSession(acc.s)
      /\ ~acc.ok => acc.s = s /\ s.status = "ended"
      /\ acc.ok => (acc.started <=> \E i \in 1 .. n : batch[i].t = "session-start")
      /\ acc.ok /\ n = 0 => acc.s = s
      /\ acc.ok /\ n > 0 =>
            acc.s.age = 0 /\ acc.s.status = IF batch[n].t = "session-end" THEN "ended" ELSE "live"
      /\ acc.ok /\ ~acc.started => acc.s.run = s.run
      /\ acc.ok /\ acc.started =>
            \E i \in 1 .. n : batch[i].t = "session-start" /\ acc.s.run = batch[i].run
      /\ acc.relay = << >> \/ \E i \in 1 .. n : batch[i].t = "positions" /\ acc.relay = <<batch[i]>>
  BY DEF Read
<1>5. acc.relay = << >> \/ \E i \in 1 .. n + 1 : batch[i].t = "positions" /\ acc.relay = <<batch[i]>>
  BY <1>2, <1>4
<1>6. CASE ~acc.ok \/ (acc.s.status = "ended" /\ f.t # "session-start")
  <2>1. next = [acc EXCEPT !.ok = FALSE]
    BY <1>6 DEF IngestLine
  <2>2. /\ DOMAIN next = AnswerFields /\ next.ok = FALSE /\ next.s = acc.s
        /\ next.started = acc.started /\ next.relay = acc.relay
    BY <1>4, <2>1 DEF AnswerFields
  <2>3. acc.s = s /\ s.status = "ended"
    <3>1. CASE acc.ok
      <4>1. acc.s.status = "ended"
        BY <1>6, <3>1
      <4>2. n = 0
        <5> SUFFICES ASSUME n # 0 PROVE FALSE
          OBVIOUS
        <5>1. n \in 1 .. Len(batch) /\ n # Len(batch) /\ n > 0
          BY <1>2
        <5>2. batch[n].t # "session-end"
          BY <1>1, <5>1 DEF EndsLast
        <5> QED BY <1>4, <3>1, <4>1, <5>1, <5>2
      <4> QED BY <1>4, <3>1, <4>1, <4>2
    <3> QED BY <1>4, <3>1
  <2> HIDE DEF next, f
  <2>4. Read(s, batch, n + 1, next)
    BY <1>4, <1>5, <2>2, <2>3 DEF Read
  <2> QED BY <2>4 DEF next, f
<1>7. CASE acc.ok /\ ~(acc.s.status = "ended" /\ f.t # "session-start")
  <2> DEFINE a == Applied(acc.s, f)
  <2>1. next = [ok |-> TRUE, s |-> a, started |-> acc.started \/ f.t = "session-start",
                relay |-> IF f.t = "positions" THEN <<f>> ELSE acc.relay]
    BY <1>7 DEF IngestLine
  <2>2. GoodSession(a) /\ Effect(acc.s, f, a)
    BY <1>3, <1>4, AppliedIs
  <2> HIDE DEF a
  <2>3. /\ DOMAIN next = AnswerFields /\ next.ok = TRUE /\ next.s = a
        /\ next.started = (acc.started \/ f.t = "session-start")
        /\ next.relay = IF f.t = "positions" THEN <<f>> ELSE acc.relay
    BY <2>1 DEF AnswerFields
  <2> HIDE DEF next
  <2>4. a.age = 0 /\ a.status = IF f.t = "session-end" THEN "ended" ELSE "live"
    BY <1>7, <2>2 DEF Effect
  <2>5. a.run = IF f.t = "session-start" THEN f.run ELSE acc.s.run
    BY <2>2 DEF Effect
  <2>6. next.started \in BOOLEAN
    BY <1>4, <2>3
  <2>7. next.started <=> \E i \in 1 .. n + 1 : batch[i].t = "session-start"
    <3>1. next.started <=> acc.started \/ f.t = "session-start"
      BY <1>4, <2>3
    <3>2. acc.started <=> \E i \in 1 .. n : batch[i].t = "session-start"
      BY <1>4, <1>7
    <3> QED BY <1>2, <3>1, <3>2
  <2>8. ~next.started => a.run = s.run
    <3> HAVE ~next.started
    <3>1. ~acc.started /\ f.t # "session-start"
      BY <1>4, <2>3
    <3> QED BY <1>4, <1>7, <2>5, <3>1
  <2>9. next.started => \E i \in 1 .. n + 1 : batch[i].t = "session-start" /\ a.run = batch[i].run
    <3> HAVE next.started
    <3>1. CASE f.t = "session-start"
      BY <1>2, <2>5, <3>1
    <3>2. CASE f.t # "session-start"
      <4>1. acc.started /\ a.run = acc.s.run
        BY <1>4, <2>3, <2>5, <3>2
      <4> QED BY <1>2, <1>4, <1>7, <4>1
    <3> QED BY <3>1, <3>2
  <2>10. next.relay = << >> \/ \E i \in 1 .. n + 1 : batch[i].t = "positions" /\ next.relay = <<batch[i]>>
    <3>1. CASE f.t = "positions"
      BY <1>2, <2>3, <3>1
    <3>2. CASE f.t # "positions"
      BY <1>5, <2>3, <3>2
    <3> QED BY <3>1, <3>2
  <2>11. Read(s, batch, n + 1, next)
    BY <1>2, <2>2, <2>3, <2>4, <2>6, <2>7, <2>8, <2>9, <2>10 DEF Read
  <2> QED BY <2>11 DEF next
<1> QED BY <1>4, <1>6, <1>7

\* A request is read as it should be.
LEMMA IngestReads ==
    ASSUME NEW s, GoodSession(s), NEW batch \in Batches
    PROVE  Read(s, batch, Len(batch), Ingest(s, batch))
<1>1. Len(batch) \in Nat
  BY LenProperties DEF Batches
<1>2. PICK g : IngestSteps(s, batch, g) /\ Ingest(s, batch) = g[Len(batch)]
  BY <1>1, IngestUnfolds
<1> DEFINE T == {n \in 0 .. Len(batch) : Read(s, batch, n, g[n])}
<1>3. 0 \in T
  <2>1. 0 \in 0 .. Len(batch) /\ 1 .. 0 = {} /\ ~(0 > 0)
    BY <1>1
  <2>2. g[0] = Unread(s)
    BY <1>2, <2>1 DEF IngestSteps
  <2> DEFINE acc == Unread(s)
  <2>3. /\ DOMAIN acc = AnswerFields /\ acc.ok = TRUE /\ acc.started = FALSE /\ acc.s = s
        /\ acc.relay = << >>
    BY DEF Unread, AnswerFields
  <2> HIDE DEF acc
  <2>4. Read(s, batch, 0, acc)
    BY <2>1, <2>3 DEF Read
  <2> QED BY <2>1, <2>2, <2>4 DEF acc
<1>4. ASSUME NEW n \in 0 .. Len(batch) - 1, n \in T PROVE n + 1 \in T
  <2>1. n + 1 \in 0 .. Len(batch) /\ n + 1 # 0 /\ (n + 1) - 1 = n
    BY <1>1
  <2>2. g[n + 1] = IngestLine(g[n], batch[n + 1])
    BY <1>2, <2>1 DEF IngestSteps
  <2>3. Read(s, batch, n + 1, IngestLine(g[n], batch[n + 1]))
    BY <1>4, LineReads
  <2> QED BY <2>1, <2>2, <2>3
<1>5. Len(batch) \in T
  <2> HIDE DEF T
  <2>1. \A n \in 0 .. Len(batch) : n \in T
    BY <1>1, <1>3, <1>4, CountUp
  <2> QED BY <1>1, <2>1
<1> QED BY <1>2, <1>5

\* What an answer says.
LEMMA AnswerFacts ==
    ASSUME NEW s, GoodSession(s), NEW batch \in Batches, batch # << >>, NEW done,
           done = Ingest(s, batch)
    PROVE  /\ done.ok \in BOOLEAN /\ done.started \in BOOLEAN /\ GoodSession(done.s)
           /\ ~done.ok => done.s = s /\ s.status = "ended"
           /\ done.ok => done.s.age = 0 /\ (done.started <=> Has(batch, "session-start"))
           /\ done.ok /\ ~Has(batch, "session-end") => done.s.status = "live"
           /\ done.ok /\ ~done.started => done.s.run = s.run
           /\ done.ok /\ done.started =>
                 \E i \in 1 .. Len(batch) : batch[i].t = "session-start" /\ done.s.run = batch[i].run
           /\ \/ done.relay = << >>
              \/ \E f \in GoodFrames : f.t = "positions" /\ done.relay = <<f>>
<1> DEFINE n == Len(batch)
<1>1. batch \in Seq(GoodFrames) /\ n \in Nat /\ n > 0 /\ n \in 1 .. n
  <2>1. batch \in Seq(GoodFrames) /\ n \in Nat \ {0}
    BY EmptySeq, LenProperties DEF Batches
  <2> QED BY <2>1
<1>2. Read(s, batch, n, done)
  BY IngestReads
<1>3. \A i \in 1 .. n : batch[i] \in GoodFrames
  BY <1>1, ElementOfSeq
<1>4. done.relay = << >> \/ \E f \in GoodFrames : f.t = "positions" /\ done.relay = <<f>>
  BY <1>2, <1>3 DEF Read
<1>5. done.ok /\ ~Has(batch, "session-end") => done.s.status = "live"
  BY <1>1, <1>2 DEF Read, Has
<1> HIDE DEF n
<1> QED BY <1>1, <1>2, <1>4, <1>5 DEF Read, Has, n

(***************************************************************************)
(* Frames in a row                                                         *)
(***************************************************************************)

\* The members of two sequences one after the other.
LEMMA EntriesJoined ==
    ASSUME NEW S, NEW a \in Seq(S), NEW b \in Seq(S)
    PROVE  Entries(a \o b) = Entries(a) \cup Entries(b)
<1> DEFINE p == Len(a)
           q == Len(b)
           c == a \o b
<1>1. p \in Nat /\ q \in Nat /\ Len(c) = p + q
      /\ \A i \in 1 .. p + q : c[i] = IF i <= p THEN a[i] ELSE b[i - p]
  BY LenProperties, ConcatProperties
<1> HIDE DEF p, q, c
<1>2. \A i \in 1 .. p : i \in 1 .. p + q /\ c[i] = a[i]
  BY <1>1
<1>3. \A i \in 1 .. q : p + i \in 1 .. p + q /\ c[p + i] = b[i]
  <2>1. \A i \in 1 .. q : p + i \in 1 .. p + q /\ ~(p + i <= p) /\ (p + i) - p = i
    BY <1>1
  <2> QED BY <1>1, <2>1
<1>4. \A i \in 1 .. p + q : i \in 1 .. p \/ (i - p \in 1 .. q /\ p + (i - p) = i)
  BY <1>1
<1>5. \A i \in 1 .. p + q : c[i] \in Entries(a) \/ c[i] \in Entries(b)
  BY <1>2, <1>3, <1>4 DEF Entries, p, q
<1>6. Entries(c) \subseteq Entries(a) \cup Entries(b)
  BY <1>1, <1>5 DEF Entries
<1>7. Entries(a) \subseteq Entries(c)
  BY <1>1, <1>2 DEF Entries, p
<1>8. Entries(b) \subseteq Entries(c)
  <2> SUFFICES ASSUME NEW i \in 1 .. q PROVE b[i] \in Entries(c)
    BY DEF Entries, q
  <2>1. p + i \in 1 .. Len(c) /\ c[p + i] = b[i]
    BY <1>1, <1>3
  <2> QED BY <2>1 DEF Entries
<1> QED BY <1>6, <1>7, <1>8 DEF c

\* Joining is associative.
LEMMA JoinsAssociate ==
    ASSUME NEW S
    PROVE  \A a, b, c \in Seq(S) : a \o (b \o c) = (a \o b) \o c
<1> TAKE a, b, c \in Seq(S)
<1> QED BY ConcatAssociative

\* The members of short sequences.
LEMMA EntriesOfFew ==
    /\ Entries(<< >>) = {}
    /\ \A x : Entries(<<x>>) = {x}
    /\ \A x, y : Entries(<<x, y>>) = {x, y}
<1>1. Len(<< >>) = 0 /\ 1 .. 0 = {}
  BY EmptySeq
<1>2. Entries(<< >>) = {}
  BY <1>1 DEF Entries
<1>3. 1 .. 1 = {1} /\ 1 .. 2 = {1, 2}
  OBVIOUS
<1>4. \A x : Entries(<<x>>) = {x}
  <2> TAKE x
  <2>1. Len(<<x>>) = 1 /\ <<x>>[1] = x
    OBVIOUS
  <2> QED BY <1>3, <2>1 DEF Entries
<1>5. \A x, y : Entries(<<x, y>>) = {x, y}
  <2> TAKE x, y
  <2>1. Len(<<x, y>>) = 2 /\ <<x, y>>[1] = x /\ <<x, y>>[2] = y
    OBVIOUS
  <2> QED BY <1>3, <2>1 DEF Entries
<1> QED BY <1>2, <1>4, <1>5

\* The rows a frame carries.
RowsIn(f) == IF f.t = "positions" THEN Entries(f.items) ELSE {}

\* What a batch has and carries, by its members.
LEMMA ByMembers ==
    /\ \A b, k : Has(b, k) <=> \E f \in Entries(b) : f.t = k
    /\ \A b, row : row \in RowsOf(b) <=> \E f \in Entries(b) : row \in RowsIn(f)
<1>1. \A b, k : Has(b, k) <=> \E f \in Entries(b) : f.t = k
  BY DEF Has, Entries
<1>2. ASSUME NEW b PROVE RowsOf(b) = UNION {RowsIn(b[i]) : i \in 1 .. Len(b)}
  BY DEF RowsOf, RowsIn, Entries
<1>3. ASSUME NEW b, NEW row PROVE row \in RowsOf(b) <=> \E f \in Entries(b) : row \in RowsIn(f)
  <2>1. row \in RowsOf(b) <=> \E i \in 1 .. Len(b) : row \in RowsIn(b[i])
    BY <1>2
  <2> QED BY <2>1 DEF Entries
<1> QED BY <1>1, <1>3

\* A batch of one.
LEMMA ByOne ==
    /\ \A f, k : Has(<<f>>, k) <=> f.t = k
    /\ \A f : RowsOf(<<f>>) = RowsIn(f)
<1>1. \A f, k : Has(<<f>>, k) <=> f.t = k
  <2> TAKE f, k
  <2>1. Has(<<f>>, k) <=> \E e \in Entries(<<f>>) : e.t = k
    BY ByMembers
  <2> QED BY <2>1, EntriesOfFew
<1>2. \A f : RowsOf(<<f>>) = RowsIn(f)
  <2> TAKE f
  <2>1. \A row : row \in RowsOf(<<f>>) <=> \E e \in Entries(<<f>>) : row \in RowsIn(e)
    BY ByMembers
  <2>2. Entries(<<f>>) = {f}
    BY EntriesOfFew
  <2>3. \A row : row \in RowsOf(<<f>>) <=> row \in RowsIn(f)
    BY <2>1, <2>2
  <2> DEFINE A == RowsOf(<<f>>)
             B == RowsIn(f)
  <2>4. \A row : row \in A <=> row \in B
    BY <2>3
  <2> HIDE DEF A, B
  <2>5. A = B
    BY <2>4
  <2> QED BY <2>5 DEF A, B
<1> QED BY <1>1, <1>2

\* Batches one after the other have and carry what both do.
LEMMA ToldJoined ==
    ASSUME NEW S, NEW a \in Seq(S), NEW b \in Seq(S)
    PROVE  /\ \A k : Has(a \o b, k) <=> Has(a, k) \/ Has(b, k)
           /\ RowsOf(a \o b) = RowsOf(a) \cup RowsOf(b)
<1>1. Entries(a \o b) = Entries(a) \cup Entries(b)
  BY EntriesJoined
<1>2. \A k : Has(a \o b, k) <=> Has(a, k) \/ Has(b, k)
  BY <1>1, ByMembers
<1>3. \A row : row \in RowsOf(a \o b) <=> row \in RowsOf(a) \/ row \in RowsOf(b)
  <2> TAKE row
  <2>1. /\ row \in RowsOf(a \o b) <=> \E f \in Entries(a \o b) : row \in RowsIn(f)
        /\ row \in RowsOf(a) <=> \E f \in Entries(a) : row \in RowsIn(f)
        /\ row \in RowsOf(b) <=> \E f \in Entries(b) : row \in RowsIn(f)
    BY ByMembers
  <2> QED BY <1>1, <2>1
<1> QED BY <1>2, <1>3

\* The same, for all batches.
LEMMA HasJoined ==
    ASSUME NEW S
    PROVE  \A a, b \in Seq(S) : \A k : Has(a \o b, k) <=> Has(a, k) \/ Has(b, k)
<1> TAKE a, b \in Seq(S)
<1> QED BY ToldJoined

\* The end of a session comes last in what it is appended to.
LEMMA EndsLastJoined ==
    ASSUME NEW S, NEW a \in Seq(S), NEW b \in Seq(S)
    PROVE  /\ ~Has(a, "session-end") /\ EndsLast(b) => EndsLast(a \o b)
           /\ EndsLast(a \o b) => EndsLast(a) /\ EndsLast(b) /\ (b # << >> => ~Has(a, "session-end"))
<1> DEFINE p == Len(a)
           q == Len(b)
           c == a \o b
<1>1. p \in Nat /\ q \in Nat /\ Len(c) = p + q
      /\ (\A i \in 1 .. p + q : c[i] = IF i <= p THEN a[i] ELSE b[i - p])
      /\ (b # << >> => q > 0)
  BY LenProperties, ConcatProperties, EmptySeq
<1> HIDE DEF p, q, c
<1>2. \A i \in 1 .. p : i \in 1 .. p + q /\ c[i] = a[i] /\ (i = p + q => q = 0 /\ i = p)
  BY <1>1
<1>3. \A i \in 1 .. q : p + i \in 1 .. p + q /\ c[p + i] = b[i] /\ (p + i = p + q => i = q)
  <2>1. \A i \in 1 .. q : p + i \in 1 .. p + q /\ ~(p + i <= p) /\ (p + i) - p = i /\ (p + i = p + q => i = q)
    BY <1>1
  <2> QED BY <1>1, <2>1
<1>4. \A i \in 1 .. p + q : i \in 1 .. p \/ (i - p \in 1 .. q /\ p + (i - p) = i)
  BY <1>1
<1>5. ~Has(a, "session-end") /\ EndsLast(b) => EndsLast(c)
  <2> SUFFICES ASSUME ~Has(a, "session-end"), EndsLast(b), NEW i \in 1 .. p + q, c[i].t = "session-end"
               PROVE  i = p + q
    BY <1>1 DEF EndsLast
  <2>1. i \notin 1 .. p
    BY <1>2 DEF Has, p
  <2>2. i - p \in 1 .. q /\ p + (i - p) = i
    BY <1>4, <2>1
  <2>3. b[i - p].t = "session-end"
    BY <1>3, <2>2
  <2>4. i - p = q
    BY <2>2, <2>3 DEF EndsLast, q
  <2> QED BY <1>1, <2>2, <2>4
<1>6. ASSUME EndsLast(c) PROVE EndsLast(a) /\ EndsLast(b) /\ (b # << >> => ~Has(a, "session-end"))
  <2>1. \A i \in 1 .. p + q : c[i].t = "session-end" => i = p + q
    BY <1>1, <1>6 DEF EndsLast
  <2>2. EndsLast(a)
    BY <1>2, <2>1 DEF EndsLast, p
  <2>3. EndsLast(b)
    BY <1>3, <2>1 DEF EndsLast, q
  <2>4. b # << >> => ~Has(a, "session-end")
    <3> SUFFICES ASSUME b # << >>, NEW i \in 1 .. p, a[i].t = "session-end" PROVE FALSE
      BY DEF Has, p
    <3>1. i = p + q
      BY <1>2, <2>1
    <3> QED BY <1>1, <1>2, <3>1
  <2> QED BY <2>2, <2>3, <2>4
<1> QED BY <1>5, <1>6 DEF c

\* What ends in nothing or does not end at all ends last.
LEMMA EndsLastOfFew ==
    /\ EndsLast(<< >>) /\ \A f : EndsLast(<<f>>)
    /\ \A b : ~Has(b, "session-end") => EndsLast(b)
    /\ \A k : ~Has(<< >>, k)
<1>1. Len(<< >>) = 0 /\ 1 .. 0 = {}
  BY EmptySeq
<1>2. \A f : EndsLast(<<f>>)
  BY DEF EndsLast
<1> QED BY <1>1, <1>2 DEF EndsLast, Has

\* The rows and the statistics of a frame name these numbers.
Marks(f) ==
    CASE f.t = "positions" -> {row.seq : row \in Entries(f.items)}
      [] f.t = "stats" -> {f.cursor}
      [] f.t \notin {"positions", "stats"} -> {}

\* What the marks are for each kind of frame.
LEMMA MarksAre ==
    ASSUME NEW f
    PROVE  /\ f.t = "positions" => Marks(f) = {row.seq : row \in Entries(f.items)}
           /\ f.t = "stats" => Marks(f) = {f.cursor}
           /\ f.t \notin {"positions", "stats"} => Marks(f) = {}
BY DEF Marks

\* The frames of a run that has used numbers up to top.
OwnFrames(run, top) ==
    {f \in GoodFrames : (f.t = "session-start" => f.run = run) /\ \A m \in Marks(f) : m <= top}

\* Marks are natural numbers.
LEMMA MarksAreNumbers ==
    ASSUME NEW f \in GoodFrames
    PROVE  /\ Marks(f) \subseteq Nat
           /\ \A row \in RowsIn(f) : row \in Rows /\ row.seq \in Marks(f)
<1>1. CASE f.t = "positions"
  <2>1. f.items \in Seq(Rows)
    BY <1>1, FrameFacts DEF GoodRows
  <2>2. \A row \in Entries(f.items) : row \in Rows
    BY <2>1, ElementOfSeq DEF Entries
  <2>3. \A row \in Rows : row.seq \in Nat
    BY DEF Rows
  <2> QED BY <1>1, <2>2, <2>3, MarksAre DEF RowsIn
<1>2. CASE f.t = "stats"
  BY <1>2, FrameFacts, MarksAre DEF RowsIn
<1>3. CASE f.t \notin {"positions", "stats"}
  BY <1>3, MarksAre DEF RowsIn
<1> QED BY <1>1, <1>2, <1>3

\* A run's frames stay its frames as it uses more numbers.
LEMMA OwnGrows ==
    ASSUME NEW run, NEW top \in Nat, NEW more \in Nat, top <= more
    PROVE  /\ OwnFrames(run, top) \subseteq OwnFrames(run, more)
           /\ Seq(OwnFrames(run, top)) \subseteq Seq(OwnFrames(run, more))
<1>1. OwnFrames(run, top) \subseteq OwnFrames(run, more)
  <2> SUFFICES ASSUME NEW f \in OwnFrames(run, top) PROVE f \in OwnFrames(run, more)
    OBVIOUS
  <2>1. f \in GoodFrames /\ (f.t = "session-start" => f.run = run) /\ \A m \in Marks(f) : m <= top
    BY DEF OwnFrames
  <2>2. \A m \in Marks(f) : m \in Nat
    BY <2>1, MarksAreNumbers
  <2>3. \A m \in Marks(f) : m <= more
    BY <2>1, <2>2
  <2> QED BY <2>1, <2>3 DEF OwnFrames
<1>2. \A s \in Seq(OwnFrames(run, top)) : s \in Seq(OwnFrames(run, more))
  BY <1>1, SeqMonotonic
<1> QED BY <1>1, <1>2

\* A run's frames are frames.
LEMMA OwnAreGood ==
    ASSUME NEW run, NEW top
    PROVE  /\ OwnFrames(run, top) \subseteq GoodFrames
           /\ Seq(OwnFrames(run, top)) \subseteq Seq(GoodFrames)
<1>1. OwnFrames(run, top) \subseteq GoodFrames
  BY DEF OwnFrames
<1>2. \A s \in Seq(OwnFrames(run, top)) : s \in Seq(GoodFrames)
  BY <1>1, SeqMonotonic
<1> QED BY <1>1, <1>2

(***************************************************************************)
(* The frames that are made                                                *)
(***************************************************************************)

\* What each kind of frame is among the frames of a run.
LEMMA FramesMade ==
    ASSUME NEW run \in Nat, NEW top \in Nat
    PROVE  /\ [t |-> "session-start", run |-> run] \in OwnFrames(run, top)
           /\ [t |-> "risk", switch |-> "engaged"] \in OwnFrames(run, top)
           /\ [t |-> "session-end"] \in OwnFrames(run, top)
           /\ [t |-> "heartbeat"] \in OwnFrames(run, top)
           /\ \A items \in Seq(FillRecords) : [t |-> "fills", items |-> items] \in OwnFrames(run, top)
           /\ \A items \in GoodRows :
                 (\A row \in Entries(items) : row.seq <= top)
                    => [t |-> "positions", items |-> items] \in OwnFrames(run, top)
           /\ \A cursor, window \in Nat :
                 cursor <= top => [t |-> "stats", cursor |-> cursor, window |-> window] \in OwnFrames(run, top)
<1>1. ASSUME NEW f \in RunnerFrames, f.t \notin {"positions", "stats"}, f.t = "session-start" => f.run = run
      PROVE  f \in OwnFrames(run, top)
  <2>1. f \in GoodFrames
    BY <1>1 DEF GoodFrames
  <2>2. Marks(f) = {}
    BY <1>1, MarksAre
  <2> QED BY <1>1, <2>1, <2>2 DEF OwnFrames
<1>2. [t |-> "session-start", run |-> run] \in OwnFrames(run, top)
  <2> DEFINE f == [t |-> "session-start", run |-> run]
  <2>1. f \in RunnerFrames /\ f.t = "session-start" /\ f.run = run
    BY DEF RunnerFrames
  <2> HIDE DEF f
  <2>2. f \in OwnFrames(run, top)
    BY <1>1, <2>1
  <2> QED BY <2>2 DEF f
<1>3. [t |-> "risk", switch |-> "engaged"] \in OwnFrames(run, top)
  <2> DEFINE f == [t |-> "risk", switch |-> "engaged"]
  <2>1. f \in RunnerFrames /\ f.t = "risk"
    BY DEF RunnerFrames
  <2> HIDE DEF f
  <2>2. f \in OwnFrames(run, top)
    BY <1>1, <2>1
  <2> QED BY <2>2 DEF f
<1>4. [t |-> "session-end"] \in OwnFrames(run, top)
  <2> DEFINE f == [t |-> "session-end"]
  <2>1. f \in RunnerFrames /\ f.t = "session-end"
    BY DEF RunnerFrames
  <2> HIDE DEF f
  <2>2. f \in OwnFrames(run, top)
    BY <1>1, <2>1
  <2> QED BY <2>2 DEF f
<1>5. [t |-> "heartbeat"] \in OwnFrames(run, top)
  <2> DEFINE f == [t |-> "heartbeat"]
  <2>1. f \in RunnerFrames /\ f.t = "heartbeat"
    BY DEF RunnerFrames
  <2> HIDE DEF f
  <2>2. f \in OwnFrames(run, top)
    BY <1>1, <2>1
  <2> QED BY <2>2 DEF f
<1>6. ASSUME NEW items \in Seq(FillRecords)
      PROVE  [t |-> "fills", items |-> items] \in OwnFrames(run, top)
  <2> DEFINE f == [t |-> "fills", items |-> items]
  <2>1. f \in [t : {"fills"}, items : Seq(FillRecords)] /\ f.t = "fills"
    OBVIOUS
  <2> HIDE DEF f
  <2>2. f \in OwnFrames(run, top)
    BY <1>1, <2>1 DEF RunnerFrames
  <2> QED BY <2>2 DEF f
<1>7. ASSUME NEW items \in GoodRows, \A row \in Entries(items) : row.seq <= top
      PROVE  [t |-> "positions", items |-> items] \in OwnFrames(run, top)
  <2> DEFINE f == [t |-> "positions", items |-> items]
  <2>1. f \in [t : {"positions"}, items : Seq(Rows)] /\ f.t = "positions" /\ f.items = items
    BY DEF GoodRows
  <2> HIDE DEF f
  <2>2. f \in GoodFrames
    BY <2>1 DEF RunnerFrames, GoodFrames
  <2>3. \A m \in Marks(f) : m <= top
    BY <1>7, <2>1, MarksAre
  <2>4. f \in OwnFrames(run, top)
    BY <2>1, <2>2, <2>3 DEF OwnFrames
  <2> QED BY <2>4 DEF f
<1>8. ASSUME NEW cursor \in Nat, NEW window \in Nat, cursor <= top
      PROVE  [t |-> "stats", cursor |-> cursor, window |-> window] \in OwnFrames(run, top)
  <2> DEFINE f == [t |-> "stats", cursor |-> cursor, window |-> window]
  <2>1. f \in [t : {"stats"}, cursor : Nat, window : Nat] /\ f.t = "stats" /\ f.cursor = cursor
    OBVIOUS
  <2> HIDE DEF f
  <2>2. f \in GoodFrames
    BY <2>1 DEF RunnerFrames, GoodFrames
  <2>3. \A m \in Marks(f) : m <= top
    BY <1>8, <2>1, MarksAre
  <2>4. f \in OwnFrames(run, top)
    BY <2>1, <2>2, <2>3 DEF OwnFrames
  <2> QED BY <2>4 DEF f
<1> QED BY <1>2, <1>3, <1>4, <1>5, <1>6, <1>7, <1>8

\* A fill is a report.
LEMMA FillMade ==
    ASSUME NEW n \in Nat
    PROVE  /\ <<[order |-> n, venueId |-> "given", status |-> "open"]>> \in Seq(FillRecords)
           /\ <<[order |-> n, venueId |-> "none", status |-> "settled"]>> \in Seq(FillRecords)
<1>1. /\ [order |-> n, venueId |-> "given", status |-> "open"] \in FillRecords
      /\ [order |-> n, venueId |-> "none", status |-> "settled"] \in FillRecords
  BY DEF FillRecords
<1> QED BY <1>1

\* A row that is numbered from one up is a row, within the numbers used.
LEMMA RowMade ==
    ASSUME runner.run \in Nat, NEW n \in Nat, n > 0
    PROVE  /\ Row(n) \in Rows /\ Row(n).run = runner.run /\ Row(n).seq = RowSeq(n)
           /\ RowSeq(n) \in Nat /\ RowSeq(n) <= n /\ (Runner = "prod" => RowSeq(n) = n)
<1>1. RowSeq(n) \in Nat /\ RowSeq(n) <= n
  <2>1. CASE Runner = "live"
    <3>1. RowSeq(n) = n - 1
      BY <2>1 DEF RowSeq
    <3>2. n - 1 \in Nat /\ n - 1 <= n
      OBVIOUS
    <3> QED BY <3>1, <3>2
  <2>2. CASE Runner # "live"
    <3>1. RowSeq(n) = n
      BY <2>2 DEF RowSeq
    <3>2. n <= n
      OBVIOUS
    <3> QED BY <3>1, <3>2
  <2> QED BY <2>1, <2>2
<1>2. Runner = "prod" => RowSeq(n) = n
  BY DEF RowSeq
<1> QED BY <1>1, <1>2 DEF Row, Rows

\* The rows of a window are in order and within the numbers used.
LEMMA WindowRows ==
    ASSUME runner.run \in Nat, NEW a \in Nat, NEW k \in Nat, NEW rows,
           rows = [i \in 1 .. k |-> Row(a + i)]
    PROVE  rows \in GoodRows /\ \A row \in Entries(rows) : row \in Rows /\ row.run = runner.run /\ row.seq <= a + k
<1>1. \A i \in 1 .. k : /\ a + i \in Nat /\ a + i > 0 /\ a + i <= a + k
                        /\ Row(a + i) \in Rows /\ Row(a + i).run = runner.run
                        /\ Row(a + i).seq = RowSeq(a + i) /\ RowSeq(a + i) \in Nat /\ RowSeq(a + i) <= a + i
  <2> TAKE i \in 1 .. k
  <2>1. a + i \in Nat /\ a + i > 0 /\ a + i <= a + k
    OBVIOUS
  <2> QED BY <2>1, RowMade
<1>2. rows \in [1 .. k -> Rows]
  BY <1>1
<1>3. rows \in Seq(Rows) /\ Len(rows) = k
  BY <1>2, SequenceOf
<1>4. \A i, j \in 1 .. k : i < j => rows[i].seq < rows[j].seq
  <2> SUFFICES ASSUME NEW i \in 1 .. k, NEW j \in 1 .. k, i < j PROVE rows[i].seq < rows[j].seq
    OBVIOUS
  <2>1. rows[i].seq = RowSeq(a + i) /\ rows[j].seq = RowSeq(a + j)
    BY <1>1
  <2>2. RowSeq(a + i) < RowSeq(a + j)
    <3>1. CASE Runner = "live"
      <4>1. RowSeq(a + i) = (a + i) - 1 /\ RowSeq(a + j) = (a + j) - 1
        BY <3>1 DEF RowSeq
      <4> QED BY <4>1
    <3>2. CASE Runner # "live"
      <4>1. RowSeq(a + i) = a + i /\ RowSeq(a + j) = a + j
        BY <3>2 DEF RowSeq
      <4> QED BY <4>1
    <3> QED BY <3>1, <3>2
  <2> QED BY <2>1, <2>2
<1>5. rows \in GoodRows
  BY <1>3, <1>4 DEF GoodRows, Increasing
<1>6. \A i \in 1 .. k : rows[i] \in Rows /\ rows[i].run = runner.run /\ rows[i].seq <= a + k
  <2> TAKE i \in 1 .. k
  <2>1. rows[i] = Row(a + i)
    OBVIOUS
  <2> DEFINE q == RowSeq(a + i)
  <2>2. q \in Nat /\ q <= a + i /\ Row(a + i).seq = q
    BY <1>1
  <2> HIDE DEF q
  <2>3. q <= a + k
    BY <2>2
  <2> QED BY <1>1, <2>1, <2>2, <2>3
<1>7. \A row \in Entries(rows) : \E i \in 1 .. k : row = rows[i]
  BY <1>3 DEF Entries
<1>8. \A row \in Entries(rows) : row \in Rows /\ row.run = runner.run /\ row.seq <= a + k
  BY <1>6, <1>7
<1> QED BY <1>5, <1>8

(***************************************************************************)
(* The runner and its writer                                               *)
(***************************************************************************)

WriterFields == {"chan", "buf", "oldest", "active", "quiet", "closed"}

RunnerOK(r) ==
    /\ DOMAIN r = {"pc", "run", "seq", "window"}
    /\ r.pc \in {"down", "running", "ending"} /\ r.run \in 0 .. Len(Kinds)
    /\ r.seq \in Nat /\ r.window \in Nat

\* What a writer holds is of its run, its end last, and none before the run ends.
WriterOK(r, w, fl) ==
    /\ DOMAIN w = WriterFields /\ DOMAIN fl = {"batch", "attempt", "beat"}
    /\ w.buf \in Seq(OwnFrames(r.run, r.seq)) /\ w.chan \in Seq(OwnFrames(r.run, r.seq))
    /\ fl.batch \in Seq(OwnFrames(r.run, r.seq))
    /\ EndsLast(w.buf \o w.chan) /\ EndsLast(fl.batch)
    /\ r.pc = "running" =>
          ~Has(w.buf \o w.chan, "session-end") /\ ~Has(fl.batch, "session-end")
    /\ fl.attempt \in Nat /\ w.quiet \in 0 .. 1

\* A request under way is of this run or of an earlier one.
RequestOK(r, q) ==
    /\ q.run \in Nat /\ q.run <= r.run
    /\ q.batch \in Batches /\ q.batch # << >>
    /\ q.run = r.run => q.batch \in Seq(OwnFrames(r.run, r.seq))

LateOK(r, l) == \A q \in l : RequestOK(r, q)

GhostOK(r, g) ==
    /\ DOMAIN g = {"sent", "dropped", "wiped", "astray"}
    /\ g.sent \subseteq Rows /\ \A row \in g.sent : row.run <= r.run

WriterInv ==
    /\ RunnerOK(runner) /\ WriterOK(runner, writer, flight)
    /\ LateOK(runner, late) /\ GhostOK(runner, ghost) /\ faults \in Nat

\* Everything kept as it is stays as it should be.
LEMMA WriterKept ==
    WriterInv /\ UNCHANGED <<runner, writer, flight, late, faults, ghost>> => WriterInv'
BY DEF WriterInv

\* Requests and rows of a run stay such as it goes on.
LEMMA GoesOn ==
    ASSUME NEW r, NEW e, RunnerOK(r), RunnerOK(e),
           \/ e.run = r.run /\ r.seq <= e.seq
           \/ e.run = r.run + 1
    PROVE  /\ \A l : LateOK(r, l) => LateOK(e, l)
           /\ \A g : GhostOK(r, g) => GhostOK(e, g)
<1>1. r.run \in Nat /\ e.run \in Nat /\ r.seq \in Nat /\ e.seq \in Nat /\ r.run <= e.run
  <2>1. Len(Kinds) \in Nat
    BY StreamAssumption, LenProperties
  <2>2. r.run \in Nat /\ e.run \in Nat /\ r.seq \in Nat /\ e.seq \in Nat
    BY <2>1 DEF RunnerOK
  <2>3. r.run <= e.run
    BY <2>2
  <2> QED BY <2>2, <2>3
<1>2. ASSUME NEW q, RequestOK(r, q) PROVE RequestOK(e, q)
  <2>1. q.run \in Nat /\ q.run <= r.run /\ q.batch \in Batches /\ q.batch # << >>
    BY <1>2 DEF RequestOK
  <2>2. q.run <= e.run
    BY <1>1, <2>1
  <2>3. ASSUME q.run = e.run PROVE q.batch \in Seq(OwnFrames(e.run, e.seq))
    <3>1. e.run = r.run /\ r.seq <= e.seq
      BY <1>1, <2>1, <2>3
    <3>2. q.batch \in Seq(OwnFrames(r.run, r.seq))
      BY <1>2, <2>3, <3>1 DEF RequestOK
    <3> QED BY <1>1, <3>1, <3>2, OwnGrows
  <2> QED BY <2>1, <2>2, <2>3 DEF RequestOK
<1>3. ASSUME NEW g, GhostOK(r, g) PROVE GhostOK(e, g)
  <2>1. \A row \in g.sent : row.run <= e.run
    <3> SUFFICES ASSUME NEW row \in g.sent PROVE row.run <= e.run
      OBVIOUS
    <3>1. row.run \in Nat /\ row.run <= r.run
      BY <1>3 DEF GhostOK, Rows
    <3> QED BY <1>1, <3>1
  <2> QED BY <1>3, <2>1 DEF GhostOK
<1> QED BY <1>2, <1>3 DEF LateOK

\* The writer's record x is w with frames on its channel, as the run goes on to e.
Extends(r, w, fl, e, frames, x) ==
    /\ RunnerOK(r) /\ WriterOK(r, w, fl) /\ r.pc = "running"
    /\ RunnerOK(e) /\ e.run = r.run /\ r.seq <= e.seq
    /\ frames \in Seq(OwnFrames(e.run, e.seq)) /\ EndsLast(frames)
    /\ e.pc = "running" => ~Has(frames, "session-end")
    /\ DOMAIN x = WriterFields /\ x.chan = w.chan \o frames /\ x.buf = w.buf /\ x.quiet = w.quiet

\* Frames put on the channel join what is there.
LEMMA SendKeeps ==
    ASSUME NEW r, NEW w, NEW fl, NEW e, NEW frames, NEW x, Extends(r, w, fl, e, frames, x)
    PROVE  WriterOK(e, x, fl)
<1> DEFINE S == OwnFrames(e.run, e.seq)
           b == w.buf
           c == w.chan
<1>1. b \in Seq(S) /\ c \in Seq(S) /\ fl.batch \in Seq(S) /\ frames \in Seq(S)
  BY OwnGrows DEF WriterOK, RunnerOK, Extends
<1>2. x.buf = b /\ x.chan = c \o frames
  BY DEF Extends
<1>3. ~Has(b \o c, "session-end") /\ ~Has(fl.batch, "session-end")
  BY DEF WriterOK, Extends
<1> HIDE DEF S, b, c
<1> USE DEF Extends
<1>4. c \o frames \in Seq(S) /\ b \o c \in Seq(S)
  BY <1>1, ConcatProperties
<1>5. b \o (c \o frames) = (b \o c) \o frames
  <2>1. \A p, q, t \in Seq(S) : p \o (q \o t) = (p \o q) \o t
    BY JoinsAssociate
  <2> QED BY <1>1, <2>1
<1>6. EndsLast((b \o c) \o frames)
  BY <1>1, <1>3, <1>4, EndsLastJoined
<1>7. e.pc = "running" => ~Has((b \o c) \o frames, "session-end")
  <2>1. \A p, q \in Seq(S) : \A k : Has(p \o q, k) <=> Has(p, k) \/ Has(q, k)
    BY HasJoined
  <2>2. \A k : Has((b \o c) \o frames, k) <=> Has(b \o c, k) \/ Has(frames, k)
    BY <1>1, <1>4, <2>1
  <2> QED BY <1>3, <2>2
<1>8. x.buf \o x.chan = (b \o c) \o frames
  BY <1>2, <1>5
<1>9. x.buf \in Seq(S) /\ x.chan \in Seq(S) /\ EndsLast(x.buf \o x.chan)
      /\ (e.pc = "running" => ~Has(x.buf \o x.chan, "session-end"))
  BY <1>1, <1>2, <1>4, <1>6, <1>7, <1>8
<1> QED BY <1>1, <1>3, <1>9 DEF WriterOK, S

\* Taking the first of one sequence to the end of another.
LEMMA Unqueued ==
    ASSUME NEW S, NEW a \in Seq(S), NEW b \in Seq(S), b # << >>
    PROVE  /\ Append(a, Head(b)) \in Seq(S) /\ Tail(b) \in Seq(S)
           /\ Append(a, Head(b)) \o Tail(b) = a \o b
           /\ Append(a, Head(b)) # << >>
<1>1. Head(b) \in S /\ Tail(b) \in Seq(S)
  BY HeadTailProperties
<1>2. Append(a, Head(b)) \in Seq(S) /\ Append(a, Head(b)) # << >> /\ Append(a, Head(b)) = a \o <<Head(b)>>
  BY <1>1, AppendProperties, AppendIsConcat
<1>3. <<Head(b)>> \in Seq(S)
  BY <1>1
<1>4. (a \o <<Head(b)>>) \o Tail(b) = a \o (<<Head(b)>> \o Tail(b))
  BY <1>1, <1>3, ConcatAssociative
<1>5. <<Head(b)>> \o Tail(b) = b
  <2>1. Len(b) \in Nat /\ Len(b) > 0
    BY EmptySeq
  <2>2. 1 \in 1 .. Len(b) /\ Len(b) \in 1 .. Len(b)
    BY <2>1
  <2>3. SubSeq(b, 1, Len(b)) = <<b[1]>> \o SubSeq(b, 1 + 1, Len(b))
    BY <2>2, SubSeqRecursiveFirst
  <2>4. SubSeq(b, 1, Len(b)) = b /\ Tail(b) = SubSeq(b, 2, Len(b)) /\ Head(b) = b[1]
    BY SubSeqFull, TailIsSubSeq
  <2> QED BY <2>3, <2>4
<1> QED BY <1>1, <1>2, <1>4, <1>5

\* A writer that took a frame holds the same frames.
LEMMA TakingKeeps ==
    ASSUME NEW r, NEW w, NEW fl, WriterOK(r, w, fl), w.chan # << >>,
           NEW x, DOMAIN x = WriterFields, x.chan = Tail(w.chan),
           x.buf = Append(w.buf, Head(w.chan)), x.quiet \in 0 .. 1
    PROVE  WriterOK(r, x, fl) /\ x.buf \o x.chan = w.buf \o w.chan /\ x.buf # << >>
<1> DEFINE S == OwnFrames(r.run, r.seq)
           b == w.buf
           c == w.chan
<1>1. b \in Seq(S) /\ c \in Seq(S) /\ c # << >>
  BY DEF WriterOK
<1>2. x.buf = Append(b, Head(c)) /\ x.chan = Tail(c)
  OBVIOUS
<1> HIDE DEF S, b, c
<1>3. /\ Append(b, Head(c)) \in Seq(S) /\ Tail(c) \in Seq(S)
      /\ Append(b, Head(c)) \o Tail(c) = b \o c
      /\ Append(b, Head(c)) # << >>
  BY <1>1, Unqueued
<1>4. /\ x.buf \in Seq(S) /\ x.chan \in Seq(S)
      /\ x.buf \o x.chan = b \o c /\ x.buf # << >>
  BY <1>2, <1>3
<1>5. x.buf \o x.chan = w.buf \o w.chan
  BY <1>4 DEF b, c
<1> QED BY <1>4, <1>5 DEF WriterOK, S

\* A writer that sends what it buffered holds the rest.
LEMMA FlushKeeps ==
    ASSUME NEW r, NEW w, NEW fl, WriterOK(r, w, fl),
           NEW x, DOMAIN x = WriterFields, x.chan = w.chan, x.buf = << >>, x.quiet = w.quiet,
           NEW d, DOMAIN d = {"batch", "attempt", "beat"}, d.batch = w.buf, d.attempt = 1
    PROVE  WriterOK(r, x, d) /\ x.buf \o x.chan = w.chan
<1> DEFINE S == OwnFrames(r.run, r.seq)
<1>1. w.buf \in Seq(S) /\ w.chan \in Seq(S) /\ << >> \in Seq(S)
  BY EmptySeq DEF WriterOK
<1>2. x.buf \o x.chan = w.chan
  BY <1>1, ConcatEmptySeq
<1>3. EndsLast(w.buf) /\ EndsLast(w.chan)
  BY <1>1, EndsLastJoined DEF WriterOK
<1>4. r.pc = "running" => ~Has(w.buf, "session-end") /\ ~Has(w.chan, "session-end")
  BY <1>1, ToldJoined DEF WriterOK
<1> QED BY <1>1, <1>2, <1>3, <1>4 DEF WriterOK

\* A writer with nothing left to deliver.
LEMMA NothingLeft ==
    ASSUME NEW r, NEW w, NEW fl, WriterOK(r, w, fl)
    PROVE  WriterOK(r, w, NoFlight) /\ WriterOK(r, IdleWriter, NoFlight)
<1>1. DOMAIN NoFlight = {"batch", "attempt", "beat"} /\ NoFlight.batch = << >> /\ NoFlight.attempt = 0
  BY DEF NoFlight
<1>2. /\ DOMAIN IdleWriter = WriterFields /\ IdleWriter.chan = << >> /\ IdleWriter.buf = << >>
      /\ IdleWriter.quiet = 0
  BY DEF IdleWriter, WriterFields
<1>3. << >> \in Seq(OwnFrames(r.run, r.seq)) /\ << >> \o << >> = << >>
  BY EmptySeq, ConcatEmptySeq
<1>4. EndsLast(<< >>) /\ ~Has(<< >>, "session-end") /\ 0 \in Nat /\ 0 \in 0 .. 1
  BY EndsLastOfFew
<1> QED BY <1>1, <1>2, <1>3, <1>4 DEF WriterOK

\* A step of the runner that sends frames of its own.
SendStep(frames) ==
    /\ WriterInv /\ Running
    /\ RunnerOK(runner') /\ runner'.run = runner.run /\ runner.seq <= runner'.seq
    /\ frames \in Seq(OwnFrames(runner'.run, runner'.seq)) /\ EndsLast(frames)
    /\ runner'.pc = "running" => ~Has(frames, "session-end")
    /\ DOMAIN writer' = WriterFields /\ writer'.chan = writer.chan \o frames
    /\ writer'.buf = writer.buf /\ writer'.quiet = writer.quiet
    /\ GhostOK(runner, ghost') /\ UNCHANGED <<flight, late, faults>>

\* A step that sends keeps the writer as it should be and lengthens its queue.
LEMMA Sends ==
    ASSUME NEW frames, SendStep(frames)
    PROVE  WriterInv' /\ (writer.buf \o writer.chan)' = (writer.buf \o writer.chan) \o frames
<1>1. Extends(runner, writer, flight, runner', frames, writer')
  BY DEF SendStep, Extends, WriterInv, Running
<1>2. WriterOK(runner', writer', flight)
  BY <1>1, SendKeeps
<1>6. writer'.buf \o writer'.chan = (writer.buf \o writer.chan) \o frames
  <2> DEFINE S == OwnFrames(runner'.run, runner'.seq)
             b == writer.buf
             c == writer.chan
  <2>1. b \in Seq(S) /\ c \in Seq(S) /\ frames \in Seq(S)
    BY OwnGrows DEF SendStep, WriterInv, WriterOK, RunnerOK
  <2>2. writer'.buf = b /\ writer'.chan = c \o frames
    BY DEF SendStep
  <2> HIDE DEF S, b, c
  <2>3. \A p, q, t \in Seq(S) : p \o (q \o t) = (p \o q) \o t
    BY JoinsAssociate
  <2>4. b \o (c \o frames) = (b \o c) \o frames
    BY <2>1, <2>3
  <2>5. writer'.buf \o writer'.chan = (b \o c) \o frames
    BY <2>2, <2>4
  <2> QED BY <2>5 DEF b, c
<1>3. RunnerOK(runner) /\ RunnerOK(runner') /\ LateOK(runner, late) /\ GhostOK(runner, ghost')
      /\ runner'.run = runner.run /\ runner.seq <= runner'.seq
  BY DEF SendStep, WriterInv
<1>4. LateOK(runner', late) /\ GhostOK(runner', ghost')
  BY <1>3, GoesOn
<1>5. flight' = flight /\ late' = late /\ faults' = faults /\ faults \in Nat
  BY DEF SendStep, WriterInv
<1> QED BY <1>2, <1>3, <1>4, <1>5, <1>6 DEF WriterInv

\* The frames of a window.
WindowFrames(k) ==
    Append(IF k = 0 THEN << >>
           ELSE <<[t |-> "positions", items |-> [i \in 1 .. k |-> Row(runner.seq + i)]]>>,
           [t |-> "stats", cursor |-> runner.seq + k, window |-> runner.window + 1])

\* They are the runner's own, and the rows in them are what it counts as sent.
LEMMA WindowSends ==
    ASSUME RunnerOK(runner), NEW k \in Nat
    PROVE  /\ WindowFrames(k) \in Seq(OwnFrames(runner.run, runner.seq + k))
           /\ ~Has(WindowFrames(k), "session-end")
           /\ LET rows == [i \in 1 .. k |-> Row(runner.seq + i)]
                  trades == IF k = 0 THEN << >> ELSE <<[t |-> "positions", items |-> rows]>>
              IN  \A row \in RowsOf(trades) : row \in Rows /\ row.run = runner.run
<1> DEFINE rows == [i \in 1 .. k |-> Row(runner.seq + i)]
           bets == [t |-> "positions", items |-> rows]
           stats == [t |-> "stats", cursor |-> runner.seq + k, window |-> runner.window + 1]
           trades == IF k = 0 THEN << >> ELSE <<bets>>
           top == runner.seq + k
           S == OwnFrames(runner.run, top)
<1>1. runner.run \in Nat /\ runner.seq \in Nat /\ runner.window + 1 \in Nat /\ top \in Nat /\ top <= top
  BY DEF RunnerOK
<1>2. rows \in GoodRows /\ \A row \in Entries(rows) : row \in Rows /\ row.run = runner.run /\ row.seq <= top
  BY <1>1, WindowRows
<1>3. bets \in S
  <2> HIDE DEF rows
  <2> QED BY <1>1, <1>2, FramesMade
<1>4. stats \in S
  BY <1>1, FramesMade
<1>5. trades \in Seq(S)
  <2>1. << >> \in Seq(S)
    BY EmptySeq
  <2> HIDE DEF bets, S
  <2> QED BY <1>3, <2>1
<1>6. bets.t = "positions" /\ bets.items = rows /\ stats.t = "stats"
  OBVIOUS
<1> HIDE DEF rows, bets, stats
<1>7. Entries(trades) \subseteq {bets}
  BY EntriesOfFew
<1>8. \A row \in RowsOf(trades) : row \in Rows /\ row.run = runner.run
  <2>1. \A row \in RowsOf(trades) : row \in RowsIn(bets)
    <3> HIDE DEF trades
    <3> QED BY <1>7, ByMembers
  <2>2. RowsIn(bets) = Entries(rows)
    BY <1>6 DEF RowsIn
  <2> QED BY <1>2, <2>1, <2>2
<1> HIDE DEF trades, S
<1>9. Append(trades, stats) \in Seq(S) /\ Append(trades, stats) = trades \o <<stats>> /\ <<stats>> \in Seq(S)
  BY <1>4, <1>5, AppendProperties, AppendIsConcat
<1>10. ~Has(Append(trades, stats), "session-end")
  <2>1. ~Has(trades, "session-end")
    BY <1>6, <1>7, ByMembers
  <2>2. ~Has(<<stats>>, "session-end")
    BY <1>6, EntriesOfFew, ByMembers
  <2> QED BY <1>5, <1>9, <2>1, <2>2, HasJoined
<1>11. WindowFrames(k) = Append(trades, stats)
  BY DEF WindowFrames, trades, bets, stats, rows
<1> QED BY <1>8, <1>9, <1>10, <1>11 DEF S, trades, bets, rows

\* The frames of a trade, of a settlement, of a statistic and of the end.
TradeFrames(n) ==
    <<[t |-> "positions", items |-> <<Row(n)>>],
      [t |-> "fills", items |-> <<[order |-> n, venueId |-> "given", status |-> "open"]>>]>>
SettleFrames == <<[t |-> "fills", items |-> <<[order |-> runner.seq, venueId |-> "none", status |-> "settled"]>>]>>
StatsFrames == <<[t |-> "stats", cursor |-> runner.seq, window |-> runner.window + 1]>>
EndFrames ==
    (IF Runner = "prod" THEN <<[t |-> "risk", switch |-> "engaged"]>> ELSE << >>)
        \o <<[t |-> "session-end"]>>

\* Members of a set in a row.
LEMMA FewIn ==
    ASSUME NEW S
    PROVE  << >> \in Seq(S) /\ \A x, y \in S : <<x>> \in Seq(S) /\ <<x, y>> \in Seq(S)
OBVIOUS

\* One row is in order.
LEMMA OneRow ==
    ASSUME NEW row \in Rows
    PROVE  <<row>> \in GoodRows /\ Entries(<<row>>) = {row}
<1>1. <<row>> \in Seq(Rows) /\ Len(<<row>>) = 1 /\ \A i, j \in 1 .. 1 : ~(i < j)
  OBVIOUS
<1> QED BY <1>1, EntriesOfFew DEF GoodRows, Increasing

\* The two frames of a trade.
LEMMA TradeSends ==
    ASSUME RunnerOK(runner), NEW n \in Nat, n > 0
    PROVE  /\ TradeFrames(n) \in Seq(OwnFrames(runner.run, n))
           /\ ~Has(TradeFrames(n), "session-end") /\ Row(n) \in Rows /\ Row(n).run = runner.run
           /\ \E bet, fills \in OwnFrames(runner.run, n) :
                 /\ TradeFrames(n) = <<bet, fills>> /\ bet.t = "positions" /\ fills.t = "fills"
                 /\ bet.items = <<Row(n)>>
<1> DEFINE bet == [t |-> "positions", items |-> <<Row(n)>>]
           fills == [t |-> "fills", items |-> <<[order |-> n, venueId |-> "given", status |-> "open"]>>]
           S == OwnFrames(runner.run, n)
<1>1. runner.run \in Nat
  BY DEF RunnerOK
<1>2. Row(n) \in Rows /\ Row(n).run = runner.run /\ Row(n).seq <= n
  BY <1>1, RowMade
<1>3. <<Row(n)>> \in GoodRows /\ \A row \in Entries(<<Row(n)>>) : row.seq <= n
  BY <1>2, OneRow
<1>4. bet \in S
  BY <1>1, <1>3, FramesMade
<1>5. fills \in S
  BY <1>1, FillMade, FramesMade
<1>6. bet.t = "positions" /\ bet.items = <<Row(n)>> /\ fills.t = "fills" /\ TradeFrames(n) = <<bet, fills>>
  BY DEF TradeFrames
<1> HIDE DEF bet, fills, S
<1>7. <<bet, fills>> \in Seq(S)
  BY <1>4, <1>5, FewIn
<1>8. ~Has(<<bet, fills>>, "session-end")
  BY <1>6, EntriesOfFew, ByMembers
<1> QED BY <1>2, <1>4, <1>5, <1>6, <1>7, <1>8 DEF S

\* The frames of a settlement, of a statistic and of the end.
LEMMA OthersSend ==
    ASSUME RunnerOK(runner)
    PROVE  /\ SettleFrames \in Seq(OwnFrames(runner.run, runner.seq)) /\ ~Has(SettleFrames, "session-end")
           /\ \E f \in OwnFrames(runner.run, runner.seq) : f.t = "fills" /\ SettleFrames = <<f>>
           /\ StatsFrames \in Seq(OwnFrames(runner.run, runner.seq)) /\ ~Has(StatsFrames, "session-end")
           /\ \E f \in OwnFrames(runner.run, runner.seq) : f.t = "stats" /\ StatsFrames = <<f>>
           /\ EndFrames \in Seq(OwnFrames(runner.run, runner.seq)) /\ EndsLast(EndFrames)
           /\ Entries(EndFrames) \subseteq
                 {[t |-> "risk", switch |-> "engaged"], [t |-> "session-end"]}
<1> DEFINE S == OwnFrames(runner.run, runner.seq)
           fills == [t |-> "fills", items |-> <<[order |-> runner.seq, venueId |-> "none", status |-> "settled"]>>]
           stats == [t |-> "stats", cursor |-> runner.seq, window |-> runner.window + 1]
           risk == [t |-> "risk", switch |-> "engaged"]
           end == [t |-> "session-end"]
<1>1. runner.run \in Nat /\ runner.seq \in Nat /\ runner.window + 1 \in Nat /\ runner.seq <= runner.seq
  BY DEF RunnerOK
<1>2. fills \in S
  BY <1>1, FillMade, FramesMade
<1>3. stats \in S /\ risk \in S /\ end \in S
  BY <1>1, FramesMade
<1>4. /\ fills.t = "fills" /\ stats.t = "stats" /\ risk.t = "risk" /\ end.t = "session-end"
      /\ SettleFrames = <<fills>> /\ StatsFrames = <<stats>>
      /\ EndFrames = (IF Runner = "prod" THEN <<risk>> ELSE << >>) \o <<end>>
  BY DEF SettleFrames, StatsFrames, EndFrames
<1> HIDE DEF fills, stats, risk, end, S
<1>5. /\ <<fills>> \in Seq(S) /\ <<stats>> \in Seq(S) /\ <<risk>> \in Seq(S) /\ <<end>> \in Seq(S)
      /\ << >> \in Seq(S)
  BY <1>2, <1>3, FewIn
<1>6. ~Has(<<fills>>, "session-end") /\ ~Has(<<stats>>, "session-end") /\ ~Has(<<risk>>, "session-end")
  BY <1>4, ByOne
<1>7. EndFrames \in Seq(S) /\ EndsLast(EndFrames) /\ Entries(EndFrames) \subseteq {risk, end}
  <2> DEFINE posture == IF Runner = "prod" THEN <<risk>> ELSE << >>
  <2>1. posture \in Seq(S) /\ ~Has(posture, "session-end") /\ Entries(posture) \subseteq {risk}
    BY <1>5, <1>6, EndsLastOfFew, EntriesOfFew
  <2> HIDE DEF posture
  <2>2. posture \o <<end>> \in Seq(S)
    BY <1>5, <2>1, ConcatProperties
  <2>3. EndsLast(posture \o <<end>>)
    BY <1>5, <2>1, EndsLastJoined, EndsLastOfFew
  <2>4. Entries(posture \o <<end>>) \subseteq {risk, end}
    <3>1. Entries(posture \o <<end>>) = Entries(posture) \cup Entries(<<end>>)
      BY <1>5, <2>1, EntriesJoined
    <3> QED BY <2>1, <3>1, EntriesOfFew
  <2>5. EndFrames = posture \o <<end>>
    BY <1>4 DEF posture
  <2> QED BY <2>2, <2>3, <2>4, <2>5
<1> QED BY <1>2, <1>3, <1>4, <1>5, <1>6, <1>7 DEF S, risk, end

\* A request the runner gives up is as its batch was.
LEMMA GivenUp ==
    ASSUME NEW r, NEW w, NEW fl, RunnerOK(r), WriterOK(r, w, fl), fl.batch # << >>
    PROVE  RequestOK(r, [run |-> r.run, batch |-> fl.batch])
<1> DEFINE q == [run |-> r.run, batch |-> fl.batch]
<1>1. q.run = r.run /\ q.batch = fl.batch
  OBVIOUS
<1>2. fl.batch \in Seq(OwnFrames(r.run, r.seq)) /\ EndsLast(fl.batch) /\ r.run \in Nat /\ r.run <= r.run
  BY DEF WriterOK, RunnerOK
<1>3. fl.batch \in Batches
  BY <1>2, OwnAreGood DEF Batches
<1> HIDE DEF q
<1>4. RequestOK(r, q)
  BY <1>1, <1>2, <1>3 DEF RequestOK
<1> QED BY <1>4 DEF q

\* What the ghost says of other rows is free.
LEMMA GhostKept ==
    ASSUME NEW r, NEW g, NEW e, GhostOK(r, g),
           DOMAIN e = {"sent", "dropped", "wiped", "astray"}, e.sent = g.sent
    PROVE  GhostOK(r, e)
BY DEF GhostOK

\* A retry or a drop.
LEMMA RetryKeeps ==
    ASSUME WriterInv, Retry
    PROVE  WriterOK(runner, writer, flight') /\ GhostOK(runner, ghost')
           /\ \/ flight'.batch = flight.batch /\ ghost' = ghost
              \/ flight' = NoFlight
<1>1. RunnerOK(runner) /\ WriterOK(runner, writer, flight) /\ GhostOK(runner, ghost)
  BY DEF WriterInv
<1>2. CASE flight.attempt < MaxAttempts
  <2>1. flight' = [flight EXCEPT !.attempt = @ + 1] /\ ghost' = ghost
    BY <1>2 DEF Retry
  <2>2. DOMAIN flight = {"batch", "attempt", "beat"} /\ flight.attempt \in Nat
    BY <1>1 DEF WriterOK
  <2>3. /\ DOMAIN flight' = {"batch", "attempt", "beat"} /\ flight'.batch = flight.batch
        /\ flight'.attempt = flight.attempt + 1
    BY <2>1, <2>2
  <2>4. flight'.attempt \in Nat
    BY <2>2, <2>3
  <2>5. WriterOK(runner, writer, flight')
    BY <1>1, <2>3, <2>4 DEF WriterOK
  <2> QED BY <1>1, <2>1, <2>3, <2>5
<1>3. CASE ~(flight.attempt < MaxAttempts)
  <2>1. flight' = NoFlight
        /\ ghost' = [ghost EXCEPT !.dropped = @ \cup RowsOf(flight.batch),
                                  !.astray = @ \/ Has(flight.batch, "session-start")]
    BY <1>3 DEF Retry
  <2>2. DOMAIN ghost' = {"sent", "dropped", "wiped", "astray"} /\ ghost'.sent = ghost.sent
    BY <1>1, <2>1 DEF GhostOK
  <2> QED BY <1>1, <2>1, <2>2, NothingLeft, GhostKept
<1> QED BY <1>2, <1>3

\* Init and every step keep the writer as it should be.
LEMMA WriterInit == Init => WriterInv
<1> SUFFICES ASSUME Init PROVE WriterInv
  OBVIOUS
<1>1. Len(Kinds) \in Nat
  BY StreamAssumption, LenProperties
<1>2. RunnerOK(runner)
  BY <1>1 DEF Init, RunnerOK
<1>3. WriterOK(runner, writer, flight)
  <2> DEFINE w == [chan |-> << >>, buf |-> << >>, quiet |-> 0]
  <2>1. writer = IdleWriter /\ flight = NoFlight
    BY DEF Init
  <2>2. DOMAIN NoFlight = {"batch", "attempt", "beat"} /\ NoFlight.batch = << >> /\ NoFlight.attempt = 0
    BY DEF NoFlight
  <2>3. /\ DOMAIN IdleWriter = WriterFields /\ IdleWriter.chan = << >> /\ IdleWriter.buf = << >>
        /\ IdleWriter.quiet = 0
    BY DEF IdleWriter, WriterFields
  <2>4. << >> \in Seq(OwnFrames(runner.run, runner.seq)) /\ << >> \o << >> = << >>
    BY EmptySeq, ConcatEmptySeq
  <2>5. EndsLast(<< >>) /\ ~Has(<< >>, "session-end") /\ 0 \in Nat /\ 0 \in 0 .. 1
    BY EndsLastOfFew
  <2> QED BY <2>1, <2>2, <2>3, <2>4, <2>5 DEF WriterOK
<1>4. LateOK(runner, late) /\ GhostOK(runner, ghost) /\ faults \in Nat
  BY DEF Init, LateOK, GhostOK
<1> QED BY <1>2, <1>3, <1>4 DEF WriterInv

\* A step of the running runner that sends frames of its own and only moves
\* its counters.
OwnSend(frames, n, more) ==
    /\ WriterInv /\ Send(frames) /\ Running /\ n \in Nat /\ more \in Nat /\ runner.seq <= n
    /\ runner' = [runner EXCEPT !.seq = n, !.window = more]
    /\ frames \in Seq(OwnFrames(runner.run, n)) /\ ~Has(frames, "session-end")
    /\ GhostOK(runner, ghost') /\ UNCHANGED <<flight, late, faults>>

\* It is a step that sends.
LEMMA OwnSendIs ==
    ASSUME NEW frames, NEW n, NEW more, OwnSend(frames, n, more)
    PROVE  SendStep(frames)
<1>1. /\ WriterInv /\ RunnerOK(runner) /\ DOMAIN writer = WriterFields
      /\ DOMAIN runner = {"pc", "run", "seq", "window"}
  BY DEF OwnSend, WriterInv, WriterOK, RunnerOK
<1>2. /\ Send(frames) /\ Running /\ n \in Nat /\ more \in Nat /\ runner.seq <= n
      /\ runner' = [runner EXCEPT !.seq = n, !.window = more]
      /\ frames \in Seq(OwnFrames(runner.run, n)) /\ ~Has(frames, "session-end")
      /\ GhostOK(runner, ghost') /\ UNCHANGED <<flight, late, faults>>
  BY DEF OwnSend
<1>3. /\ DOMAIN runner' = {"pc", "run", "seq", "window"} /\ runner'.pc = runner.pc
      /\ runner'.run = runner.run /\ runner'.seq = n /\ runner'.window = more
  BY <1>1, <1>2
<1>4. RunnerOK(runner')
  BY <1>1, <1>2, <1>3 DEF RunnerOK
<1>5. /\ DOMAIN writer' = WriterFields /\ writer'.chan = writer.chan \o frames
      /\ writer'.buf = writer.buf /\ writer'.quiet = writer.quiet
  BY <1>1, <1>2 DEF Send, WriterFields
<1>6. EndsLast(frames)
  BY <1>2, EndsLastOfFew
<1> QED BY <1>1, <1>2, <1>3, <1>4, <1>5, <1>6 DEF SendStep

\* So each sending step of the runner is.
LEMMA OwnSends ==
    ASSUME WriterInv
    PROVE  /\ \A k \in 0 .. MaxRows : Window(k) =>
                 OwnSend(WindowFrames(k), runner.seq + k, runner.window + 1)
           /\ \A k \in 0 .. MaxRows : Trade(k) =>
                 OwnSend(TradeFrames(runner.seq + k + 1), runner.seq + k + 1, runner.window)
           /\ Settle => OwnSend(SettleFrames, runner.seq, runner.window + 1)
           /\ PushStats => OwnSend(StatsFrames, runner.seq, runner.window + 1)
<1>0. WriterInv
  OBVIOUS
<1>1. /\ RunnerOK(runner) /\ WriterOK(runner, writer, flight)
      /\ LateOK(runner, late) /\ GhostOK(runner, ghost) /\ faults \in Nat
  BY <1>0 DEF WriterInv
<1>2. /\ DOMAIN runner = {"pc", "run", "seq", "window"}
      /\ runner.pc \in {"down", "running", "ending"} /\ runner.run \in 0 .. Len(Kinds)
      /\ runner.seq \in Nat /\ runner.window \in Nat
      /\ Len(Kinds) \in Nat /\ runner.run \in Nat
      /\ DOMAIN writer = WriterFields /\ DOMAIN ghost = {"sent", "dropped", "wiped", "astray"}
  <2>1. Len(Kinds) \in Nat
    BY StreamAssumption, LenProperties
  <2> QED BY <1>1, <2>1 DEF RunnerOK, WriterOK, GhostOK
<1>5. ASSUME NEW k \in 0 .. MaxRows, Window(k) PROVE OwnSend(WindowFrames(k), runner.seq + k, runner.window + 1)
  <2> DEFINE rows == [i \in 1 .. k |-> Row(runner.seq + i)]
             trades == IF k = 0 THEN << >> ELSE <<[t |-> "positions", items |-> rows]>>
             n == runner.seq + k
             more == runner.window + 1
  <2>1. /\ Running /\ Send(WindowFrames(k)) /\ ghost' = [ghost EXCEPT !.sent = @ \cup RowsOf(trades)]
        /\ runner' = [runner EXCEPT !.seq = n, !.window = more] /\ UNCHANGED <<flight, late, faults>>
    BY <1>5 DEF Window, WindowFrames
  <2>2. k \in Nat /\ n \in Nat /\ more \in Nat /\ runner.seq <= n
    <3>1. MaxRows \in Nat
      BY StreamAssumption
    <3> QED BY <1>2, <3>1
  <2>3. /\ WindowFrames(k) \in Seq(OwnFrames(runner.run, n)) /\ ~Has(WindowFrames(k), "session-end")
        /\ \A row \in RowsOf(trades) : row \in Rows /\ row.run = runner.run
    BY <1>1, <2>2, WindowSends
  <2> HIDE DEF trades, n, more
  <2>4. ghost'.sent = ghost.sent \cup RowsOf(trades) /\ DOMAIN ghost' = {"sent", "dropped", "wiped", "astray"}
    BY <1>2, <2>1
  <2>5. runner.run <= runner.run
    BY <1>2
  <2>6. GhostOK(runner, ghost')
    BY <1>1, <2>3, <2>4, <2>5 DEF GhostOK
  <2>7. OwnSend(WindowFrames(k), n, more)
    BY <1>0, <2>1, <2>2, <2>3, <2>6 DEF OwnSend
  <2> QED BY <2>7 DEF n, more
<1>6. ASSUME NEW k \in 0 .. MaxRows, Trade(k) PROVE OwnSend(TradeFrames(runner.seq + k + 1), runner.seq + k + 1, runner.window)
  <2> DEFINE n == runner.seq + k + 1
  <2>1. /\ Running /\ Send(TradeFrames(n)) /\ ghost' = [ghost EXCEPT !.sent = @ \cup {Row(n)}]
        /\ runner' = [runner EXCEPT !.seq = n] /\ UNCHANGED <<flight, late, faults>>
    BY <1>6 DEF Trade, TradeFrames
  <2>2. n \in Nat /\ n > 0 /\ runner.seq <= n
    <3>1. MaxRows \in Nat
      BY StreamAssumption
    <3> QED BY <1>2, <3>1
  <2> HIDE DEF n
  <2>3. /\ TradeFrames(n) \in Seq(OwnFrames(runner.run, n)) /\ ~Has(TradeFrames(n), "session-end")
        /\ Row(n) \in Rows /\ Row(n).run = runner.run
    BY <1>1, <2>2, TradeSends
  <2>4. ghost'.sent = ghost.sent \cup {Row(n)} /\ DOMAIN ghost' = {"sent", "dropped", "wiped", "astray"}
    BY <1>2, <2>1
  <2>5. runner.run <= runner.run
    BY <1>2
  <2>6. GhostOK(runner, ghost')
    BY <1>1, <2>3, <2>4, <2>5 DEF GhostOK
  <2>7. runner' = [runner EXCEPT !.seq = n, !.window = runner.window]
    BY <1>2, <2>1
  <2>8. OwnSend(TradeFrames(n), n, runner.window)
    BY <1>0, <1>2, <2>1, <2>2, <2>3, <2>6, <2>7 DEF OwnSend
  <2> QED BY <2>8 DEF n
<1>7. ASSUME NEW frames \in {SettleFrames, StatsFrames},
             Running, Send(frames), ghost' = ghost,
             runner' = [runner EXCEPT !.window = runner.window + 1], UNCHANGED <<flight, late, faults>>
      PROVE  OwnSend(frames, runner.seq, runner.window + 1)
  <2> DEFINE more == runner.window + 1
  <2>1. more \in Nat /\ runner.seq <= runner.seq
    BY <1>2
  <2>2. runner' = [runner EXCEPT !.seq = runner.seq, !.window = more]
    BY <1>2, <1>7
  <2> HIDE DEF more
  <2>3. frames \in Seq(OwnFrames(runner.run, runner.seq)) /\ ~Has(frames, "session-end")
    BY <1>1, <1>7, OthersSend
  <2>4. OwnSend(frames, runner.seq, more)
    BY <1>0, <1>1, <1>2, <1>7, <2>1, <2>2, <2>3 DEF OwnSend
  <2> QED BY <2>4 DEF more
<1>8. Settle => OwnSend(SettleFrames, runner.seq, runner.window + 1)
  BY <1>7 DEF Settle, SettleFrames
<1>9. PushStats => OwnSend(StatsFrames, runner.seq, runner.window + 1)
  BY <1>7 DEF PushStats, StatsFrames
<1> QED BY <1>5, <1>6, <1>8, <1>9

\* So is the goodbye.
LEMMA EndSends ==
    ASSUME WriterInv, EndSession
    PROVE  SendStep(EndFrames)
<1>10. /\ RunnerOK(runner) /\ WriterOK(runner, writer, flight)
      /\ LateOK(runner, late) /\ GhostOK(runner, ghost) /\ faults \in Nat
  BY DEF WriterInv
<1>11. /\ DOMAIN runner = {"pc", "run", "seq", "window"}
      /\ runner.pc \in {"down", "running", "ending"} /\ runner.run \in 0 .. Len(Kinds)
      /\ runner.seq \in Nat /\ runner.window \in Nat
      /\ Len(Kinds) \in Nat /\ runner.run \in Nat
      /\ DOMAIN writer = WriterFields /\ DOMAIN ghost = {"sent", "dropped", "wiped", "astray"}
  <2>1. Len(Kinds) \in Nat
    BY StreamAssumption, LenProperties
  <2> QED BY <1>10, <2>1 DEF RunnerOK, WriterOK, GhostOK
<1>1. /\ Running /\ runner' = [runner EXCEPT !.pc = "ending"]
      /\ UNCHANGED <<flight, late, faults, ghost>>
  BY DEF EndSession
<1> DEFINE posture == IF Runner = "prod" THEN <<[t |-> "risk", switch |-> "engaged"]>> ELSE << >>
           end == <<[t |-> "session-end"]>>
<1>2. writer' = [writer EXCEPT !.chan = @ \o posture \o end, !.closed = TRUE]
  BY DEF EndSession
<1>3. EndFrames = posture \o end
  BY DEF EndFrames
<1>4. EndFrames \in Seq(OwnFrames(runner.run, runner.seq)) /\ EndsLast(EndFrames)
  BY <1>10, OthersSend
<1>5. (writer.chan \o posture) \o end = writer.chan \o EndFrames
  <2> DEFINE S == OwnFrames(runner.run, runner.seq)
             c == writer.chan
  <2>1. c \in Seq(S) /\ posture \in Seq(S) /\ end \in Seq(S)
    <3>1. [t |-> "risk", switch |-> "engaged"] \in S /\ [t |-> "session-end"] \in S
      BY <1>11, FramesMade
    <3>2. << >> \in Seq(S) /\ end \in Seq(S) /\ <<[t |-> "risk", switch |-> "engaged"]>> \in Seq(S)
      <4> DEFINE p == [t |-> "risk", switch |-> "engaged"]
                 q == [t |-> "session-end"]
      <4>1. p \in S /\ q \in S
        BY <3>1
      <4> HIDE DEF p, q, S
      <4>2. << >> \in Seq(S) /\ <<p>> \in Seq(S) /\ <<q>> \in Seq(S)
        BY <4>1, FewIn
      <4> QED BY <4>2 DEF p, q
    <3>3. c \in Seq(S)
      BY <1>10 DEF WriterOK
    <3> HIDE DEF S, c, end
    <3> QED BY <3>2, <3>3
  <2> HIDE DEF S, c, posture, end
  <2>2. \A a, b, d \in Seq(S) : a \o (b \o d) = (a \o b) \o d
    BY JoinsAssociate
  <2>3. (c \o posture) \o end = c \o EndFrames
    BY <1>3, <2>1, <2>2
  <2> QED BY <2>3 DEF c
<1> HIDE DEF posture, end
<1>6. /\ DOMAIN writer' = WriterFields /\ writer'.chan = writer.chan \o EndFrames
      /\ writer'.buf = writer.buf /\ writer'.quiet = writer.quiet
  <2>1. /\ DOMAIN writer' = WriterFields /\ writer'.chan = (writer.chan \o posture) \o end
        /\ writer'.buf = writer.buf /\ writer'.quiet = writer.quiet
    BY <1>11, <1>2 DEF WriterFields
  <2> QED BY <1>5, <2>1
<1>7. /\ DOMAIN runner' = {"pc", "run", "seq", "window"} /\ runner'.pc = "ending"
      /\ runner'.run = runner.run /\ runner'.seq = runner.seq /\ runner'.window = runner.window
      /\ runner.seq <= runner'.seq
  BY <1>11, <1>1
<1>8. RunnerOK(runner')
  BY <1>11, <1>7 DEF RunnerOK
<1>9. SendStep(EndFrames)
  BY <1>10, <1>1, <1>4, <1>6, <1>7, <1>8 DEF SendStep
<1> QED BY <1>9

\* The steps of the runner keep the writer as it should be.
LEMMA RunnerSteps ==
    ASSUME WriterInv, RunnerNext
    PROVE  WriterInv'
<1>1. /\ RunnerOK(runner) /\ WriterOK(runner, writer, flight)
      /\ LateOK(runner, late) /\ GhostOK(runner, ghost) /\ faults \in Nat
  BY DEF WriterInv
<1>2. /\ DOMAIN runner = {"pc", "run", "seq", "window"}
      /\ runner.pc \in {"down", "running", "ending"} /\ runner.run \in 0 .. Len(Kinds)
      /\ runner.seq \in Nat /\ runner.window \in Nat
      /\ Len(Kinds) \in Nat /\ runner.run \in Nat
      /\ DOMAIN writer = WriterFields /\ DOMAIN ghost = {"sent", "dropped", "wiped", "astray"}
  <2>1. Len(Kinds) \in Nat
    BY StreamAssumption, LenProperties
  <2> QED BY <1>1, <2>1 DEF RunnerOK, WriterOK, GhostOK
<1>4. CASE Launch
  <2>1. /\ runner' = [pc |-> "running", run |-> runner.run + 1, seq |-> 0, window |-> 0]
        /\ writer' = [IdleWriter EXCEPT !.chan = <<[t |-> "session-start", run |-> runner.run + 1],
                                                  [t |-> "risk", switch |-> "engaged"]>>]
        /\ flight' = NoFlight /\ UNCHANGED <<late, faults, ghost>> /\ runner.run < Len(Kinds)
    BY <1>4 DEF Launch
  <2>2. /\ DOMAIN runner' = {"pc", "run", "seq", "window"} /\ runner'.pc = "running"
        /\ runner'.run = runner.run + 1 /\ runner'.seq = 0 /\ runner'.window = 0
    BY <2>1
  <2>3. RunnerOK(runner') /\ runner'.run \in Nat /\ 0 \in Nat
    BY <1>2, <2>1, <2>2 DEF RunnerOK
  <2> DEFINE start == [t |-> "session-start", run |-> runner'.run]
             risk == [t |-> "risk", switch |-> "engaged"]
             S == OwnFrames(runner'.run, runner'.seq)
  <2>4. start \in S /\ risk \in S
    BY <2>2, <2>3, FramesMade
  <2>5. /\ DOMAIN writer' = WriterFields /\ writer'.chan = <<start, risk>> /\ writer'.buf = << >>
        /\ writer'.quiet = 0
    BY <2>1, <2>2 DEF IdleWriter, WriterFields
  <2>6. start.t = "session-start" /\ risk.t = "risk"
    OBVIOUS
  <2> HIDE DEF start, risk, S
  <2>7. <<start, risk>> \in Seq(S) /\ << >> \in Seq(S)
    BY <2>4, FewIn
  <2>8. ~Has(<<start, risk>>, "session-end")
    BY <2>6, EntriesOfFew, ByMembers
  <2>9. << >> \o <<start, risk>> = <<start, risk>>
    BY <2>7, ConcatEmptySeq
  <2>10. DOMAIN flight' = {"batch", "attempt", "beat"} /\ flight'.batch = << >> /\ flight'.attempt = 0
    BY <2>1 DEF NoFlight
  <2>11. EndsLast(<<start, risk>>) /\ EndsLast(<< >>) /\ ~Has(<< >>, "session-end")
    BY <2>8, EndsLastOfFew
  <2>12. WriterOK(runner', writer', flight')
    BY <2>5, <2>7, <2>8, <2>9, <2>10, <2>11 DEF WriterOK, S
  <2>13. LateOK(runner', late') /\ GhostOK(runner', ghost')
    BY <1>1, <2>1, <2>2, <2>3, GoesOn
  <2> QED BY <1>1, <2>1, <2>3, <2>12, <2>13 DEF WriterInv
<1>5. ASSUME NEW frames, NEW n, NEW more, OwnSend(frames, n, more) PROVE WriterInv'
  BY <1>5, OwnSendIs, Sends
<1>6. ASSUME NEW k \in 0 .. MaxRows, Window(k) \/ Trade(k) PROVE WriterInv'
  BY <1>5, <1>6, OwnSends
<1>7. ASSUME Settle \/ PushStats PROVE WriterInv'
  BY <1>5, <1>7, OwnSends
<1>8. CASE EndSession
  BY <1>8, EndSends, Sends
<1>9. CASE Crash
  <2>1. /\ runner' = [runner EXCEPT !.pc = "down"] /\ faults' = faults + 1
        /\ ghost' = [ghost EXCEPT !.dropped = @ \cup RowsOf(flight.batch \o writer.buf \o writer.chan)]
        /\ writer' = IdleWriter /\ flight' = NoFlight
    BY <1>9 DEF Crash
  <2>2. late' = late \/ (flight.batch # << >> /\ late' = late \cup {[run |-> runner.run, batch |-> flight.batch]})
    BY <1>9 DEF Crash
  <2>3. /\ DOMAIN runner' = {"pc", "run", "seq", "window"} /\ runner'.pc = "down"
        /\ runner'.run = runner.run /\ runner'.seq = runner.seq /\ runner'.window = runner.window
        /\ runner.seq <= runner'.seq
    BY <1>2, <2>1
  <2>4. RunnerOK(runner')
    BY <1>2, <2>3 DEF RunnerOK
  <2>5. DOMAIN ghost' = {"sent", "dropped", "wiped", "astray"} /\ ghost'.sent = ghost.sent
    BY <1>2, <2>1
  <2>6. LateOK(runner, late')
    BY <1>1, <2>2, GivenUp DEF LateOK
  <2>7. LateOK(runner', late') /\ GhostOK(runner', ghost')
    BY <1>1, <2>3, <2>4, <2>5, <2>6, GoesOn, GhostKept
  <2>8. WriterOK(runner', writer', flight')
    <3>1. WriterOK(runner, writer', flight')
      BY <1>1, <2>1, NothingLeft
    <3>2. ~Has(<< >>, "session-end")
      BY EndsLastOfFew
    <3> QED BY <2>3, <3>1 DEF WriterOK
  <2>9. faults' \in Nat
    BY <1>1, <2>1
  <2> QED BY <2>4, <2>7, <2>8, <2>9 DEF WriterInv
<1> QED BY <1>4, <1>6, <1>7, <1>8, <1>9 DEF RunnerNext

\* What the writer has not sent, and all that the runner has not seen answered.
Queue == writer.buf \o writer.chan
Line == flight.batch \o Queue

\* Sequences of the runner's frames.
LEMMA LineFacts ==
    ASSUME WriterInv
    PROVE  /\ flight.batch \in Seq(OwnFrames(runner.run, runner.seq))
           /\ writer.buf \in Seq(OwnFrames(runner.run, runner.seq))
           /\ writer.chan \in Seq(OwnFrames(runner.run, runner.seq))
           /\ Queue \in Seq(OwnFrames(runner.run, runner.seq))
           /\ Line \in Seq(OwnFrames(runner.run, runner.seq))
           /\ runner.run \in Nat /\ runner.seq \in Nat
<1> DEFINE S == OwnFrames(runner.run, runner.seq)
<1>1. flight.batch \in Seq(S) /\ writer.buf \in Seq(S) /\ writer.chan \in Seq(S)
  BY DEF WriterInv, WriterOK
<1>2. runner.run \in Nat /\ runner.seq \in Nat
  <2>1. Len(Kinds) \in Nat
    BY StreamAssumption, LenProperties
  <2> QED BY <2>1 DEF WriterInv, RunnerOK
<1> HIDE DEF S
<1>3. Queue \in Seq(S)
  BY <1>1, ConcatProperties DEF Queue
<1>4. Line \in Seq(S)
  BY <1>1, <1>3, ConcatProperties DEF Line
<1> QED BY <1>1, <1>2, <1>3, <1>4 DEF S

\* A writer that sends its buffer.
LEMMA FlushIs ==
    ASSUME NEW w, NEW fl, WriterOK(runner, w, fl), Flush(w)
    PROVE  /\ WriterOK(runner, writer', flight') /\ flight'.batch = w.buf /\ flight'.attempt = 1
           /\ writer'.buf \o writer'.chan = w.chan
<1>1. DOMAIN w = WriterFields
  BY DEF WriterOK
<1>2. /\ flight' = [batch |-> w.buf, attempt |-> 1, beat |-> FALSE]
      /\ writer' = [w EXCEPT !.buf = << >>, !.oldest = OldestAfterFlush(@)]
  BY DEF Flush
<1>3. /\ DOMAIN writer' = WriterFields /\ writer'.chan = w.chan /\ writer'.buf = << >>
      /\ writer'.quiet = w.quiet
  BY <1>1, <1>2 DEF WriterFields
<1>4. DOMAIN flight' = {"batch", "attempt", "beat"} /\ flight'.batch = w.buf /\ flight'.attempt = 1
  BY <1>2
<1> QED BY <1>3, <1>4, FlushKeeps

\* Taking a frame, with or without sending the buffer.
LEMMA Receives ==
    ASSUME WriterInv, Receive
    PROVE  /\ WriterInv' /\ Line' = Line
           /\ flight'.attempt \in {1, flight.attempt}
           /\ flight'.batch # << >> \/ writer'.buf # << >>
<1>1. WriterOK(runner, writer, flight) /\ DOMAIN writer = WriterFields
  BY DEF WriterInv, WriterOK
<1>2. flight.batch = << >> /\ writer.chan # << >> /\ UNCHANGED <<runner, late, faults, ghost>>
  BY DEF Receive, Ready
<1> DEFINE w == [writer EXCEPT !.chan = Tail(@), !.buf = Append(@, Head(writer.chan)),
                               !.oldest = IF @ = "none" THEN "young" ELSE @,
                               !.active = @ \/ Head(writer.chan).t = "session-start",
                               !.quiet = IF Runner = "prod" THEN 0 ELSE @]
<1>3. Flush(w) \/ (writer' = w /\ flight' = flight)
  BY DEF Receive
<1>4. /\ DOMAIN w = WriterFields /\ w.chan = Tail(writer.chan)
      /\ w.buf = Append(writer.buf, Head(writer.chan))
      /\ w.quiet = (IF Runner = "prod" THEN 0 ELSE writer.quiet)
  BY <1>1 DEF WriterFields
<1>5. w.quiet \in 0 .. 1
  BY <1>1, <1>4 DEF WriterOK
<1> HIDE DEF w
<1>6. WriterOK(runner, w, flight) /\ w.buf \o w.chan = Queue /\ w.buf # << >>
  BY <1>1, <1>2, <1>4, <1>5, TakingKeeps DEF Queue
<1>7. Queue \in Seq(OwnFrames(runner.run, runner.seq))
  BY LineFacts
<1>8. Line = Queue
  BY <1>2, <1>7, ConcatEmptySeq DEF Line
<1>9. CASE Flush(w)
  <2>1. /\ WriterOK(runner, writer', flight') /\ flight'.batch = w.buf /\ flight'.attempt = 1
        /\ writer'.buf \o writer'.chan = w.chan
    BY <1>6, <1>9, FlushIs
  <2>2. Line' = w.buf \o w.chan
    BY <2>1 DEF Line, Queue
  <2> QED BY <1>2, <1>6, <1>8, <2>1, <2>2 DEF WriterInv
<1>10. CASE writer' = w /\ flight' = flight
  <2>1. Queue' = Queue
    BY <1>6, <1>10 DEF Queue
  <2>2. Line' = Line
    BY <1>10, <2>1 DEF Line
  <2> QED BY <1>2, <1>6, <1>10, <2>2 DEF WriterInv
<1> QED BY <1>3, <1>9, <1>10

\* Sending the buffer at a poll that times out.
LEMMA Flushes ==
    ASSUME WriterInv, FlushDue
    PROVE  /\ WriterInv' /\ Line' = Line /\ flight'.attempt = 1 /\ flight'.batch # << >>
<1>1. WriterOK(runner, writer, flight)
  BY DEF WriterInv
<1>2. flight.batch = << >> /\ writer.buf # << >> /\ UNCHANGED <<runner, late, faults, ghost>> /\ Flush(writer)
  BY DEF FlushDue, Ready
<1>3. /\ WriterOK(runner, writer', flight') /\ flight'.batch = writer.buf /\ flight'.attempt = 1
      /\ writer'.buf \o writer'.chan = writer.chan
  BY <1>1, <1>2, FlushIs
<1>4. Queue \in Seq(OwnFrames(runner.run, runner.seq))
  BY LineFacts
<1>5. Line = Queue
  BY <1>2, <1>4, ConcatEmptySeq DEF Line
<1>6. Line' = writer.buf \o writer.chan
  BY <1>3 DEF Line, Queue
<1> QED BY <1>2, <1>3, <1>5, <1>6 DEF WriterInv, Queue

\* A heartbeat is sent ahead of what the writer still holds.
LEMMA Beats ==
    ASSUME WriterInv, Heartbeat
    PROVE  /\ WriterInv' /\ flight.batch = << >> /\ Queue' = Queue /\ flight'.attempt = 1
           /\ flight'.batch = <<[t |-> "heartbeat"]>>
<1>1. WriterOK(runner, writer, flight) /\ DOMAIN writer = WriterFields
  BY DEF WriterInv, WriterOK
<1>2. /\ flight.batch = << >> /\ UNCHANGED <<runner, late, faults, ghost>>
      /\ flight' = [batch |-> <<[t |-> "heartbeat"]>>, attempt |-> 1, beat |-> TRUE]
      /\ writer' = [writer EXCEPT !.quiet = IF Runner = "prod" THEN 0 ELSE @]
  BY DEF Heartbeat, Ready
<1>3. /\ DOMAIN writer' = WriterFields /\ writer'.chan = writer.chan /\ writer'.buf = writer.buf
      /\ writer'.quiet = (IF Runner = "prod" THEN 0 ELSE writer.quiet)
  BY <1>1, <1>2 DEF WriterFields
<1>4. writer'.quiet \in 0 .. 1
  BY <1>1, <1>3 DEF WriterOK
<1> DEFINE beat == [t |-> "heartbeat"]
<1>5. DOMAIN flight' = {"batch", "attempt", "beat"} /\ flight'.batch = <<beat>> /\ flight'.attempt = 1
  BY <1>2
<1>6. beat \in OwnFrames(runner.run, runner.seq) /\ beat.t = "heartbeat"
  BY LineFacts, FramesMade
<1> HIDE DEF beat
<1>7. <<beat>> \in Seq(OwnFrames(runner.run, runner.seq))
  BY <1>6, FewIn
<1>8. ~Has(<<beat>>, "session-end") /\ EndsLast(<<beat>>)
  BY <1>6, ByOne, EndsLastOfFew
<1>9. Queue' = Queue
  BY <1>3 DEF Queue
<1>10. WriterOK(runner, writer', flight')
  BY <1>1, <1>3, <1>4, <1>5, <1>7, <1>8, <1>9 DEF WriterOK, Queue
<1> QED BY <1>2, <1>5, <1>9, <1>10 DEF WriterInv, beat

\* An answer that is good ends the delivery; any other leads to a retry or a drop.
LEMMA Answers ==
    ASSUME WriterInv, Answered
    PROVE  WriterInv' /\ Queue' = Queue
<1>1. WriterOK(runner, writer, flight) /\ DOMAIN writer = WriterFields
  BY DEF WriterInv, WriterOK
<1>2. UNCHANGED <<runner, late, faults>>
  BY DEF Answered
<1>3. CASE Ingest(session, flight.batch).ok
  <2>1. flight' = NoFlight /\ UNCHANGED ghost
        /\ writer' = [writer EXCEPT !.quiet = IF Runner = "live" THEN 0 ELSE @]
    BY <1>3 DEF Answered
  <2>2. /\ DOMAIN writer' = WriterFields /\ writer'.chan = writer.chan /\ writer'.buf = writer.buf
        /\ writer'.quiet = (IF Runner = "live" THEN 0 ELSE writer.quiet)
    BY <1>1, <2>1 DEF WriterFields
  <2>3. writer'.quiet \in 0 .. 1
    BY <1>1, <2>2 DEF WriterOK
  <2>4. WriterOK(runner, writer', flight)
    BY <1>1, <2>2, <2>3 DEF WriterOK
  <2>5. WriterOK(runner, writer', flight')
    BY <2>1, <2>4, NothingLeft
  <2> QED BY <1>2, <2>1, <2>2, <2>5 DEF WriterInv, Queue
<1>4. CASE ~Ingest(session, flight.batch).ok
  <2>1. Retry /\ UNCHANGED writer
    BY <1>4 DEF Answered
  <2> QED BY <1>2, <2>1, RetryKeeps DEF WriterInv, Queue
<1> QED BY <1>3, <1>4

\* A delivery that fails is retried or dropped, and may be handled late.
LEMMA Fails ==
    ASSUME WriterInv, Failed
    PROVE  WriterInv' /\ Queue' = Queue
<1>1. /\ Retry /\ UNCHANGED <<runner, writer>> /\ faults' = faults + 1 /\ flight.batch # << >>
      /\ late' = late \/ late' = late \cup {[run |-> runner.run, batch |-> flight.batch]}
  BY DEF Failed
<1>2. RunnerOK(runner) /\ WriterOK(runner, writer, flight) /\ LateOK(runner, late) /\ faults \in Nat
  BY DEF WriterInv
<1>3. LateOK(runner, late')
  BY <1>1, <1>2, GivenUp DEF LateOK
<1>4. faults' \in Nat
  BY <1>1, <1>2
<1> QED BY <1>1, <1>2, <1>3, <1>4, RetryKeeps DEF WriterInv, Queue

\* The steps of the writer keep it as it should be.
LEMMA WriterSteps ==
    ASSUME WriterInv, WriterNext
    PROVE  WriterInv'
<1>1. /\ RunnerOK(runner) /\ WriterOK(runner, writer, flight)
      /\ LateOK(runner, late) /\ GhostOK(runner, ghost) /\ faults \in Nat
      /\ DOMAIN writer = WriterFields
  BY DEF WriterInv, WriterOK
<1>2. CASE WindowElapses
  <2>1. writer' = [writer EXCEPT !.oldest = "due"] /\ UNCHANGED <<runner, flight, late, faults, ghost>>
    BY <1>2 DEF WindowElapses
  <2>2. /\ DOMAIN writer' = WriterFields /\ writer'.chan = writer.chan /\ writer'.buf = writer.buf
        /\ writer'.quiet = writer.quiet
    BY <1>1, <2>1 DEF WriterFields
  <2>3. WriterOK(runner, writer', flight)
    BY <1>1, <2>2 DEF WriterOK
  <2> QED BY <1>1, <2>1, <2>3 DEF WriterInv
<1>3. CASE WriterEnds
  <2>1. /\ runner' = [runner EXCEPT !.pc = "down"] /\ writer' = IdleWriter /\ flight.batch = << >>
        /\ UNCHANGED <<flight, late, faults, ghost>>
    BY <1>3 DEF WriterEnds, Ready
  <2>2. /\ DOMAIN runner' = {"pc", "run", "seq", "window"} /\ runner'.pc = "down"
        /\ runner'.run = runner.run /\ runner'.seq = runner.seq /\ runner'.window = runner.window
    BY <1>1, <2>1 DEF RunnerOK
  <2>3. RunnerOK(runner') /\ runner.seq <= runner'.seq
    BY <1>1, <2>2, LineFacts DEF RunnerOK, WriterInv
  <2>4. LateOK(runner', late) /\ GhostOK(runner', ghost)
    BY <1>1, <2>2, <2>3, GoesOn
  <2>5. WriterOK(runner, writer', NoFlight)
    BY <1>1, <2>1, NothingLeft
  <2>6. WriterOK(runner', writer', flight)
    BY <1>1, <2>1, <2>2, <2>5 DEF WriterOK, NoFlight
  <2> QED BY <1>1, <2>1, <2>3, <2>4, <2>6 DEF WriterInv
<1> QED BY <1>2, <1>3, Receives, Flushes, Beats, Answers, Fails DEF WriterNext

\* The room's steps take a late request at most, and tell the ghost.
LEMMA RoomSteps ==
    ASSUME WriterInv, RoomNext
    PROVE  WriterInv' /\ Line' = Line
<1>1. /\ RunnerOK(runner) /\ WriterOK(runner, writer, flight)
      /\ LateOK(runner, late) /\ GhostOK(runner, ghost) /\ faults \in Nat
      /\ DOMAIN ghost = {"sent", "dropped", "wiped", "astray"}
  BY DEF WriterInv, GhostOK
<1>2. UNCHANGED <<runner, writer, flight>> /\ late' \subseteq late /\ faults' \in {faults, faults + 1}
  BY DEF RoomNext, Straggler, AlarmFires, RoomRestarts
<1>3. DOMAIN ghost' = {"sent", "dropped", "wiped", "astray"} /\ ghost'.sent = ghost.sent
  BY <1>1 DEF RoomNext, Straggler, AlarmFires, RoomRestarts
<1>4. GhostOK(runner, ghost') /\ LateOK(runner, late') /\ faults' \in Nat
  BY <1>1, <1>2, <1>3, GhostKept DEF LateOK
<1> QED BY <1>1, <1>2, <1>4 DEF WriterInv, Line, Queue

\* The viewer's steps and time leave the writer's lines alone.
LEMMA OtherSteps ==
    ASSUME WriterInv, ViewerNext \/ Tick
    PROVE  WriterInv' /\ Line' = Line /\ UNCHANGED <<runner, flight, late, ghost>>
<1>1. /\ RunnerOK(runner) /\ WriterOK(runner, writer, flight)
      /\ LateOK(runner, late) /\ GhostOK(runner, ghost) /\ faults \in Nat
      /\ DOMAIN writer = WriterFields
  BY DEF WriterInv, WriterOK
<1>2. UNCHANGED <<runner, flight, late, ghost>> /\ faults' \in {faults, faults + 1}
  BY DEF ViewerNext, ViewerConnects, RoomResumes, ViewerFlushes, ViewerLost, Tick
<1>3. writer' = writer \/ writer' = [writer EXCEPT !.quiet = IF runner.pc = "down" THEN @ ELSE 1]
  BY DEF ViewerNext, ViewerConnects, RoomResumes, ViewerFlushes, ViewerLost, Tick
<1>4. /\ DOMAIN writer' = WriterFields /\ writer'.chan = writer.chan /\ writer'.buf = writer.buf
      /\ writer'.quiet \in {writer.quiet, 1}
  BY <1>1, <1>3 DEF WriterFields
<1>5. WriterOK(runner, writer', flight)
  BY <1>1, <1>4 DEF WriterOK
<1> QED BY <1>1, <1>2, <1>4, <1>5 DEF WriterInv, Line, Queue

\* Every step keeps the writer as it should be.
LEMMA WriterStep == WriterInv /\ [Next]_vars => WriterInv'
<1> SUFFICES ASSUME WriterInv, [Next]_vars PROVE WriterInv'
  OBVIOUS
<1>1. CASE UNCHANGED vars
  BY <1>1, WriterKept DEF vars
<1>2. CASE Next
  BY <1>2, RunnerSteps, WriterSteps, RoomSteps, OtherSteps DEF Next
<1> QED BY <1>1, <1>2

(***************************************************************************)
(* The viewer                                                              *)
(***************************************************************************)

ViewFields == {"run", "status", "risk", "fills", "known", "totals", "gauges", "cursor", "items"}

\* What is on screen is in order and within the cursor.
GoodView(v) ==
    /\ DOMAIN v = ViewFields
    /\ v.items \in GoodRows /\ v.cursor \in Int /\ UpTo(v.items, v.cursor)

\* What a room may send.
GoodNews(f) ==
    /\ f.t \in {"hello", "snapshot", "positions", "totals"}
    /\ f.t = "snapshot" => f.items \in GoodRows /\ f.cursor \in Int /\ UpTo(f.items, f.cursor)
    /\ f.t = "positions" => f.items \in GoodRows
    /\ f.t = "totals" => f.cursor \in Int

\* A view that says of the session what the room says.
Tells(s, v) == v.run = s.run /\ v.status = s.status /\ v.totals = s.counted

\* A bound of rows stays one as it grows.
LEMMA UpToGrows ==
    ASSUME NEW rows \in GoodRows, NEW m \in Int, NEW n \in Int, UpTo(rows, m), m <= n
    PROVE  UpTo(rows, n)
<1> SUFFICES ASSUME NEW i \in 1 .. Len(rows) PROVE rows[i].seq <= n
  BY DEF UpTo
<1> DEFINE q == rows[i].seq
<1>1. q \in Int /\ q <= m
  BY RowNumbers DEF UpTo, GoodRows
<1> HIDE DEF q
<1>2. q <= n
  BY <1>1
<1> QED BY <1>2 DEF q

\* The highest of the cursor and the fresh rows bounds both.
LEMMA TopIs ==
    ASSUME NEW rows \in GoodRows, NEW c \in Int, Above(rows, c), NEW top,
           top = Max({c} \cup {rows[i].seq : i \in 1 .. Len(rows)})
    PROVE  top \in Int /\ c <= top /\ UpTo(rows, top)
<1> DEFINE S == {c} \cup {rows[i].seq : i \in 1 .. Len(rows)}
           k == Len(rows)
<1>1. k \in Nat /\ \A i \in 1 .. k : rows[i].seq \in Int /\ c < rows[i].seq
  BY RowNumbers DEF GoodRows, Above
<1>2. \E x \in S : \A y \in S : x >= y
  <2>1. CASE k = 0
    <3>1. S = {c}
      BY <2>1
    <3> HIDE DEF S
    <3> QED BY <3>1
  <2>2. CASE k # 0
    <3>1. k \in 1 .. k /\ \A i \in 1 .. k : i < k \/ i = k
      BY <1>1, <2>2
    <3> DEFINE x == rows[k].seq
    <3>2. x \in Int /\ c < x /\ x \in S
      BY <1>1, <3>1
    <3>3. \A i \in 1 .. k : rows[i].seq < x \/ rows[i].seq = x
      BY <3>1 DEF GoodRows, Increasing
    <3> HIDE DEF x, k
    <3>4. \A y \in S : x >= y
      <4> SUFFICES ASSUME NEW y \in S PROVE x >= y
        OBVIOUS
      <4>1. CASE y = c
        BY <3>2, <4>1
      <4>2. CASE \E i \in 1 .. k : y = rows[i].seq
        <5>1. PICK i \in 1 .. k : y = rows[i].seq
          BY <4>2
        <5>2. y \in Int /\ (y < x \/ y = x)
          BY <1>1, <3>3, <5>1
        <5> QED BY <3>2, <5>2
      <4> QED BY <4>1, <4>2 DEF k
    <3> QED BY <3>2, <3>4
  <2> QED BY <2>1, <2>2
<1>3. top \in S /\ \A y \in S : top >= y
  BY <1>2 DEF Max
<1>4. top \in Int
  BY <1>1, <1>3
<1>5. \A i \in 1 .. k : rows[i].seq <= top
  <2> SUFFICES ASSUME NEW i \in 1 .. k PROVE rows[i].seq <= top
    OBVIOUS
  <2> DEFINE q == rows[i].seq
  <2>1. q \in Int /\ q \in S
    BY <1>1
  <2> HIDE DEF q, S
  <2>2. q <= top
    BY <1>3, <1>4, <2>1
  <2> QED BY <2>2 DEF q
<1>6. c <= top
  <2>1. c \in S
    OBVIOUS
  <2> HIDE DEF S
  <2> QED BY <1>3, <1>4, <2>1
<1> QED BY <1>4, <1>5, <1>6 DEF UpTo

\* A frame from the room leaves the view in order; a snapshot tells all of the
\* session, a totals frame its status and totals.
LEMMA ViewAfter ==
    ASSUME NEW v, GoodView(v), NEW f, GoodNews(f), NEW a, a = ApplyLiveFrame(v, f)
    PROVE  /\ GoodView(a)
           /\ f.t = "snapshot" => a.run = f.run /\ a.status = f.status /\ a.totals = f.counted
           /\ f.t = "totals" => a.run = v.run /\ a.status = f.status /\ a.totals = f.counted
           /\ f.t = "positions" => a.run = v.run
           /\ f.t \in {"hello", "positions"} => a.run = v.run /\ a.status = v.status /\ a.totals = v.totals
<1>1. /\ DOMAIN v = ViewFields /\ v.items \in GoodRows /\ v.cursor \in Int /\ UpTo(v.items, v.cursor)
  BY DEF GoodView
<1>2. MaxItems \in Nat
  BY StreamAssumption
<1>3. CASE f.t = "hello"
  <2>1. a = v
    BY <1>3 DEF ApplyLiveFrame
  <2> QED BY <1>3, <2>1
<1>4. CASE f.t = "snapshot"
  <2>1. f.items \in GoodRows /\ f.cursor \in Int /\ UpTo(f.items, f.cursor)
    BY <1>4 DEF GoodNews
  <2>2. a = Adopt(v, f)
    BY <1>4 DEF ApplyLiveFrame
  <2>3. /\ DOMAIN a = ViewFields /\ a.run = f.run /\ a.status = f.status /\ a.totals = f.counted
        /\ a.cursor = Larger(v.cursor, f.cursor) /\ a.items = Newest(f.items, MaxItems)
    BY <2>2 DEF Adopt, ViewFields
  <2>4. a.cursor \in Int /\ f.cursor <= a.cursor
    BY <1>1, <2>1, <2>3 DEF Larger
  <2>5. a.items \in GoodRows /\ UpTo(a.items, f.cursor)
    BY <1>2, <2>1, <2>3, NewestRows
  <2>6. UpTo(a.items, a.cursor)
    BY <2>1, <2>4, <2>5, UpToGrows
  <2> QED BY <1>4, <2>3, <2>4, <2>5, <2>6 DEF GoodView
<1>5. CASE f.t = "positions"
  <2> DEFINE fresh == RowsAbove(f.items, v.cursor)
             top == Max({v.cursor} \cup {fresh[i].seq : i \in 1 .. Len(fresh)})
             items == Newest(v.items \o fresh, MaxItems)
  <2>1. a = [v EXCEPT !.cursor = top, !.items = items]
    BY <1>5 DEF ApplyLiveFrame, ShowRows
  <2>2. f.items \in GoodRows
    BY <1>5 DEF GoodNews
  <2>3. AboveUpTo(f.items, v.cursor, Len(f.items), fresh)
    BY <2>2, RowsAboveAre
  <2> HIDE DEF fresh
  <2>4. fresh \in GoodRows /\ \A i \in 1 .. Len(fresh) : fresh[i].seq > v.cursor
    BY <2>3 DEF AboveUpTo
  <2>5. Above(fresh, v.cursor)
    <3> SUFFICES ASSUME NEW i \in 1 .. Len(fresh) PROVE v.cursor < fresh[i].seq
      BY DEF Above
    <3> DEFINE q == fresh[i].seq
    <3>1. q \in Int /\ q > v.cursor
      BY <2>4, RowNumbers DEF GoodRows
    <3> HIDE DEF q
    <3>2. v.cursor < q
      BY <1>1, <3>1
    <3> QED BY <3>2 DEF q
  <2>6. top \in Int /\ v.cursor <= top /\ UpTo(fresh, top)
    BY <1>1, <2>4, <2>5, TopIs
  <2> HIDE DEF top
  <2>7. UpTo(v.items, top)
    BY <1>1, <2>6, UpToGrows
  <2>8. v.items \o fresh \in GoodRows /\ UpTo(v.items \o fresh, top)
    BY <1>1, <2>4, <2>5, <2>6, <2>7, RowsJoined
  <2>9. items \in GoodRows /\ UpTo(items, top)
    BY <1>2, <2>6, <2>8, NewestRows
  <2> HIDE DEF items
  <2>10. /\ DOMAIN a = ViewFields /\ a.run = v.run /\ a.status = v.status /\ a.totals = v.totals
         /\ a.cursor = top /\ a.items = items
    BY <1>1, <2>1 DEF ViewFields
  <2> QED BY <1>5, <2>6, <2>9, <2>10 DEF GoodView
<1>6. CASE f.t = "totals"
  <2> DEFINE top == Larger(v.cursor, f.cursor)
  <2>1. a = AdoptTotals(v, f)
    BY <1>6 DEF ApplyLiveFrame
  <2>2. \/ a = v /\ v.totals = f.counted /\ v.status = f.status
        \/ a = [v EXCEPT !.status = f.status, !.risk = f.risk, !.known = TRUE,
                         !.totals = f.counted, !.gauges = f.gauges, !.cursor = top]
    BY <2>1 DEF AdoptTotals
  <2>3. f.cursor \in Int
    BY <1>6 DEF GoodNews
  <2>4. top \in Int /\ v.cursor <= top /\ v.cursor <= v.cursor
    BY <1>1, <2>3 DEF Larger
  <2> HIDE DEF top
  <2>5. /\ DOMAIN a = ViewFields /\ a.run = v.run /\ a.status = f.status /\ a.totals = f.counted
        /\ a.items = v.items /\ a.cursor \in {v.cursor, top}
    BY <1>1, <2>2 DEF ViewFields
  <2>6. a.cursor \in Int /\ v.cursor <= a.cursor
    BY <1>1, <2>4, <2>5
  <2>7. UpTo(a.items, a.cursor)
    BY <1>1, <2>5, <2>6, UpToGrows
  <2> QED BY <1>1, <1>6, <2>5, <2>6, <2>7 DEF GoodView
<1> QED BY <1>3, <1>4, <1>5, <1>6 DEF GoodNews

\* A row of frames from the room.
Mail(b) == \E S : b \in Seq(S) /\ \A f \in S : GoodNews(f)

\* No mail is good mail.
LEMMA MailEmpty == Mail(<< >>)
<1> DEFINE S == {}
<1>1. << >> \in Seq(S) /\ ~\E f : f \in S
  BY EmptySeq
<1> HIDE DEF S
<1> QED BY <1>1 DEF Mail

\* Each frame of it is good news.
LEMMA MailReads ==
    ASSUME NEW b, Mail(b)
    PROVE  Len(b) \in Nat /\ \A i \in 1 .. Len(b) : GoodNews(b[i])
<1>1. PICK S : b \in Seq(S) /\ \A f \in S : GoodNews(f)
  BY DEF Mail
<1> QED BY <1>1, LenProperties, ElementOfSeq

\* It grows by good news.
LEMMA MailGrows ==
    ASSUME NEW b, NEW f, Mail(b), GoodNews(f)
    PROVE  Mail(Append(b, f)) /\ b \o <<f>> = Append(b, f)
<1>1. PICK S : b \in Seq(S) /\ \A e \in S : GoodNews(e)
  BY DEF Mail
<1> DEFINE T == S \cup {f}
<1>2. S \subseteq T /\ f \in T /\ \A e \in T : GoodNews(e)
  BY <1>1
<1> HIDE DEF T
<1>3. b \in Seq(T)
  BY <1>1, <1>2, SeqMonotonic
<1>4. Append(b, f) \in Seq(T) /\ b \o <<f>> = Append(b, f)
  BY <1>2, <1>3, AppendProperties, AppendIsConcat
<1> QED BY <1>2, <1>4 DEF Mail

\* A second member.
LEMMA PairMade ==
    ASSUME NEW f, NEW e
    PROVE  Append(<<f>>, e) = <<f, e>>
<1> DEFINE T == {f, e}
           c == Append(<<f>>, e)
           d == <<f, e>>
           a == <<f>>
<1>1. d \in Seq(T) /\ Len(d) = 2 /\ d[1] = f /\ d[2] = e
  OBVIOUS
<1>2. a \in Seq(T) /\ Len(a) = 1 /\ a[1] = f /\ c = Append(a, e) /\ e \in T
  OBVIOUS
<1> HIDE DEF T, c, d, a
<1>6. a \in Seq(T) /\ e \in T
  BY <1>2
<1>7. /\ Append(a, e) \in Seq(T) /\ Len(Append(a, e)) = Len(a) + 1
      /\ Append(a, e)[Len(a) + 1] = e /\ \A i \in 1 .. Len(a) : Append(a, e)[i] = a[i]
  BY <1>6, AppendProperties
<1>3. c \in Seq(T) /\ Len(c) = Len(a) + 1 /\ c[Len(a) + 1] = e /\ \A i \in 1 .. Len(a) : c[i] = a[i]
  BY <1>2, <1>7, Zenon
<1>5. Len(c) = 2 /\ c[1] = f /\ c[2] = e
  BY <1>2, <1>3
<1>4. c = d
  <2>1. \A i \in 1 .. Len(c) : c[i] = d[i]
    BY <1>1, <1>5
  <2> QED BY <1>1, <1>3, <1>5, <2>1, SeqEqual
<1> QED BY <1>4 DEF c, d

\* And by two pieces of it.
LEMMA MailGrowsTwice ==
    ASSUME NEW b, NEW f, NEW e, Mail(b), GoodNews(f), GoodNews(e)
    PROVE  Mail(Append(Append(b, f), e)) /\ b \o <<f, e>> = Append(Append(b, f), e)
<1>1. Mail(Append(b, f)) /\ b \o <<f>> = Append(b, f)
  BY MailGrows
<1>2. Mail(Append(Append(b, f), e)) /\ Append(b, f) \o <<e>> = Append(Append(b, f), e)
  BY <1>1, MailGrows
<1>3. PICK S : b \in Seq(S) /\ \A x \in S : GoodNews(x)
  BY DEF Mail
<1> DEFINE T == S \cup {f, e}
<1>4. S \subseteq T /\ f \in T /\ e \in T
  OBVIOUS
<1> HIDE DEF T
<1>5. b \in Seq(T)
  BY <1>3, <1>4, SeqMonotonic
<1>6. <<f>> \in Seq(T) /\ <<e>> \in Seq(T)
  BY <1>4, FewIn
<1>7. \A p, q, r \in Seq(T) : p \o (q \o r) = (p \o q) \o r
  BY JoinsAssociate
<1>8. b \o (<<f>> \o <<e>>) = (b \o <<f>>) \o <<e>>
  BY <1>5, <1>6, <1>7
<1>9. <<f>> \o <<e>> = <<f, e>>
  <2>1. Append(<<f>>, e) = <<f>> \o <<e>>
    BY <1>4, <1>6, AppendIsConcat
  <2>2. Append(<<f>>, e) = <<f, e>>
    BY PairMade
  <2> QED BY <2>1, <2>2
<1>10. b \o <<f, e>> = (b \o <<f>>) \o <<e>>
  BY <1>8, <1>9
<1>11. (b \o <<f>>) \o <<e>> = Append(Append(b, f), e)
  BY <1>1, <1>2
<1> QED BY <1>2, <1>10, <1>11

\* All or nothing of it may be lost.
LEMMA MailCut ==
    ASSUME NEW b, Mail(b), NEW n \in {0, Len(b)}
    PROVE  Mail(SubSeq(b, 1, n))
<1>1. PICK S : b \in Seq(S) /\ \A x \in S : GoodNews(x)
  BY DEF Mail
<1>2. SubSeq(b, 1, 0) = << >>
  BY <1>1, SubSeqEmpty
<1>3. SubSeq(b, 1, Len(b)) = b
  BY <1>1, SubSeqFull
<1>4. n = 0 => SubSeq(b, 1, n) = << >>
  BY <1>2
<1>5. n = Len(b) => SubSeq(b, 1, n) = b
  BY <1>3
<1> DEFINE c == SubSeq(b, 1, n)
<1>6. c = << >> \/ c = b
  BY <1>4, <1>5
<1> HIDE DEF c
<1>7. Mail(c)
  BY <1>6, MailEmpty
<1> QED BY <1>7 DEF c

\* What a viewer has read leaves its view in order.
LEMMA SeenIsGood ==
    ASSUME NEW v, GoodView(v), NEW b, Mail(b)
    PROVE  GoodView(Seen(v, b))
<1>1. Len(b) \in Nat /\ \A i \in 1 .. Len(b) : GoodNews(b[i])
  BY MailReads
<1>2. PICK g : SeenSteps(v, b, g) /\ Seen(v, b) = g[Len(b)]
  BY <1>1, SeenUnfolds
<1> DEFINE T == {n \in 0 .. Len(b) : GoodView(g[n])}
<1>3. 0 \in T
  BY <1>1, <1>2 DEF SeenSteps
<1>4. ASSUME NEW n \in 0 .. Len(b) - 1, n \in T PROVE n + 1 \in T
  <2>1. n + 1 \in 0 .. Len(b) /\ n + 1 \in 1 .. Len(b) /\ n + 1 # 0 /\ (n + 1) - 1 = n
    BY <1>1
  <2>2. g[n + 1] = ApplyLiveFrame(g[n], b[n + 1])
    BY <1>2, <2>1 DEF SeenSteps
  <2>3. GoodView(g[n + 1])
    BY <1>1, <1>4, <2>1, <2>2, ViewAfter
  <2> QED BY <2>1, <2>3
<1>5. Len(b) \in T
  <2> HIDE DEF T
  <2>1. \A n \in 0 .. Len(b) : n \in T
    BY <1>1, <1>3, <1>4, CountUp
  <2> QED BY <1>1, <2>1
<1> QED BY <1>2, <1>5

\* A further frame is read after the others.
LEMMA SeenMore ==
    ASSUME NEW v, NEW b, Mail(b), NEW f, GoodNews(f)
    PROVE  Seen(v, Append(b, f)) = ApplyLiveFrame(Seen(v, b), f)
<1> DEFINE c == Append(b, f)
           k == Len(b)
<1>1. k \in Nat /\ Len(c) = k + 1 /\ c[k + 1] = f /\ \A i \in 1 .. k : c[i] = b[i]
  <2>1. PICK S : b \in Seq(S)
    BY DEF Mail
  <2>2. b \in Seq(S \cup {f})
    BY <2>1, SeqMonotonic
  <2> QED BY <2>2, AppendProperties, LenProperties
<1>2. PICK g : SeenSteps(v, b, g) /\ Seen(v, b) = g[k]
  BY <1>1, SeenUnfolds
<1> HIDE DEF c, k
<1>3. Len(c) \in Nat
  BY <1>1
<1>4. PICK h : SeenSteps(v, c, h) /\ Seen(v, c) = h[Len(c)]
  BY <1>3, SeenUnfolds
<1> DEFINE T == {n \in 0 .. k : g[n] = h[n]}
<1>5. 0 \in T
  <2>1. 0 \in 0 .. k /\ 0 \in 0 .. Len(c)
    BY <1>1
  <2> QED BY <1>2, <1>4, <2>1 DEF SeenSteps, k
<1>6. ASSUME NEW n \in 0 .. k - 1, n \in T PROVE n + 1 \in T
  <2>1. n + 1 \in 0 .. k /\ n + 1 \in 0 .. Len(c) /\ n + 1 \in 1 .. k /\ n + 1 # 0 /\ (n + 1) - 1 = n
    BY <1>1
  <2>2. g[n + 1] = ApplyLiveFrame(g[n], b[n + 1])
    BY <1>2, <2>1 DEF SeenSteps, k
  <2>3. h[n + 1] = ApplyLiveFrame(h[n], c[n + 1])
    BY <1>4, <2>1 DEF SeenSteps
  <2>4. c[n + 1] = b[n + 1]
    BY <1>1, <2>1
  <2> QED BY <1>6, <2>1, <2>2, <2>3, <2>4
<1>7. k \in T
  <2> HIDE DEF T
  <2>1. \A n \in 0 .. k : n \in T
    BY <1>1, <1>5, <1>6, CountUp
  <2> QED BY <1>1, <2>1
<1>8. h[k + 1] = ApplyLiveFrame(h[k], f)
  <2>1. k + 1 \in 0 .. Len(c) /\ k + 1 # 0 /\ (k + 1) - 1 = k
    BY <1>1
  <2>2. h[k + 1] = ApplyLiveFrame(h[k], c[k + 1])
    BY <1>4, <2>1 DEF SeenSteps
  <2> QED BY <1>1, <2>2
<1>9. Seen(v, c) = ApplyLiveFrame(Seen(v, b), f)
  BY <1>1, <1>2, <1>4, <1>7, <1>8
<1> QED BY <1>9 DEF c

\* Nothing read changes nothing.
LEMMA SeenNothing ==
    ASSUME NEW v
    PROVE  Seen(v, << >>) = v
<1>1. Len(<< >>) = 0 /\ 0 \in Nat /\ 0 \in 0 .. 0
  OBVIOUS
<1>2. PICK g : SeenSteps(v, << >>, g) /\ Seen(v, << >>) = g[0]
  BY <1>1, SeenUnfolds
<1> QED BY <1>1, <1>2 DEF SeenSteps

(***************************************************************************)
(* The room and its viewer                                                 *)
(***************************************************************************)

\* A connected viewer that will have read its mail tells the session.
ViewerOK(v, s) ==
    /\ DOMAIN v = {"open", "inbox", "ask", "shows", "resume"} /\ v.open \in BOOLEAN
    /\ GoodView(v.shows) /\ Mail(v.inbox)
    /\ v.open => Tells(s, Seen(v.shows, v.inbox))

RoomInv == GoodSession(session) /\ ViewerOK(viewer, session)

\* What the room says of its session is good news, and tells it.
LEMMA RoomSpeaks ==
    ASSUME NEW s, GoodSession(s), NEW after
    PROVE  /\ GoodNews(SnapshotFrame(s, after)) /\ SnapshotFrame(s, after).t = "snapshot"
           /\ SnapshotFrame(s, after).run = s.run /\ SnapshotFrame(s, after).status = s.status
           /\ SnapshotFrame(s, after).counted = s.counted
           /\ GoodNews(TotalsFrame(s)) /\ TotalsFrame(s).t = "totals"
           /\ TotalsFrame(s).status = s.status /\ TotalsFrame(s).counted = s.counted
<1> DEFINE f == SnapshotFrame(s, after)
           e == TotalsFrame(s)
<1>1. s.counted \in GoodRows /\ s.cursor \in Int /\ UpTo(s.counted, s.cursor) /\ s.ring = Newest(s.counted, RingCap)
  BY DEF GoodSession
<1>2. RingCap \in Nat
  BY StreamAssumption
<1>3. s.ring \in GoodRows /\ UpTo(s.ring, s.cursor)
  BY <1>1, <1>2, NewestRows
<1>4. RecordsAfter(s, after) \in GoodRows /\ UpTo(RecordsAfter(s, after), s.cursor)
  BY <1>1, <1>3, RowsAboveUpTo DEF RecordsAfter
<1>5. /\ f.t = "snapshot" /\ f.run = s.run /\ f.status = s.status /\ f.counted = s.counted
      /\ f.cursor = s.cursor /\ f.items = RecordsAfter(s, after)
  BY DEF SnapshotFrame
<1>6. e.t = "totals" /\ e.status = s.status /\ e.counted = s.counted /\ e.cursor = s.cursor
  BY DEF TotalsFrame
<1> HIDE DEF f, e
<1>7. GoodNews(f) /\ GoodNews(e)
  BY <1>1, <1>4, <1>5, <1>6 DEF GoodNews
<1> QED BY <1>5, <1>6, <1>7 DEF f, e

\* A frame more in the mail.
LEMMA OneMore ==
    ASSUME NEW v, GoodView(v), NEW b, Mail(b), NEW f, GoodNews(f)
    PROVE  Mail(b \o <<f>>) /\ Seen(v, b \o <<f>>) = ApplyLiveFrame(Seen(v, b), f)
<1>1. Mail(Append(b, f)) /\ b \o <<f>> = Append(b, f)
  BY MailGrows
<1>2. Seen(v, Append(b, f)) = ApplyLiveFrame(Seen(v, b), f)
  BY SeenMore
<1> DEFINE c == b \o <<f>>
           d == Append(b, f)
<1>3. Mail(d) /\ c = d /\ Seen(v, d) = ApplyLiveFrame(Seen(v, b), f)
  BY <1>1, <1>2
<1> HIDE DEF c, d
<1>4. Mail(c) /\ Seen(v, c) = ApplyLiveFrame(Seen(v, b), f)
  BY <1>3
<1> QED BY <1>4 DEF c

\* Two frames more in the mail.
LEMMA TwoMore ==
    ASSUME NEW v, GoodView(v), NEW b, Mail(b), NEW f, GoodNews(f), NEW e, GoodNews(e)
    PROVE  /\ Mail(b \o <<f, e>>)
           /\ Seen(v, b \o <<f, e>>) = ApplyLiveFrame(ApplyLiveFrame(Seen(v, b), f), e)
<1> DEFINE a == Append(b, f)
           d == Append(a, e)
           c == b \o <<f, e>>
<1>1. Mail(a)
  BY MailGrows
<1>2. Mail(d) /\ c = d
  BY MailGrowsTwice
<1>3. Seen(v, a) = ApplyLiveFrame(Seen(v, b), f)
  BY SeenMore
<1> HIDE DEF a
<1>4. Seen(v, d) = ApplyLiveFrame(Seen(v, a), e)
  BY <1>1, SeenMore
<1> HIDE DEF d, c
<1>5. Mail(c) /\ Seen(v, c) = ApplyLiveFrame(ApplyLiveFrame(Seen(v, b), f), e)
  BY <1>2, <1>3, <1>4
<1> QED BY <1>5 DEF c

\* Totals alone tell a session whose run is the one told before.
LEMMA ToldOne ==
    ASSUME NEW s, NEW v, ViewerOK(v, s), NEW d, GoodSession(d), d.run = s.run
    PROVE  ViewerOK(Broadcast(v, <<TotalsFrame(d)>>), d)
<1> DEFINE e == TotalsFrame(d)
           w == Broadcast(v, <<e>>)
           x == Seen(v.shows, v.inbox)
           c == v.inbox \o <<e>>
<1>1. /\ DOMAIN v = {"open", "inbox", "ask", "shows", "resume"} /\ v.open \in BOOLEAN
      /\ GoodView(v.shows) /\ Mail(v.inbox) /\ (v.open => Tells(s, x))
  BY DEF ViewerOK
<1>2. GoodNews(e) /\ e.t = "totals" /\ e.status = d.status /\ e.counted = d.counted
  BY RoomSpeaks
<1> HIDE DEF e
<1>3. GoodView(x)
  BY <1>1, SeenIsGood
<1>4. Mail(c) /\ Seen(v.shows, c) = ApplyLiveFrame(x, e)
  BY <1>1, <1>2, OneMore
<1> HIDE DEF x, c
<1> DEFINE a == ApplyLiveFrame(x, e)
<1>5. a.run = x.run /\ a.status = d.status /\ a.totals = d.counted
  BY <1>2, <1>3, ViewAfter
<1> HIDE DEF a
<1>6. CASE v.open
  <2>1. Tells(d, Seen(v.shows, c))
    BY <1>1, <1>4, <1>5, <1>6 DEF Tells, a
  <2>2. w = [v EXCEPT !.inbox = c]
    BY <1>6 DEF Broadcast, c
  <2>3. /\ DOMAIN w = {"open", "inbox", "ask", "shows", "resume"} /\ w.open = v.open
        /\ w.shows = v.shows /\ w.inbox = c
    BY <1>1, <2>2
  <2> HIDE DEF w
  <2>4. ViewerOK(w, d)
    BY <1>1, <1>4, <2>1, <2>3 DEF ViewerOK
  <2> QED BY <2>4 DEF w, e
<1>7. CASE ~v.open
  <2>1. w = v
    BY <1>7 DEF Broadcast
  <2> HIDE DEF w
  <2>2. ViewerOK(w, d)
    BY <1>1, <1>7, <2>1 DEF ViewerOK
  <2> QED BY <2>2 DEF w, e
<1> QED BY <1>6, <1>7

\* Rows or a snapshot, then totals, tell the session.
LEMMA ToldTwo ==
    ASSUME NEW s, NEW v, ViewerOK(v, s), NEW d, GoodSession(d), NEW f, GoodNews(f),
           \/ f.t = "positions" /\ d.run = s.run
           \/ f.t = "snapshot" /\ f.run = d.run
    PROVE  ViewerOK(Broadcast(v, <<f, TotalsFrame(d)>>), d)
<1> DEFINE e == TotalsFrame(d)
           w == Broadcast(v, <<f, e>>)
           x == Seen(v.shows, v.inbox)
           c == v.inbox \o <<f, e>>
<1>1. /\ DOMAIN v = {"open", "inbox", "ask", "shows", "resume"} /\ v.open \in BOOLEAN
      /\ GoodView(v.shows) /\ Mail(v.inbox) /\ (v.open => Tells(s, x))
  BY DEF ViewerOK
<1>2. GoodNews(e) /\ e.t = "totals" /\ e.status = d.status /\ e.counted = d.counted
  BY RoomSpeaks
<1> HIDE DEF e
<1>3. GoodView(x)
  BY <1>1, SeenIsGood
<1> DEFINE y == ApplyLiveFrame(x, f)
           a == ApplyLiveFrame(y, e)
<1>4. Mail(c) /\ Seen(v.shows, c) = a
  BY <1>1, <1>2, TwoMore
<1> HIDE DEF x, c
<1>5. GoodView(y) /\ (f.t = "positions" => y.run = x.run) /\ (f.t = "snapshot" => y.run = f.run)
  BY <1>3, ViewAfter
<1> HIDE DEF y
<1>6. a.run = y.run /\ a.status = d.status /\ a.totals = d.counted
  BY <1>2, <1>5, ViewAfter
<1> HIDE DEF a
<1>7. CASE v.open
  <2>1. Tells(d, Seen(v.shows, c))
    BY <1>1, <1>4, <1>5, <1>6, <1>7 DEF Tells
  <2>2. w = [v EXCEPT !.inbox = c]
    BY <1>7 DEF Broadcast, c
  <2>3. /\ DOMAIN w = {"open", "inbox", "ask", "shows", "resume"} /\ w.open = v.open
        /\ w.shows = v.shows /\ w.inbox = c
    BY <1>1, <2>2
  <2> HIDE DEF w
  <2>4. ViewerOK(w, d)
    BY <1>1, <1>4, <2>1, <2>3 DEF ViewerOK
  <2> QED BY <2>4 DEF w, e
<1>8. CASE ~v.open
  <2>1. w = v
    BY <1>8 DEF Broadcast
  <2> HIDE DEF w
  <2>2. ViewerOK(w, d)
    BY <1>1, <1>8, <2>1 DEF ViewerOK
  <2> QED BY <2>2 DEF w, e
<1> QED BY <1>7, <1>8

\* A request handled leaves the room and its viewer in agreement.
LEMMA Handled ==
    ASSUME RoomInv, NEW batch \in Batches, batch # << >>, Handle(Ingest(session, batch))
    PROVE  RoomInv'
<1> DEFINE done == Ingest(session, batch)
<1>1. GoodSession(session) /\ ViewerOK(viewer, session)
  BY DEF RoomInv
<1>2. /\ done.ok \in BOOLEAN /\ done.started \in BOOLEAN /\ GoodSession(done.s)
      /\ ~done.ok => done.s = session
      /\ done.ok /\ ~done.started => done.s.run = session.run
      /\ \/ done.relay = << >>
         \/ \E f \in GoodFrames : f.t = "positions" /\ done.relay = <<f>>
  BY <1>1, AnswerFacts
<1> HIDE DEF done
<1>3. /\ session' = done.s
      /\ done.ok => viewer' = Broadcast(viewer,
                                 Append(IF done.started THEN <<SnapshotFrame(done.s, -1)>> ELSE done.relay,
                                        TotalsFrame(done.s)))
      /\ ~done.ok => viewer' = viewer
  BY DEF Handle, done
<1> DEFINE e == TotalsFrame(done.s)
           f == SnapshotFrame(done.s, -1)
<1>4. CASE ~done.ok
  BY <1>1, <1>2, <1>3, <1>4 DEF RoomInv
<1>5. CASE done.ok /\ done.started
  <2>1. viewer' = Broadcast(viewer, Append(<<f>>, e))
    BY <1>3, <1>5
  <2>2. GoodNews(f) /\ f.t = "snapshot" /\ f.run = done.s.run
    BY <1>2, RoomSpeaks
  <2> HIDE DEF f
  <2>3. ViewerOK(Broadcast(viewer, <<f, e>>), done.s)
    BY <1>1, <1>2, <2>2, ToldTwo
  <2> HIDE DEF e
  <2>4. Append(<<f>>, e) = <<f, e>>
    BY PairMade
  <2>5. viewer' = Broadcast(viewer, <<f, e>>)
    BY <2>1, <2>4
  <2> QED BY <1>2, <1>3, <2>3, <2>5 DEF RoomInv
<1>6. CASE done.ok /\ ~done.started /\ done.relay = << >>
  <2>1. viewer' = Broadcast(viewer, Append(<< >>, e))
    BY <1>3, <1>6
  <2>2. ViewerOK(Broadcast(viewer, <<e>>), done.s)
    BY <1>1, <1>2, <1>6, ToldOne
  <2> HIDE DEF e
  <2>3. Append(<< >>, e) = <<e>>
    OBVIOUS
  <2>4. viewer' = Broadcast(viewer, <<e>>)
    BY <2>1, <2>3
  <2> QED BY <1>2, <1>3, <2>2, <2>4 DEF RoomInv
<1>7. ASSUME done.ok /\ ~done.started, NEW g \in GoodFrames, g.t = "positions", done.relay = <<g>>
      PROVE  RoomInv'
  <2>1. viewer' = Broadcast(viewer, Append(<<g>>, e))
    BY <1>3, <1>7
  <2>2. GoodNews(g)
    BY <1>7 DEF GoodNews, GoodFrames
  <2>3. ViewerOK(Broadcast(viewer, <<g, e>>), done.s)
    BY <1>1, <1>2, <1>7, <2>2, ToldTwo
  <2> HIDE DEF e
  <2>4. Append(<<g>>, e) = <<g, e>>
    BY PairMade
  <2>5. viewer' = Broadcast(viewer, <<g, e>>)
    BY <2>1, <2>4
  <2> QED BY <1>2, <1>3, <2>3, <2>5 DEF RoomInv
<1> QED BY <1>2, <1>4, <1>5, <1>6, <1>7

\* A batch that is delivered is one.
LEMMA DeliveredIsBatch ==
    ASSUME WriterInv
    PROVE  /\ flight.batch \in Batches
           /\ \A request \in late : request.batch \in Batches /\ request.batch # << >>
<1>1. flight.batch \in Seq(GoodFrames) /\ EndsLast(flight.batch)
  BY OwnAreGood DEF WriterInv, WriterOK
<1> QED BY <1>1 DEF Batches, WriterInv, LateOK, RequestOK

\* Initially the room is fresh and its viewer has seen nothing.
LEMMA RoomInit == Init => RoomInv
<1> SUFFICES ASSUME Init PROVE RoomInv
  OBVIOUS
<1>1. /\ session = Fresh
      /\ viewer = [open |-> FALSE, inbox |-> << >>, ask |-> NoAsk, shows |-> NothingSeen,
                   resume |-> [run |-> NoRun, seq |-> 0]]
  BY DEF Init
<1>2. GoodView(NothingSeen)
  <2>1. DOMAIN NothingSeen = ViewFields /\ NothingSeen.items = << >> /\ NothingSeen.cursor = -1
    BY DEF NothingSeen, ViewFields
  <2>2. -1 \in Int
    OBVIOUS
  <2> QED BY <2>1, <2>2, NoRows DEF GoodView
<1>3. /\ DOMAIN viewer = {"open", "inbox", "ask", "shows", "resume"} /\ viewer.open = FALSE
      /\ viewer.inbox = << >> /\ viewer.shows = NothingSeen
  BY <1>1
<1>4. ViewerOK(viewer, session)
  BY <1>2, <1>3, MailEmpty DEF ViewerOK
<1> QED BY <1>1, <1>4, FreshIsGood DEF RoomInv

\* A check changes nothing but the status.
LEMMA MarkedIs ==
    ASSUME NEW s, GoodSession(s), NEW d, d = MarkStaleIfExpired(s)
    PROVE  /\ GoodSession(d) /\ d.run = s.run /\ d.cursor = s.cursor /\ d.counted = s.counted
           /\ d = s \/ (Expired(s) /\ d.status = "stale" /\ d.age = s.age)
<1>1. d = s \/ (Expired(s) /\ d = [s EXCEPT !.status = "stale"])
  BY DEF MarkStaleIfExpired
<1>2. CASE d = s
  BY <1>2
<1>3. CASE Expired(s) /\ d = [s EXCEPT !.status = "stale"]
  <2>1. DOMAIN s = SessionFields /\ s.cursor \in Int /\ s.run \in Nat /\ s.age \in Nat
    BY DEF GoodSession
  <2>2. /\ DOMAIN d = SessionFields /\ d.run = s.run /\ d.status = "stale" /\ d.age = s.age
        /\ d.counted = s.counted /\ d.cursor = s.cursor /\ d.ring = s.ring
    BY <1>3, <2>1 DEF SessionFields
  <2>3. d.status \in Statuses /\ s.cursor <= d.cursor
    BY <2>1, <2>2 DEF Statuses
  <2>4. GoodSession(d)
    BY <2>1, <2>2, <2>3, SessionOf
  <2> QED BY <1>3, <2>2, <2>4
<1> QED BY <1>1, <1>2, <1>3

\* A socket that closes.
LEMMA CutIsOK ==
    ASSUME NEW v, NEW s, NEW d, ViewerOK(v, s), NEW n \in {0, Len(v.inbox)}
    PROVE  ViewerOK(Cut(v, n), d)
<1> DEFINE w == Cut(v, n)
           b == SubSeq(v.inbox, 1, n)
<1>1. /\ DOMAIN v = {"open", "inbox", "ask", "shows", "resume"} /\ GoodView(v.shows) /\ Mail(v.inbox)
  BY DEF ViewerOK
<1>2. Mail(b)
  BY <1>1, MailCut
<1>3. w = [v EXCEPT !.open = FALSE, !.ask = NoAsk, !.inbox = b]
  BY DEF Cut
<1> HIDE DEF b
<1>4. /\ DOMAIN w = {"open", "inbox", "ask", "shows", "resume"} /\ w.open = FALSE
      /\ w.inbox = b /\ w.shows = v.shows
  BY <1>1, <1>3
<1> HIDE DEF w
<1>5. ViewerOK(w, d)
  BY <1>1, <1>2, <1>4 DEF ViewerOK
<1> QED BY <1>5 DEF w

\* The steps of the viewer keep the room and the viewer in agreement.
LEMMA ViewerSteps ==
    ASSUME RoomInv, ViewerNext
    PROVE  RoomInv'
<1>1. /\ GoodSession(session) /\ ViewerOK(viewer, session)
      /\ DOMAIN viewer = {"open", "inbox", "ask", "shows", "resume"} /\ viewer.open \in BOOLEAN
      /\ GoodView(viewer.shows) /\ Mail(viewer.inbox)
      /\ (viewer.open => Tells(session, Seen(viewer.shows, viewer.inbox)))
  BY DEF RoomInv, ViewerOK
<1>2. session' = session
  BY DEF ViewerNext, ViewerConnects, RoomResumes, ViewerFlushes, ViewerLost
<1> DEFINE x == Seen(viewer.shows, viewer.inbox)
<1>3. GoodView(x)
  BY <1>1, SeenIsGood
<1>4. CASE ViewerConnects
  <2> DEFINE hello == [t |-> "hello"]
             f == SnapshotFrame(session, -1)
             c == viewer.inbox \o <<hello, f>>
             ask == IF viewer.resume.run = NoRun THEN NoAsk ELSE viewer.resume.seq
  <2>1. viewer' = [viewer EXCEPT !.open = TRUE, !.inbox = c, !.ask = ask]
    BY <1>4 DEF ViewerConnects
  <2>2. GoodNews(hello) /\ hello.t = "hello"
    BY DEF GoodNews
  <2>3. /\ GoodNews(f) /\ f.t = "snapshot" /\ f.run = session.run /\ f.status = session.status
        /\ f.counted = session.counted
    BY <1>1, RoomSpeaks
  <2> HIDE DEF hello, f, ask
  <2> DEFINE y == ApplyLiveFrame(x, hello)
             a == ApplyLiveFrame(y, f)
  <2>4. Mail(c) /\ Seen(viewer.shows, c) = a
    BY <1>1, <2>2, <2>3, TwoMore
  <2> HIDE DEF c, x
  <2>5. GoodView(y)
    BY <1>3, <2>2, ViewAfter
  <2> HIDE DEF y
  <2>6. a.run = session.run /\ a.status = session.status /\ a.totals = session.counted
    BY <2>3, <2>5, ViewAfter
  <2> HIDE DEF a
  <2>7. /\ DOMAIN viewer' = {"open", "inbox", "ask", "shows", "resume"} /\ viewer'.open = TRUE
        /\ viewer'.shows = viewer.shows /\ viewer'.inbox = c
    BY <1>1, <2>1
  <2>8. ViewerOK(viewer', session)
    BY <1>1, <2>4, <2>6, <2>7 DEF ViewerOK, Tells
  <2> QED BY <1>1, <1>2, <2>8 DEF RoomInv
<1>5. CASE RoomResumes
  <2> DEFINE f == SnapshotFrame(session, viewer.ask)
             c == Append(viewer.inbox, f)
  <2>1. viewer.open /\ viewer' = [viewer EXCEPT !.inbox = c, !.ask = NoAsk]
    BY <1>5 DEF RoomResumes
  <2>2. /\ GoodNews(f) /\ f.t = "snapshot" /\ f.run = session.run /\ f.status = session.status
        /\ f.counted = session.counted
    BY <1>1, RoomSpeaks
  <2> HIDE DEF f
  <2> DEFINE a == ApplyLiveFrame(x, f)
  <2>3. Mail(c)
    BY <1>1, <2>2, MailGrows
  <2>4. Seen(viewer.shows, c) = a
    BY <1>1, <2>2, SeenMore
  <2> HIDE DEF c, x
  <2>5. a.run = session.run /\ a.status = session.status /\ a.totals = session.counted
    BY <1>3, <2>2, ViewAfter
  <2> HIDE DEF a
  <2>6. /\ DOMAIN viewer' = {"open", "inbox", "ask", "shows", "resume"} /\ viewer'.open = viewer.open
        /\ viewer'.shows = viewer.shows /\ viewer'.inbox = c
    BY <1>1, <2>1
  <2>7. ViewerOK(viewer', session)
    BY <1>1, <2>3, <2>4, <2>5, <2>6 DEF ViewerOK, Tells
  <2> QED BY <1>1, <1>2, <2>7 DEF RoomInv
<1>6. CASE ViewerFlushes
  <2> DEFINE resume == ResumeAfter(viewer.resume, x)
  <2>1. viewer' = [viewer EXCEPT !.inbox = << >>, !.shows = x, !.resume = resume]
    BY <1>6 DEF ViewerFlushes
  <2> HIDE DEF x, resume
  <2>2. /\ DOMAIN viewer' = {"open", "inbox", "ask", "shows", "resume"} /\ viewer'.open = viewer.open
        /\ viewer'.shows = x /\ viewer'.inbox = << >>
    BY <1>1, <2>1
  <2>3. Seen(x, << >>) = x
    BY SeenNothing
  <2>4. viewer.open => Tells(session, x)
    BY <1>1 DEF x
  <2>5. ViewerOK(viewer', session)
    BY <1>1, <1>3, <2>2, <2>3, <2>4, MailEmpty DEF ViewerOK
  <2> QED BY <1>1, <1>2, <2>5 DEF RoomInv
<1>7. CASE ViewerLost
  <2>1. PICK n \in {0, Len(viewer.inbox)} : viewer' = Cut(viewer, n)
    BY <1>7 DEF ViewerLost
  <2>2. ViewerOK(viewer', session)
    BY <1>1, <2>1, CutIsOK
  <2> QED BY <1>1, <1>2, <2>2 DEF RoomInv
<1> QED BY <1>4, <1>5, <1>6, <1>7 DEF ViewerNext

\* So does every step.
LEMMA RoomStep == WriterInv /\ RoomInv /\ [Next]_vars => RoomInv'
<1> SUFFICES ASSUME WriterInv, RoomInv, [Next]_vars PROVE RoomInv'
  OBVIOUS
<1>1. GoodSession(session) /\ ViewerOK(viewer, session)
  BY DEF RoomInv
<1>2. ASSUME UNCHANGED <<session, viewer>> PROVE RoomInv'
  BY <1>1, <1>2 DEF RoomInv
<1>3. RunnerNext => UNCHANGED <<session, viewer>>
  <2>1. Launch \/ Settle \/ PushStats \/ EndSession \/ Crash => UNCHANGED <<session, viewer>>
    BY DEF Launch, Settle, PushStats, EndSession, Crash
  <2>2. ASSUME NEW k, Window(k) PROVE UNCHANGED <<session, viewer>>
    BY <2>2 DEF Window
  <2>3. ASSUME NEW k, Trade(k) PROVE UNCHANGED <<session, viewer>>
    BY <2>3 DEF Trade
  <2> QED BY <2>1, <2>2, <2>3 DEF RunnerNext
<1>4. WindowElapses \/ Receive \/ FlushDue \/ Heartbeat \/ WriterEnds => UNCHANGED <<session, viewer>>
  BY DEF WindowElapses, Receive, FlushDue, Heartbeat, WriterEnds
<1>5. CASE Answered
  <2>1. flight.batch # << >> /\ Handle(Ingest(session, flight.batch))
    BY <1>5 DEF Answered
  <2> QED BY <2>1, DeliveredIsBatch, Handled
<1>6. CASE Failed
  <2>1. flight.batch # << >> /\ (Handle(Ingest(session, flight.batch)) \/ UNCHANGED <<session, viewer>>)
    BY <1>6 DEF Failed
  <2> QED BY <1>2, <2>1, DeliveredIsBatch, Handled
<1>7. ASSUME NEW request \in late, Straggler(request) PROVE RoomInv'
  <2>1. Handle(Ingest(session, request.batch))
    BY <1>7 DEF Straggler
  <2> QED BY <2>1, DeliveredIsBatch, Handled
<1>8. CASE AlarmFires
  <2> DEFINE d == MarkStaleIfExpired(session)
  <2>1. session' = d /\ viewer' = IF d # session THEN Broadcast(viewer, <<TotalsFrame(d)>>) ELSE viewer
    BY <1>8 DEF AlarmFires
  <2>2. GoodSession(d) /\ d.run = session.run
    BY <1>1, MarkedIs
  <2> HIDE DEF d
  <2>3. ViewerOK(Broadcast(viewer, <<TotalsFrame(d)>>), d)
    BY <1>1, <2>2, ToldOne
  <2> QED BY <1>1, <2>1, <2>2, <2>3 DEF RoomInv
<1>9. CASE RoomRestarts
  <2>1. session' = Fresh /\ \E n \in {0, Len(viewer.inbox)} : viewer' = Cut(viewer, n)
    BY <1>9 DEF RoomRestarts
  <2>2. ViewerOK(viewer', Fresh)
    BY <1>1, <2>1, CutIsOK
  <2> QED BY <2>1, <2>2, FreshIsGood DEF RoomInv
<1>10. CASE Tick
  <2> DEFINE age == IF session.status = "live" /\ session.age < StaleAfter THEN session.age + 1 ELSE session.age
  <2>1. session' = [session EXCEPT !.age = age] /\ viewer' = viewer
    BY <1>10 DEF Tick
  <2>2. DOMAIN session = SessionFields /\ session.run \in Nat /\ session.status \in Statuses
        /\ session.age \in Nat /\ session.cursor \in Int
    BY <1>1 DEF GoodSession
  <2>3. age \in Nat
    BY <2>2
  <2> HIDE DEF age
  <2>4. /\ DOMAIN session' = SessionFields /\ session'.run = session.run /\ session'.age = age
        /\ session'.status = session.status /\ session'.counted = session.counted
        /\ session'.cursor = session.cursor /\ session'.ring = session.ring
    BY <2>1, <2>2 DEF SessionFields
  <2>5. session.cursor <= session'.cursor
    BY <2>2, <2>4
  <2>6. GoodSession(session')
    BY <1>1, <2>2, <2>3, <2>4, <2>5, SessionOf
  <2>7. ViewerOK(viewer', session')
    BY <1>1, <2>1, <2>4 DEF ViewerOK, Tells
  <2> QED BY <2>6, <2>7 DEF RoomInv
<1>11. ViewerNext => RoomInv'
  BY ViewerSteps
<1>12. UNCHANGED vars => UNCHANGED <<session, viewer>>
  BY DEF vars
<1> QED BY <1>2, <1>3, <1>4, <1>5, <1>6, <1>7, <1>8, <1>9, <1>10, <1>11, <1>12 DEF Next, WriterNext, RoomNext

\* The writer, the room and the viewer are always as they should be: every
\* frame on its way is one of the runner's, the session ends what it ends with,
\* and a viewer that will have read its mail shows the session (spawn_writer,
\* PositionSession, applyLiveFrame).
THEOREM StreamSound == Spec => [](WriterInv /\ RoomInv)
<1>1. Init => WriterInv /\ RoomInv
  BY WriterInit, RoomInit
<1>2. WriterInv /\ RoomInv /\ [Next]_vars => (WriterInv /\ RoomInv)'
  BY WriterStep, RoomStep
<1> QED BY <1>1, <1>2, PTL DEF Spec

\* However often a batch is retried, answered in vain or handled late, the room
\* counts a row once and in order (PositionSession.apply, pushRing).
THEOREM OnceCounted == Spec => []CountedOnce
<1>1. RoomInv => CountedOnce
  BY DEF RoomInv, GoodSession, GoodRows, CountedOnce
<1> QED BY <1>1, StreamSound, PTL

\* Snapshots, relayed rows and resume replays never put a row on screen twice
\* or out of order (applyLiveFrame).
THEOREM NoRowTwice == Spec => []NoRowTwiceOnScreen
<1>1. RoomInv => NoRowTwiceOnScreen
  BY DEF RoomInv, ViewerOK, GoodView, GoodRows, NoRowTwiceOnScreen
<1> QED BY <1>1, StreamSound, PTL

\* A connected viewer that has applied what it was sent shows the room's run,
\* status and totals (handleIngest, alarm, handleViewer, applyLiveFrame).
THEOREM ViewersAgree == Spec => []ViewerAgrees
<1>1. RoomInv => ViewerAgrees
  <2> SUFFICES ASSUME RoomInv, viewer.open, viewer.inbox = << >>
               PROVE  Tells(session, viewer.shows)
    BY DEF ViewerAgrees, Tells
  <2>1. Tells(session, Seen(viewer.shows, viewer.inbox))
    BY DEF RoomInv, ViewerOK
  <2>2. Seen(viewer.shows, << >>) = viewer.shows
    BY SeenNothing
  <2> QED BY <2>1, <2>2
<1> QED BY <1>1, StreamSound, PTL

(***************************************************************************)
(* Heartbeats                                                              *)
(***************************************************************************)

\* The session of a production runner that runs, with no delivery failed yet.
Heard == faults = 0 /\ Running /\ Runner = "prod" /\ session.run = runner.run

\* Such a session is live, and since its last activity at most one tick went
\* by: then the writer is about to beat, or has something to send.
BeatInv ==
    /\ faults = 0 => late = {} /\ session.run <= runner.run
    /\ Heard => /\ session.status = "live" /\ session.age <= 1 /\ flight.attempt <= 1
                /\ \/ session.age = 0 \/ writer.quiet = 1
                   \/ flight.batch # << >> \/ writer.buf # << >>

\* A step that leaves the room alone and does not open the session keeps this
\* when the writer keeps what it is about to do.
LEMMA StillHeard ==
    ASSUME BeatInv, late' = late, faults' = faults, session' = session,
           runner'.run = runner.run, runner'.pc = "running" => Running,
           Heard' => /\ flight'.attempt <= 1
                     /\ \/ session.age = 0 \/ writer'.quiet = 1
                        \/ flight'.batch # << >> \/ writer'.buf # << >>
    PROVE  BeatInv'
<1>1. Runner' = Runner
  BY DEF Runner
<1>2. Heard' => Heard
  BY <1>1 DEF Heard, Running
<1> QED BY <1>1, <1>2 DEF BeatInv

\* A fault ends what is claimed.
LEMMA Faulted ==
    ASSUME WriterInv, faults' = faults + 1
    PROVE  BeatInv'
<1>1. faults \in Nat
  BY DEF WriterInv
<1>2. faults' # 0
  BY <1>1
<1> QED BY <1>2 DEF BeatInv, Heard

\* The steps of the runner.
LEMMA RunnerBeats ==
    ASSUME WriterInv, RoomInv, BeatInv, RunnerNext
    PROVE  BeatInv'
<1>1. /\ DOMAIN runner = {"pc", "run", "seq", "window"} /\ DOMAIN writer = WriterFields
      /\ runner.run \in Nat /\ session.run \in Nat
  BY LineFacts DEF WriterInv, WriterOK, RunnerOK, RoomInv, GoodSession
<1>2. CASE Launch
  <2>1. /\ runner' = [pc |-> "running", run |-> runner.run + 1, seq |-> 0, window |-> 0]
        /\ UNCHANGED <<late, session, faults>>
    BY <1>2 DEF Launch
  <2>2. runner'.run = runner.run + 1
    BY <2>1
  <2>3. faults = 0 => session.run <= runner.run + 1 /\ session.run # runner.run + 1
    BY <1>1 DEF BeatInv
  <2> QED BY <2>1, <2>2, <2>3 DEF BeatInv, Heard
<1>3. ASSUME NEW frames, Send(frames), UNCHANGED <<flight, late, session, faults>>,
             runner'.run = runner.run, Running
      PROVE  BeatInv'
  <2>1. writer'.buf = writer.buf /\ writer'.quiet = writer.quiet
    BY <1>1, <1>3 DEF Send, WriterFields
  <2>2. Runner' = Runner
    BY <1>3 DEF Runner
  <2>3. Heard' => Heard
    BY <1>3, <2>2 DEF Heard, Running
  <2> QED BY <1>3, <2>1, <2>3, StillHeard DEF BeatInv
<1>4. ASSUME NEW k \in 0 .. MaxRows, Window(k) \/ Trade(k) PROVE BeatInv'
  <2>1. CASE Window(k)
    <3>1. /\ Running /\ UNCHANGED <<flight, late, session, faults>> /\ \E frames : Send(frames)
          /\ runner' = [runner EXCEPT !.seq = runner.seq + k, !.window = runner.window + 1]
      BY <2>1 DEF Window
    <3>2. runner'.run = runner.run
      BY <1>1, <3>1
    <3> QED BY <1>3, <3>1, <3>2
  <2>2. CASE Trade(k)
    <3>1. /\ Running /\ UNCHANGED <<flight, late, session, faults>> /\ \E frames : Send(frames)
          /\ runner' = [runner EXCEPT !.seq = runner.seq + k + 1]
      BY <2>2 DEF Trade
    <3>2. runner'.run = runner.run
      BY <1>1, <3>1
    <3> QED BY <1>3, <3>1, <3>2
  <2> QED BY <1>4, <2>1, <2>2
<1>5. CASE Settle \/ PushStats
  <2>1. /\ Running /\ UNCHANGED <<flight, late, session, faults>> /\ \E frames : Send(frames)
        /\ runner' = [runner EXCEPT !.window = runner.window + 1]
    BY <1>5 DEF Settle, PushStats
  <2>2. runner'.run = runner.run
    BY <1>1, <2>1
  <2> QED BY <1>3, <2>1, <2>2
<1>6. CASE EndSession
  <2>1. runner' = [runner EXCEPT !.pc = "ending"] /\ UNCHANGED <<late, session, faults>>
    BY <1>6 DEF EndSession
  <2>2. runner'.run = runner.run /\ runner'.pc = "ending"
    BY <1>1, <2>1
  <2>3. ~Heard'
    BY <2>2 DEF Heard, Running
  <2> QED BY <2>1, <2>2, <2>3, StillHeard
<1>7. CASE Crash
  BY <1>7, Faulted DEF Crash
<1> QED BY <1>2, <1>4, <1>5, <1>6, <1>7 DEF RunnerNext

\* A request answered.
LEMMA AnsweredBeats ==
    ASSUME WriterInv, RoomInv, BeatInv, Answered
    PROVE  BeatInv'
<1> DEFINE batch == flight.batch
           done == Ingest(session, batch)
<1>1. /\ batch # << >> /\ batch \in Batches /\ GoodSession(session) /\ done = Ingest(session, batch)
      /\ UNCHANGED <<runner, late, faults>>
  BY DeliveredIsBatch DEF Answered, RoomInv
<1> HIDE DEF done, batch
<1>2. /\ done.ok \in BOOLEAN /\ done.started \in BOOLEAN
      /\ ~done.ok => done.s = session /\ session.status = "ended"
      /\ done.ok => done.s.age = 0
      /\ done.ok /\ ~Has(batch, "session-end") => done.s.status = "live"
      /\ done.ok /\ ~done.started => done.s.run = session.run
      /\ done.ok /\ done.started =>
            \E i \in 1 .. Len(batch) : batch[i].t = "session-start" /\ done.s.run = batch[i].run
  BY <1>1, AnswerFacts
<1>3. /\ session' = done.s
      /\ done.ok => flight' = NoFlight
      /\ ~done.ok => Retry /\ UNCHANGED writer
  BY DEF Answered, Handle, done, batch
<1>4. Runner' = Runner /\ Running' = Running
  BY <1>1 DEF Runner, Running
<1>5. runner.run \in Nat /\ session.run \in Nat /\ batch \in Seq(OwnFrames(runner.run, runner.seq))
  BY LineFacts DEF RoomInv, GoodSession, batch
<1>6. CASE done.ok
  <2>1. done.s.run = session.run \/ done.s.run = runner.run
    <3>1. \A i \in 1 .. Len(batch) : batch[i].t = "session-start" => batch[i].run = runner.run
      BY <1>5, ElementOfSeq DEF OwnFrames
    <3> QED BY <1>2, <1>6, <3>1
  <2>2. faults' = 0 => late' = {} /\ session'.run <= runner'.run
    BY <1>1, <1>3, <1>5, <2>1 DEF BeatInv
  <2>3. Running => done.s.status = "live"
    BY <1>2, <1>6 DEF WriterInv, WriterOK, Running, batch
  <2>4. session'.age = 0 /\ flight'.attempt = 0 /\ 0 <= 1
    BY <1>2, <1>3, <1>6 DEF NoFlight
  <2> QED BY <1>1, <1>3, <1>4, <2>2, <2>3, <2>4 DEF BeatInv, Heard
<1>7. CASE ~done.ok
  <2>1. session' = session /\ session.status = "ended"
    BY <1>2, <1>3, <1>7
  <2>2. ~Heard
    BY <2>1 DEF BeatInv
  <2>3. ~Heard'
    BY <1>1, <1>4, <2>1, <2>2 DEF Heard
  <2> QED BY <1>1, <2>1, <2>3 DEF BeatInv
<1> QED BY <1>2, <1>6, <1>7

\* The other steps of the writer.
LEMMA WriterBeats ==
    ASSUME WriterInv, RoomInv, BeatInv, WriterNext
    PROVE  BeatInv'
<1>1. /\ DOMAIN runner = {"pc", "run", "seq", "window"} /\ DOMAIN writer = WriterFields
  BY DEF WriterInv, WriterOK, RunnerOK
<1>2. CASE WindowElapses
  <2>1. writer' = [writer EXCEPT !.oldest = "due"] /\ UNCHANGED <<runner, flight, late, session, faults>>
    BY <1>2 DEF WindowElapses
  <2>2. writer'.buf = writer.buf /\ writer'.quiet = writer.quiet
    BY <1>1, <2>1 DEF WriterFields
  <2>3. Heard' => Heard
    BY <2>1 DEF Heard, Running, Runner
  <2> QED BY <2>1, <2>2, <2>3, StillHeard DEF BeatInv, Running
<1>3. CASE Receive
  <2>1. /\ flight'.attempt \in {1, flight.attempt} /\ (flight'.batch # << >> \/ writer'.buf # << >>)
        /\ UNCHANGED <<runner, late, session, faults>>
    BY <1>3, Receives DEF Receive
  <2>2. Heard' => Heard
    BY <2>1 DEF Heard, Running, Runner
  <2>3. Heard' => flight'.attempt <= 1
    BY <2>1, <2>2 DEF BeatInv
  <2> QED BY <2>1, <2>3, StillHeard DEF Running
<1>4. CASE FlushDue
  <2>1. flight'.attempt = 1 /\ flight'.batch # << >> /\ UNCHANGED <<runner, late, session, faults>> /\ 1 <= 1
    BY <1>4, Flushes DEF FlushDue
  <2> QED BY <2>1, StillHeard DEF Running
<1>5. CASE Heartbeat
  <2>1. flight'.attempt = 1 /\ flight'.batch = <<[t |-> "heartbeat"]>> /\ UNCHANGED <<runner, late, session, faults>>
    BY <1>5, Beats DEF Heartbeat
  <2>2. <<[t |-> "heartbeat"]>> # << >> /\ 1 <= 1
    OBVIOUS
  <2> QED BY <2>1, <2>2, StillHeard DEF Running
<1>6. CASE WriterEnds
  <2>1. runner' = [runner EXCEPT !.pc = "down"] /\ UNCHANGED <<late, session, faults>>
    BY <1>6 DEF WriterEnds
  <2>2. runner'.run = runner.run /\ runner'.pc = "down"
    BY <1>1, <2>1
  <2>3. ~Heard'
    BY <2>2 DEF Heard, Running
  <2> QED BY <2>1, <2>2, <2>3, StillHeard
<1>7. CASE Failed
  BY <1>7, Faulted DEF Failed
<1> QED BY <1>2, <1>3, <1>4, <1>5, <1>6, <1>7, AnsweredBeats DEF WriterNext

\* The steps of the room.
LEMMA RoomBeats ==
    ASSUME WriterInv, RoomInv, BeatInv, RoomNext
    PROVE  BeatInv'
<1>1. ASSUME NEW request \in late, Straggler(request) PROVE BeatInv'
  <2>1. faults' = faults /\ faults # 0
    BY <1>1 DEF Straggler, BeatInv
  <2> QED BY <2>1 DEF BeatInv, Heard
<1>2. CASE AlarmFires
  <2> DEFINE d == MarkStaleIfExpired(session)
  <2>1. session' = d /\ UNCHANGED <<runner, writer, flight, late, faults>>
    BY <1>2 DEF AlarmFires
  <2>2. GoodSession(session) /\ session.age \in Nat
    BY DEF RoomInv, GoodSession
  <2>3. d.run = session.run /\ (d = session \/ Expired(session))
    BY <2>2, MarkedIs
  <2> HIDE DEF d
  <2>4. Heard' => Heard
    BY <2>1, <2>3 DEF Heard, Running, Runner
  <2>5. Heard => ~Expired(session)
    <3>1. StaleAfter \in Nat /\ StaleAfter > 1
      BY StreamAssumption
    <3>2. Heard => session.age <= 1
      BY DEF BeatInv
    <3> QED BY <2>2, <3>1, <3>2 DEF Expired
  <2>6. Heard' => session' = session
    BY <2>1, <2>3, <2>4, <2>5
  <2> QED BY <2>1, <2>3, <2>4, <2>6 DEF BeatInv
<1>3. CASE RoomRestarts
  BY <1>3, Faulted DEF RoomRestarts
<1> QED BY <1>1, <1>2, <1>3 DEF RoomNext

\* Time, and the steps of the viewer.
LEMMA TimeBeats ==
    ASSUME WriterInv, RoomInv, BeatInv, ViewerNext \/ Tick
    PROVE  BeatInv'
<1>1. CASE ViewerConnects \/ RoomResumes \/ ViewerFlushes
  <2>1. UNCHANGED <<runner, writer, flight, late, session, faults>>
    BY <1>1 DEF ViewerConnects, RoomResumes, ViewerFlushes
  <2> QED BY <2>1 DEF BeatInv, Heard, Running, Runner
<1>2. CASE ViewerLost
  BY <1>2, Faulted DEF ViewerLost
<1>3. CASE Tick
  <2> DEFINE age == IF session.status = "live" /\ session.age < StaleAfter THEN session.age + 1 ELSE session.age
  <2>1. /\ NothingDue /\ session' = [session EXCEPT !.age = age]
        /\ writer' = [writer EXCEPT !.quiet = IF runner.pc = "down" THEN @ ELSE 1]
        /\ UNCHANGED <<runner, flight, late, faults>>
    BY <1>3 DEF Tick
  <2>2. DOMAIN writer = WriterFields /\ DOMAIN session = SessionFields /\ session.age \in Nat
        /\ writer.quiet \in 0 .. 1 /\ flight.attempt \in Nat
    BY DEF WriterInv, WriterOK, RoomInv, GoodSession
  <2>3. age = session.age \/ age = session.age + 1
    OBVIOUS
  <2> HIDE DEF age
  <2>4. /\ session'.run = session.run /\ session'.status = session.status /\ session'.age = age
        /\ writer'.quiet = IF runner.pc = "down" THEN writer.quiet ELSE 1
    BY <2>1, <2>2 DEF SessionFields, WriterFields
  <2>5. Heard' => Heard
    BY <2>1, <2>4 DEF Heard, Running, Runner
  <2>6. Heard => session.age = 0
    <3> HAVE Heard
    <3>1. runner.pc = "running" /\ Runner = "prod" /\ flight.attempt <= 1
      BY DEF Heard, Running, BeatInv
    <3>2. Ready /\ writer.buf = << >> /\ ~BeatDue
      BY <2>1, <2>2, <3>1 DEF NothingDue
    <3>3. flight.batch = << >> /\ writer.quiet # 1
      BY <2>2, <3>1, <3>2 DEF Ready, BeatDue
    <3> QED BY <3>2, <3>3 DEF BeatInv
  <2>7. Heard' => session'.age <= 1 /\ writer'.quiet = 1
    BY <2>2, <2>3, <2>4, <2>5, <2>6 DEF Heard, Running
  <2> QED BY <2>1, <2>4, <2>5, <2>7 DEF BeatInv
<1> QED BY <1>1, <1>2, <1>3 DEF ViewerNext

\* While deliveries succeed and the runner runs, its session is not called
\* stale (spawn_writer, markStaleIfExpired).
THEOREM HeartbeatsBridge == Spec => []NeverFalselyStale
<1>1. Init => BeatInv
  <2> SUFFICES ASSUME Init PROVE BeatInv
    OBVIOUS
  <2>1. runner.pc = "down" /\ runner.run = 0 /\ session.run = 0 /\ late = {}
    BY FreshIsGood DEF Init, NoRun
  <2> QED BY <2>1 DEF BeatInv, Heard, Running
<1>2. WriterInv /\ RoomInv /\ BeatInv /\ [Next]_vars => BeatInv'
  <2> SUFFICES ASSUME WriterInv, RoomInv, BeatInv, [Next]_vars PROVE BeatInv'
    OBVIOUS
  <2>1. CASE UNCHANGED vars
    BY <2>1 DEF vars, BeatInv, Heard, Running, Runner
  <2> QED BY <2>1, RunnerBeats, WriterBeats, RoomBeats, TimeBeats DEF Next
<1>3. WriterInv /\ BeatInv => NeverFalselyStale
  <2> SUFFICES ASSUME WriterInv, BeatInv, Runner = "prod", session.run = runner.run,
                      session.status = "stale", ~(faults > 0), Running
               PROVE  FALSE
    BY DEF NeverFalselyStale
  <2>1. faults \in Nat
    BY DEF WriterInv
  <2>2. faults = 0
    BY <2>1
  <2>3. Heard
    BY <2>2 DEF Heard
  <2> QED BY <2>3 DEF BeatInv
<1> QED BY <1>1, <1>2, <1>3, StreamSound, PTL DEF Spec

(***************************************************************************)
(* Gaps                                                                    *)
(***************************************************************************)

\* A frame may be read before another: what it counts up to is below the rows
\* of the other, and no session opens after it, unless it is a heartbeat.
Precedes(f, g) ==
    \/ f.t = "heartbeat"
    \/ g.t # "session-start" /\ \A m \in Marks(f), row \in RowsIn(g) : m < row.seq

Before(a, b) == \A f \in Entries(a), g \in Entries(b) : Precedes(f, g)
Ordered(a) == \A i, j \in 1 .. Len(a) : i < j => Precedes(a[i], a[j])

\* Two sequences in order, one before the other, are in order together.
LEMMA OrderedJoined ==
    ASSUME NEW S, NEW a \in Seq(S), NEW b \in Seq(S)
    PROVE  Ordered(a \o b) <=> Ordered(a) /\ Ordered(b) /\ Before(a, b)
<1> DEFINE p == Len(a)
           q == Len(b)
           c == a \o b
<1>1. /\ p \in Nat /\ q \in Nat /\ Len(c) = p + q
      /\ \A i \in 1 .. p + q : c[i] = IF i <= p THEN a[i] ELSE b[i - p]
  BY LenProperties, ConcatProperties
<1>2. /\ \A i \in 1 .. p : i \in 1 .. p + q /\ c[i] = a[i]
      /\ \A j \in 1 .. q : p + j \in 1 .. p + q /\ c[p + j] = b[j]
  <2>1. \A i \in 1 .. p : i \in 1 .. p + q /\ c[i] = a[i]
    BY <1>1
  <2>2. ASSUME NEW j \in 1 .. q PROVE p + j \in 1 .. p + q /\ c[p + j] = b[j]
    <3>1. p + j \in 1 .. p + q /\ ~(p + j <= p) /\ (p + j) - p = j
      BY <1>1
    <3> HIDE DEF p, q, c
    <3> QED BY <1>1, <3>1
  <2> QED BY <2>1, <2>2
<1>3. \A i \in 1 .. p + q : i \in 1 .. p \/ \E j \in 1 .. q : i = p + j
  <2> SUFFICES ASSUME NEW i \in 1 .. p + q, i \notin 1 .. p PROVE \E j \in 1 .. q : i = p + j
    OBVIOUS
  <2>1. i - p \in 1 .. q /\ i = p + (i - p)
    BY <1>1
  <2> QED BY <2>1
<1>4. /\ Ordered(c) <=> \A i, j \in 1 .. p + q : i < j => Precedes(c[i], c[j])
      /\ Ordered(a) <=> \A i, j \in 1 .. p : i < j => Precedes(a[i], a[j])
      /\ Ordered(b) <=> \A i, j \in 1 .. q : i < j => Precedes(b[i], b[j])
      /\ Before(a, b) <=> \A i \in 1 .. p, j \in 1 .. q : Precedes(a[i], b[j])
  BY <1>1 DEF Ordered, Before, Entries
<1> HIDE DEF p, q, c
<1>5. ASSUME Ordered(c) PROVE Ordered(a) /\ Ordered(b) /\ Before(a, b)
  <2>1. Ordered(a)
    BY <1>2, <1>4, <1>5
  <2>2. Ordered(b)
    <3> SUFFICES ASSUME NEW i \in 1 .. q, NEW j \in 1 .. q, i < j PROVE Precedes(b[i], b[j])
      BY <1>4
    <3>1. p + i < p + j
      BY <1>1
    <3> QED BY <1>2, <1>4, <1>5, <3>1
  <2>3. Before(a, b)
    <3> SUFFICES ASSUME NEW i \in 1 .. p, NEW j \in 1 .. q PROVE Precedes(a[i], b[j])
      BY <1>4
    <3>1. i < p + j
      BY <1>1
    <3> QED BY <1>2, <1>4, <1>5, <3>1
  <2> QED BY <2>1, <2>2, <2>3
<1>6. ASSUME Ordered(a), Ordered(b), Before(a, b) PROVE Ordered(c)
  <2> SUFFICES ASSUME NEW i \in 1 .. p + q, NEW j \in 1 .. p + q, i < j PROVE Precedes(c[i], c[j])
    BY <1>4
  <2>1. CASE i \in 1 .. p /\ j \in 1 .. p
    BY <1>2, <1>4, <1>6, <2>1
  <2>2. ASSUME i \in 1 .. p, NEW l \in 1 .. q, j = p + l PROVE Precedes(c[i], c[j])
    BY <1>2, <1>4, <1>6, <2>2
  <2>3. ASSUME NEW k \in 1 .. q, i = p + k, NEW l \in 1 .. q, j = p + l PROVE Precedes(c[i], c[j])
    <3>1. k < l
      BY <1>1, <2>3
    <3> QED BY <1>2, <1>4, <1>6, <2>3, <3>1
  <2>4. ASSUME NEW k \in 1 .. q, i = p + k, j \in 1 .. p PROVE FALSE
    BY <1>1, <2>4
  <2> QED BY <1>3, <2>1, <2>2, <2>3, <2>4
<1> QED BY <1>5, <1>6 DEF c

\* Short sequences, and what has nothing to precede.
LEMMA OrderOfFew ==
    /\ Ordered(<< >>) /\ (\A f : Ordered(<<f>>))
    /\ \A f, g : Precedes(f, g) => Ordered(<<f, g>>)
    /\ \A a : Before(a, << >>) /\ Before(<< >>, a)
    /\ \A f, g : RowsIn(g) = {} /\ g.t # "session-start" => Precedes(f, g)
<1>1. Ordered(<< >>)
  BY EmptySeq DEF Ordered
<1>2. ASSUME NEW f PROVE Ordered(<<f>>)
  <2>1. Len(<<f>>) = 1 /\ \A i, j \in 1 .. 1 : ~(i < j)
    OBVIOUS
  <2> QED BY <2>1 DEF Ordered
<1>3. ASSUME NEW f, NEW g, Precedes(f, g) PROVE Ordered(<<f, g>>)
  <2> DEFINE b == <<f, g>>
  <2>1. Len(b) = 2 /\ b[1] = f /\ b[2] = g /\ \A i, j \in 1 .. 2 : i < j => i = 1 /\ j = 2
    OBVIOUS
  <2> HIDE DEF b
  <2>2. Ordered(b)
    BY <1>3, <2>1 DEF Ordered
  <2> QED BY <2>2 DEF b
<1>4. \A a : Before(a, << >>) /\ Before(<< >>, a)
  BY EntriesOfFew DEF Before
<1>5. \A f, g : RowsIn(g) = {} /\ g.t # "session-start" => Precedes(f, g)
  BY DEF Precedes
<1> QED BY <1>1, <1>2, <1>3, <1>4, <1>5

\* Only heartbeats come before a session's start.
LEMMA BeforeStart ==
    ASSUME NEW a, NEW b, Before(a, b), Has(b, "session-start")
    PROVE  RowsOf(a) = {} /\ ~Has(a, "session-start") /\ \A f \in Entries(a) : Marks(f) = {}
<1>1. PICK g \in Entries(b) : g.t = "session-start"
  BY ByMembers
<1>2. \A f \in Entries(a) : f.t = "heartbeat"
  BY <1>1 DEF Before, Precedes
<1>3. \A f \in Entries(a) : RowsIn(f) = {} /\ Marks(f) = {}
  BY <1>2, MarksAre DEF RowsIn
<1>4. ~Has(a, "session-start")
  BY <1>2, ByMembers
<1>5. RowsOf(a) = {}
  <2> SUFFICES ASSUME NEW row \in RowsOf(a) PROVE FALSE
    OBVIOUS
  <2>1. \E f \in Entries(a) : row \in RowsIn(f)
    BY ByMembers
  <2> QED BY <1>3, <2>1
<1> QED BY <1>3, <1>4, <1>5

\* What the first n lines of a request did to the session: every row beyond the
\* number it started from is counted, and the cursor goes no further than they do.
Tallied(s, batch, n, acc) ==
    LET base == IF acc.started THEN -1 ELSE s.cursor
    IN  /\ base <= acc.s.cursor
        /\ acc.s.cursor = base \/ \E i \in 1 .. n : acc.s.cursor \in Marks(batch[i])
        /\ \A i \in 1 .. n : \A row \in RowsIn(batch[i]) :
              base < row.seq => row \in Entries(acc.s.counted)
        /\ ~acc.started => Entries(s.counted) \subseteq Entries(acc.s.counted)

\* A frame counts the rows it carries beyond the cursor.
LEMMA FrameCounts ==
    ASSUME NEW s, GoodSession(s), NEW f \in GoodFrames, f.t # "session-start",
           NEW a, GoodSession(a), Effect(s, f, a)
    PROVE  /\ Entries(s.counted) \subseteq Entries(a.counted) /\ s.cursor <= a.cursor
           /\ a.cursor = s.cursor \/ a.cursor \in Marks(f)
           /\ \A row \in RowsIn(f) : s.cursor < row.seq => row \in Entries(a.counted)
<1>1. /\ s.cursor \in Int /\ a.cursor \in Int /\ s.counted \in GoodRows
      /\ f.t = "positions" => f.items \in GoodRows
      /\ f.t = "stats" => f.cursor \in Nat
  BY FrameFacts DEF GoodSession
<1>2. CASE f.t = "positions"
  <2> DEFINE fresh == FreshRows(f.items, s.cursor)
  <2>1. FreshUpTo(f.items, s.cursor, Len(f.items), fresh)
    BY <1>1, <1>2, FreshRowsAre
  <2>2. a.counted = s.counted \o fresh.rows /\ a.cursor = fresh.next
    BY <1>2 DEF Effect
  <2> HIDE DEF fresh
  <2>3. /\ fresh.rows \in GoodRows /\ s.cursor <= fresh.next
        /\ fresh.next = s.cursor \/ \E i \in 1 .. Len(f.items) : fresh.next = f.items[i].seq
        /\ \A i \in 1 .. Len(f.items) : s.cursor < f.items[i].seq => f.items[i] \in Entries(fresh.rows)
    BY <2>1 DEF FreshUpTo
  <2>4. Entries(a.counted) = Entries(s.counted) \cup Entries(fresh.rows)
    BY <1>1, <2>2, <2>3, EntriesJoined DEF GoodRows
  <2>5. RowsIn(f) = Entries(f.items) /\ Marks(f) = {row.seq : row \in Entries(f.items)}
    BY <1>2, MarksAre DEF RowsIn
  <2>6. a.cursor = s.cursor \/ a.cursor \in Marks(f)
    BY <2>2, <2>3, <2>5 DEF Entries
  <2>7. \A row \in RowsIn(f) : s.cursor < row.seq => row \in Entries(a.counted)
    <3> SUFFICES ASSUME NEW row \in RowsIn(f), s.cursor < row.seq PROVE row \in Entries(fresh.rows)
      BY <2>4
    <3>1. PICK i \in 1 .. Len(f.items) : row = f.items[i]
      BY <2>5 DEF Entries
    <3> QED BY <2>3, <3>1
  <2> QED BY <2>2, <2>3, <2>4, <2>6, <2>7
<1>3. CASE f.t # "positions"
  <2>1. RowsIn(f) = {} /\ a.counted = s.counted
    BY <1>3 DEF RowsIn, Effect
  <2>2. s.cursor <= a.cursor /\ (a.cursor = s.cursor \/ a.cursor \in Marks(f))
    <3>1. CASE f.t = "stats"
      <4>1. a.cursor = Larger(s.cursor, f.cursor) /\ Marks(f) = {f.cursor}
        BY <3>1, MarksAre DEF Effect
      <4> QED BY <1>1, <3>1, <4>1 DEF Larger
    <3>2. CASE f.t # "stats"
      <4>1. a.cursor = s.cursor
        BY <1>3, <3>2 DEF Effect
      <4> QED BY <1>1, <4>1
    <3> QED BY <3>1, <3>2
  <2> QED BY <2>1, <2>2
<1> QED BY <1>2, <1>3

\* A further line counts its rows too.
LEMMA LineTallies ==
    ASSUME NEW s, GoodSession(s), NEW batch \in Batches, Ordered(batch),
           NEW n \in 0 .. Len(batch) - 1, NEW acc, Read(s, batch, n, acc), Tallied(s, batch, n, acc),
           NEW next, next = IngestLine(acc, batch[n + 1]), next.ok
    PROVE  Tallied(s, batch, n + 1, next)
<1> DEFINE f == batch[n + 1]
           a == Applied(acc.s, f)
           base == IF acc.started THEN -1 ELSE s.cursor
<1>1. batch \in Seq(GoodFrames) /\ Len(batch) \in Nat /\ n \in Nat
  BY LenProperties DEF Batches
<1>2. /\ n + 1 \in 1 .. Len(batch) /\ n + 1 \in 1 .. n + 1
      /\ \A i \in 1 .. n : i \in 1 .. n + 1 /\ i \in 1 .. Len(batch) /\ i < n + 1
      /\ \A i \in 1 .. n + 1 : i \in 1 .. n \/ i = n + 1
  BY <1>1
<1>3. f \in GoodFrames /\ \A i \in 1 .. n : Precedes(batch[i], f)
  BY <1>1, <1>2, ElementOfSeq DEF Ordered
<1>4. /\ DOMAIN acc = AnswerFields /\ acc.ok \in BOOLEAN /\ acc.started \in BOOLEAN /\ GoodSession(acc.s)
  BY DEF Read
<1>5. acc.ok /\ next = [ok |-> TRUE, s |-> a, started |-> acc.started \/ f.t = "session-start",
                        relay |-> IF f.t = "positions" THEN <<f>> ELSE acc.relay]
  <2>1. CASE ~acc.ok \/ (acc.s.status = "ended" /\ f.t # "session-start")
    <3>1. next = [acc EXCEPT !.ok = FALSE]
      BY <2>1 DEF IngestLine
    <3>2. next.ok = FALSE
      BY <1>4, <3>1 DEF AnswerFields
    <3> QED BY <3>2
  <2>2. CASE acc.ok /\ ~(acc.s.status = "ended" /\ f.t # "session-start")
    BY <2>2 DEF IngestLine
  <2> QED BY <1>4, <2>1, <2>2
<1>6. GoodSession(a) /\ Effect(acc.s, f, a)
  BY <1>3, <1>4, AppliedIs
<1> HIDE DEF a
<1>7. next.s = a /\ next.started = (acc.started \/ f.t = "session-start")
  BY <1>5
<1>8. /\ base <= acc.s.cursor
      /\ acc.s.cursor = base \/ \E i \in 1 .. n : acc.s.cursor \in Marks(batch[i])
      /\ \A i \in 1 .. n : \A row \in RowsIn(batch[i]) :
            base < row.seq => row \in Entries(acc.s.counted)
      /\ ~acc.started => Entries(s.counted) \subseteq Entries(acc.s.counted)
  BY DEF Tallied
<1>9. s.cursor \in Int /\ acc.s.cursor \in Int /\ a.cursor \in Int /\ base \in Int
  BY <1>4, <1>6 DEF GoodSession
<1> HIDE DEF f, base
<1>10. CASE f.t = "session-start"
  <2>1. a.cursor = -1 /\ next.started = TRUE
    BY <1>6, <1>7, <1>10 DEF Effect
  <2>2. \A i \in 1 .. n : RowsIn(batch[i]) = {}
    <3>1. \A i \in 1 .. n : batch[i].t = "heartbeat"
      BY <1>3, <1>10 DEF Precedes
    <3> QED BY <3>1 DEF RowsIn
  <2>3. RowsIn(f) = {}
    BY <1>10 DEF RowsIn
  <2>4. \A i \in 1 .. n + 1 : RowsIn(batch[i]) = {}
    BY <1>2, <2>2, <2>3 DEF f
  <2>5. -1 <= a.cursor
    BY <2>1
  <2> QED BY <1>7, <2>1, <2>4, <2>5 DEF Tallied
<1>11. CASE f.t # "session-start"
  <2>1. next.started = acc.started
    BY <1>4, <1>7, <1>11
  <2>2. /\ Entries(acc.s.counted) \subseteq Entries(a.counted) /\ acc.s.cursor <= a.cursor
        /\ a.cursor = acc.s.cursor \/ a.cursor \in Marks(f)
        /\ \A row \in RowsIn(f) : acc.s.cursor < row.seq => row \in Entries(a.counted)
    BY <1>3, <1>4, <1>6, <1>11, FrameCounts
  <2>3. base <= a.cursor
    BY <1>8, <1>9, <2>2
  <2>4. a.cursor = base \/ \E i \in 1 .. n + 1 : a.cursor \in Marks(batch[i])
    <3>1. CASE a.cursor \in Marks(f)
      BY <1>2, <3>1 DEF f
    <3>2. CASE a.cursor = acc.s.cursor
      BY <1>2, <1>8, <3>2
    <3> QED BY <2>2, <3>1, <3>2
  <2>5. ASSUME NEW i \in 1 .. n + 1, NEW row \in RowsIn(batch[i]), base < row.seq
        PROVE  row \in Entries(a.counted)
    <3>1. CASE i \in 1 .. n
      BY <1>8, <2>2, <2>5, <3>1
    <3>2. CASE i = n + 1
      <4>1. row \in RowsIn(f) /\ f.t # "heartbeat"
        BY <2>5, <3>2 DEF f, RowsIn
      <4>2. acc.s.cursor < row.seq
        <5>1. CASE acc.s.cursor = base
          BY <2>5, <5>1
        <5>2. CASE \E j \in 1 .. n : acc.s.cursor \in Marks(batch[j])
          <6>1. PICK j \in 1 .. n : acc.s.cursor \in Marks(batch[j])
            BY <5>2
          <6>2. batch[j].t # "heartbeat"
            BY <6>1, MarksAre
          <6> QED BY <1>3, <4>1, <6>1, <6>2 DEF Precedes
        <5> QED BY <1>8, <5>1, <5>2
      <4> QED BY <2>2, <4>1, <4>2
    <3> QED BY <1>2, <2>5, <3>1, <3>2
  <2>6. ~acc.started => Entries(s.counted) \subseteq Entries(a.counted)
    BY <1>8, <2>2
  <2> QED BY <1>7, <2>1, <2>3, <2>4, <2>5, <2>6 DEF Tallied, base
<1> QED BY <1>10, <1>11

\* From session s to d, a batch of rows and statistics was read.
Advances(s, d, b) ==
    /\ Entries(s.counted) \subseteq Entries(d.counted) /\ s.cursor <= d.cursor
    /\ d.cursor = s.cursor \/ \E f \in Entries(b) : d.cursor \in Marks(f)
    /\ \A row \in RowsOf(b) : s.cursor < row.seq => row \in Entries(d.counted)

\* A batch opened the session d.
Opens(d, b) ==
    /\ d.cursor = -1 \/ \E f \in Entries(b) : d.cursor \in Marks(f)
    /\ RowsOf(b) \subseteq Entries(d.counted)

\* A request in order that is accepted advances its session or opens one.
LEMMA IngestCounts ==
    ASSUME NEW s, GoodSession(s), NEW batch \in Batches, batch # << >>, Ordered(batch),
           NEW done, done = Ingest(s, batch)
    PROVE  /\ GoodSession(done.s) /\ done.ok \in BOOLEAN
           /\ ~done.ok => done.s = s
           /\ done.ok /\ ~Has(batch, "session-start") => Advances(s, done.s, batch)
           /\ done.ok /\ Has(batch, "session-start") => Opens(done.s, batch)
<1>1. Len(batch) \in Nat /\ batch \in Seq(GoodFrames)
  BY LenProperties DEF Batches
<1>2. PICK g : IngestSteps(s, batch, g) /\ Ingest(s, batch) = g[Len(batch)]
  BY <1>1, IngestUnfolds
<1> DEFINE T == {n \in 0 .. Len(batch) : Read(s, batch, n, g[n]) /\ (g[n].ok => Tallied(s, batch, n, g[n]))}
<1>3. 0 \in T
  <2>1. 0 \in 0 .. Len(batch) /\ 1 .. 0 = {} /\ ~(0 > 0)
    BY <1>1
  <2>2. g[0] = Unread(s)
    BY <1>2, <2>1 DEF IngestSteps
  <2> DEFINE acc == Unread(s)
  <2>3. /\ DOMAIN acc = AnswerFields /\ acc.ok = TRUE /\ acc.started = FALSE /\ acc.s = s
        /\ acc.relay = << >>
    BY DEF Unread, AnswerFields
  <2> HIDE DEF acc
  <2>4. Read(s, batch, 0, acc)
    BY <2>1, <2>3 DEF Read
  <2>5. s.cursor <= s.cursor
    BY DEF GoodSession
  <2>6. Tallied(s, batch, 0, acc)
    BY <2>1, <2>3, <2>5 DEF Tallied
  <2> QED BY <2>1, <2>2, <2>4, <2>6 DEF acc
<1>4. ASSUME NEW n \in 0 .. Len(batch) - 1, n \in T PROVE n + 1 \in T
  <2>1. n + 1 \in 0 .. Len(batch) /\ n + 1 # 0 /\ (n + 1) - 1 = n
    BY <1>1
  <2>2. g[n + 1] = IngestLine(g[n], batch[n + 1])
    BY <1>2, <2>1 DEF IngestSteps
  <2>3. Read(s, batch, n + 1, IngestLine(g[n], batch[n + 1]))
    BY <1>4, LineReads
  <2>4. g[n + 1].ok => g[n].ok
    <3>1. DOMAIN g[n] = AnswerFields
      BY <1>4 DEF Read
    <3>2. ~g[n].ok => g[n + 1] = [g[n] EXCEPT !.ok = FALSE]
      BY <2>2 DEF IngestLine
    <3> QED BY <3>1, <3>2 DEF AnswerFields
  <2>5. g[n + 1].ok => Tallied(s, batch, n + 1, g[n + 1])
    BY <1>4, <2>2, <2>4, LineTallies
  <2> QED BY <2>1, <2>2, <2>3, <2>5
<1>5. Len(batch) \in T
  <2> HIDE DEF T
  <2>1. \A n \in 0 .. Len(batch) : n \in T
    BY <1>1, <1>3, <1>4, CountUp
  <2> QED BY <1>1, <2>1
<1>6. done.ok => Tallied(s, batch, Len(batch), done)
  BY <1>2, <1>5
<1>7. /\ done.ok \in BOOLEAN /\ done.started \in BOOLEAN /\ GoodSession(done.s)
      /\ ~done.ok => done.s = s
      /\ done.ok => (done.started <=> Has(batch, "session-start"))
  BY AnswerFacts
<1>8. \A row : row \in RowsOf(batch) => \E i \in 1 .. Len(batch) : row \in RowsIn(batch[i])
  BY ByMembers DEF Entries
<1>9. \A i \in 1 .. Len(batch) : batch[i] \in Entries(batch)
  BY DEF Entries
<1>10. ASSUME done.ok, ~Has(batch, "session-start") PROVE Advances(s, done.s, batch)
  <2>1. done.started = FALSE
    BY <1>7, <1>10
  <2> QED BY <1>6, <1>8, <1>9, <1>10, <2>1 DEF Tallied, Advances
<1>11. ASSUME done.ok, Has(batch, "session-start") PROVE Opens(done.s, batch)
  <2>1. done.started = TRUE
    BY <1>7, <1>11
  <2>2. \A row \in RowsOf(batch) : -1 < row.seq
    <3> SUFFICES ASSUME NEW row \in RowsOf(batch) PROVE -1 < row.seq
      OBVIOUS
    <3>1. PICK i \in 1 .. Len(batch) : row \in RowsIn(batch[i])
      BY <1>8
    <3>2. row.seq \in Nat
      BY <1>1, <3>1, ElementOfSeq, MarksAreNumbers DEF Rows
    <3> QED BY <3>2
  <2> QED BY <1>6, <1>8, <1>9, <1>11, <2>1, <2>2 DEF Tallied, Opens
<1> QED BY <1>7, <1>10, <1>11

\* The run's rows are all on their way to a session that is yet to open, or
\* they are counted, on their way or excused, and those the cursor passed are
\* no longer on their way.
Awaited(own, counted, line, excused, cursor) ==
    IF Has(line, "session-start") THEN own \subseteq RowsOf(line)
    ELSE /\ own \subseteq counted \cup RowsOf(line) \cup excused
         /\ \A row \in own : row.seq <= cursor => row \in counted \cup excused

\* Requests of this run that may still arrive repeat what is being delivered,
\* or come before it.
LateInOrder(requests, run, batch, queue) ==
    \A request \in requests :
        request.run = run =>
            /\ Ordered(request.batch) /\ Before(request.batch, queue)
            /\ request.batch = batch \/ Before(request.batch, batch)

OwnSent == {row \in ghost.sent : row.run = runner.run}
Excused == ghost.dropped \cup ghost.wiped

GapOK ==
    /\ Ordered(Line) /\ LateInOrder(late, runner.run, flight.batch, Queue)
    /\ Running /\ ~Has(Line, "session-start") => session.cursor <= runner.seq
    /\ Awaited(OwnSent, Counted, Line, Excused, session.cursor)

GapInv == Runner = "prod" /\ ~ghost.astray => GapOK

\* What comes before a row is numbered below it.
LEMMA BeforeMarks ==
    ASSUME NEW a, NEW b, Before(a, b), NEW row \in RowsOf(b)
    PROVE  \A f \in Entries(a) : \A m \in Marks(f) : m < row.seq
<1>1. PICK g \in Entries(b) : row \in RowsIn(g)
  BY ByMembers
<1> SUFFICES ASSUME NEW f \in Entries(a), NEW m \in Marks(f) PROVE m < row.seq
  OBVIOUS
<1>2. f.t # "heartbeat"
  BY MarksAre
<1> QED BY <1>1, <1>2 DEF Before, Precedes

\* The line in two parts.
LEMMA LineParts ==
    ASSUME WriterInv
    PROVE  /\ RowsOf(Line) = RowsOf(flight.batch) \cup RowsOf(Queue)
           /\ Entries(Line) = Entries(flight.batch) \cup Entries(Queue)
           /\ \A k : Has(Line, k) <=> Has(flight.batch, k) \/ Has(Queue, k)
           /\ Ordered(Line) <=> Ordered(flight.batch) /\ Ordered(Queue) /\ Before(flight.batch, Queue)
<1> DEFINE S == OwnFrames(runner.run, runner.seq)
           b == flight.batch
<1>1. b \in Seq(S) /\ Queue \in Seq(S)
  BY LineFacts
<1>2. Line = b \o Queue
  BY DEF Line
<1> HIDE DEF S, b
<1>3. RowsOf(Line) = RowsOf(b) \cup RowsOf(Queue)
  BY <1>1, <1>2, ToldJoined
<1>4. Entries(Line) = Entries(b) \cup Entries(Queue)
  BY <1>1, <1>2, EntriesJoined
<1>5. Ordered(Line) <=> Ordered(b) /\ Ordered(Queue) /\ Before(b, Queue)
  BY <1>1, <1>2, OrderedJoined
<1>6. \A p, q \in Seq(S) : \A k : Has(p \o q, k) <=> Has(p, k) \/ Has(q, k)
  BY HasJoined
<1>7. \A k : Has(b \o Queue, k) <=> Has(b, k) \/ Has(Queue, k)
  BY <1>1, <1>6
<1>8. \A k : Has(Line, k) <=> Has(b, k) \/ Has(Queue, k)
  BY <1>2, <1>7
<1> QED BY <1>3, <1>4, <1>5, <1>8 DEF b

\* A session that advances keeps its rows accounted for.
LEMMA StillAwaited ==
    ASSUME NEW own, own \subseteq Rows, NEW s, NEW d, s.cursor \in Int, d.cursor \in Int,
           NEW b, Advances(s, d, b), NEW line, NEW excused,
           Awaited(own, Entries(s.counted), line, excused, s.cursor),
           \A row \in RowsOf(line) :
              row \in RowsOf(b) \/ \A f \in Entries(b) : \A m \in Marks(f) : m < row.seq
    PROVE  /\ Awaited(own, Entries(d.counted), line, excused, d.cursor)
           /\ ~Has(line, "session-start") =>
                 \A row \in own : row \in RowsOf(b) => row \in Entries(d.counted) \cup excused
<1>1. CASE Has(line, "session-start")
  BY <1>1 DEF Awaited
<1>2. CASE ~Has(line, "session-start")
  <2>1. /\ own \subseteq Entries(s.counted) \cup RowsOf(line) \cup excused
        /\ \A row \in own : row.seq <= s.cursor => row \in Entries(s.counted) \cup excused
    BY <1>2 DEF Awaited
  <2>2. /\ Entries(s.counted) \subseteq Entries(d.counted)
        /\ d.cursor = s.cursor \/ \E f \in Entries(b) : d.cursor \in Marks(f)
        /\ \A row \in RowsOf(b) : s.cursor < row.seq => row \in Entries(d.counted)
    BY DEF Advances
  <2>3. ASSUME NEW row \in own PROVE row.seq \in Int /\ (row.seq <= s.cursor \/ s.cursor < row.seq)
    <3>1. row.seq \in Int
      BY <2>3 DEF Rows
    <3> QED BY <3>1
  <2>4. \A row \in own : row \in RowsOf(b) => row \in Entries(d.counted) \cup excused
    BY <2>1, <2>2, <2>3
  <2>5. ASSUME NEW row \in own, row.seq <= d.cursor PROVE row \in Entries(d.counted) \cup excused
    <3>1. CASE d.cursor = s.cursor
      BY <2>1, <2>2, <2>5, <3>1
    <3>2. CASE \E f \in Entries(b) : d.cursor \in Marks(f)
      <4>1. PICK f \in Entries(b) : d.cursor \in Marks(f)
        BY <3>2
      <4>2. ~(d.cursor < row.seq)
        BY <2>3, <2>5
      <4>3. row \in RowsOf(line) => row \in RowsOf(b)
        BY <4>1, <4>2
      <4> QED BY <2>1, <2>2, <2>4, <4>3
    <3> QED BY <2>2, <3>1, <3>2
  <2>6. own \subseteq Entries(d.counted) \cup RowsOf(line) \cup excused
    BY <2>1, <2>2
  <2> QED BY <1>2, <2>4, <2>5, <2>6 DEF Awaited
<1> QED BY <1>1, <1>2

\* What is taken off the line stays accounted for when it is counted or excused.
LEMMA RestAwaited ==
    ASSUME NEW own, NEW counted, NEW line, NEW excused, NEW cursor, NEW b, NEW queue, NEW more,
           Awaited(own, counted, line, excused, cursor),
           excused \subseteq more, RowsOf(line) = RowsOf(b) \cup RowsOf(queue),
           Has(line, "session-start") <=> Has(queue, "session-start"),
           Has(queue, "session-start") => RowsOf(b) = {},
           ~Has(line, "session-start") =>
              \A row \in own : row \in RowsOf(b) => row \in counted \cup more
    PROVE  Awaited(own, counted, queue, more, cursor)
<1>1. CASE Has(queue, "session-start")
  BY <1>1 DEF Awaited
<1>2. CASE ~Has(queue, "session-start")
  <2>1. /\ own \subseteq counted \cup RowsOf(line) \cup excused
        /\ \A row \in own : row.seq <= cursor => row \in counted \cup excused
    BY <1>2 DEF Awaited
  <2>2. own \subseteq counted \cup RowsOf(queue) \cup more
    BY <1>2, <2>1
  <2> QED BY <1>2, <2>1, <2>2 DEF Awaited
<1> QED BY <1>1, <1>2

\* A session that opens accounts for what is behind its start.
LEMMA OpenAwaited ==
    ASSUME NEW own, own \subseteq Rows, NEW d, d.cursor \in Int, NEW b, Opens(d, b), NEW queue, NEW excused,
           own \subseteq RowsOf(b) \cup RowsOf(queue), ~Has(queue, "session-start"), Before(b, queue)
    PROVE  Awaited(own, Entries(d.counted), queue, excused, d.cursor)
<1>1. /\ d.cursor = -1 \/ \E f \in Entries(b) : d.cursor \in Marks(f)
      /\ RowsOf(b) \subseteq Entries(d.counted)
  BY DEF Opens
<1>2. ASSUME NEW row \in own, row.seq <= d.cursor PROVE row \in Entries(d.counted)
  <2>1. row.seq \in Nat
    BY <1>2 DEF Rows
  <2>2. d.cursor # -1 /\ ~(d.cursor < row.seq)
    BY <1>2, <2>1
  <2>3. row \notin RowsOf(queue)
    BY <1>1, <2>2, BeforeMarks
  <2> QED BY <1>1, <2>3
<1> QED BY <1>1, <1>2 DEF Awaited

\* A session left as it is advances by nothing.
LEMMA AdvanceNone ==
    ASSUME NEW s, GoodSession(s), NEW d, d.counted = s.counted, d.cursor = s.cursor
    PROVE  Advances(s, d, << >>)
<1>1. s.cursor <= d.cursor
  BY DEF GoodSession
<1>2. \A row : row \notin RowsOf(<< >>)
  BY ByMembers, EntriesOfFew
<1> QED BY <1>1, <1>2 DEF Advances

\* A request of the run that is handled keeps what is on the line accounted for.
LEMMA MoveGaps ==
    ASSUME WriterInv, RoomInv, RoomInv', GapOK, NEW b, Advances(session, session', b),
           Entries(b) \subseteq OwnFrames(runner.run, runner.seq),
           \A row \in RowsOf(Line) :
              row \in RowsOf(b) \/ \A f \in Entries(b) : \A m \in Marks(f) : m < row.seq
    PROVE  /\ Awaited(OwnSent, Counted', Line, Excused, session'.cursor)
           /\ ~Has(Line, "session-start") =>
                 \A row \in OwnSent : row \in RowsOf(b) => row \in Counted' \cup Excused
           /\ Running /\ ~Has(Line, "session-start") => session'.cursor <= runner.seq
<1>1. session.cursor \in Int /\ session'.cursor \in Int
  BY DEF RoomInv, GoodSession
<1>2. OwnSent \subseteq Rows
  BY DEF OwnSent, WriterInv, GhostOK
<1>3. Awaited(OwnSent, Entries(session.counted), Line, Excused, session.cursor)
  BY DEF GapOK, Counted, Entries
<1>4. /\ Awaited(OwnSent, Entries(session'.counted), Line, Excused, session'.cursor)
      /\ ~Has(Line, "session-start") =>
            \A row \in OwnSent : row \in RowsOf(b) => row \in Entries(session'.counted) \cup Excused
  BY <1>1, <1>2, <1>3, StillAwaited
<1>5. Counted' = Entries(session'.counted)
  BY DEF Counted, Entries
<1>6. ASSUME Running, ~Has(Line, "session-start") PROVE session'.cursor <= runner.seq
  <2>1. session.cursor <= runner.seq
    BY <1>6 DEF GapOK
  <2>2. session'.cursor = session.cursor \/ \E f \in Entries(b) : session'.cursor \in Marks(f)
    BY DEF Advances
  <2> QED BY <2>1, <2>2 DEF OwnFrames
<1> QED BY <1>4, <1>5, <1>6

\* The line in two parts, as one formula for the state after a step.
LineTold ==
    /\ RowsOf(Line) = RowsOf(flight.batch) \cup RowsOf(Queue)
    /\ Entries(Line) = Entries(flight.batch) \cup Entries(Queue)
    /\ \A k : Has(Line, k) <=> Has(flight.batch, k) \/ Has(Queue, k)
    /\ Ordered(Line) <=> Ordered(flight.batch) /\ Ordered(Queue) /\ Before(flight.batch, Queue)

\* It holds of every state the writer is as it should be in.
LEMMA LineTells == WriterInv => LineTold
BY LineParts DEF LineTold

\* So it is after every step.
LEMMA LineToldThen ==
    ASSUME WriterInv' PROVE LineTold'
BY LineTells, PTL

\* A step that neither moves a frame nor touches the room's rows.
LEMMA CalmGaps ==
    ASSUME GapInv, runner'.run = runner.run, runner'.seq = runner.seq,
           runner'.pc = "running" => runner.pc = "running",
           Line' = Line, Queue' = Queue, flight'.batch = flight.batch, late' = late, ghost' = ghost,
           session'.counted = session.counted, session'.cursor = session.cursor
    PROVE  GapInv'
<1>1. Runner' = Runner /\ OwnSent' = OwnSent /\ Excused' = Excused /\ Counted' = Counted
  BY DEF Runner, OwnSent, Excused, Counted
<1>2. GapOK => GapOK'
  BY <1>1 DEF GapOK, Running
<1> QED BY <1>1, <1>2 DEF GapInv

\* A step of the runner that sends frames keeps the rows accounted for: new rows
\* are numbered beyond everything sent.
SendGap(frames) ==
    /\ SendStep(frames) /\ Ordered(frames) /\ session' = session
    /\ \A g \in Entries(frames) :
          g.t # "session-start" /\ \A row \in RowsIn(g) : runner.seq < row.seq
    /\ OwnSent' = OwnSent \cup RowsOf(frames) /\ Excused' = Excused /\ ghost'.astray = ghost.astray

\* Such a step keeps the rows accounted for.
LEMMA SendGaps ==
    ASSUME RoomInv, GapInv, NEW frames, SendGap(frames)
    PROVE  GapInv'
<1>1. /\ WriterInv /\ Running /\ runner'.run = runner.run /\ runner.seq <= runner'.seq
      /\ runner.seq \in Nat /\ runner'.seq \in Nat
      /\ frames \in Seq(OwnFrames(runner'.run, runner'.seq)) /\ UNCHANGED <<flight, late>>
  BY DEF SendGap, SendStep, WriterInv, RunnerOK
<1>2. WriterInv' /\ Queue' = Queue \o frames
  BY Sends DEF SendGap, Queue
<1>3. /\ Ordered(frames) /\ session' = session
      /\ \A g \in Entries(frames) :
            g.t # "session-start" /\ \A row \in RowsIn(g) : runner.seq < row.seq
      /\ OwnSent' = OwnSent \cup RowsOf(frames) /\ Excused' = Excused /\ ghost'.astray = ghost.astray
  BY DEF SendGap
<1>4. Runner' = Runner /\ Counted' = Counted
  BY <1>1, <1>3 DEF Runner, Counted
<1> DEFINE S == OwnFrames(runner'.run, runner'.seq)
<1>5. Line \in Seq(S) /\ Queue \in Seq(S) /\ flight.batch \in Seq(S) /\ frames \in Seq(S)
  BY <1>1, LineFacts, OwnGrows
<1>6. \A row \in RowsOf(frames) : runner.seq < row.seq
  BY <1>3, ByMembers
<1>7. ASSUME NEW a, \A f \in Entries(a) : \A m \in Marks(f) : m \in Nat /\ m <= runner.seq
      PROVE  Before(a, frames)
  <2> SUFFICES ASSUME NEW f \in Entries(a), NEW g \in Entries(frames) PROVE Precedes(f, g)
    BY DEF Before
  <2>1. g.t # "session-start"
    BY <1>3
  <2>2. ASSUME NEW m \in Marks(f), NEW row \in RowsIn(g) PROVE m < row.seq
    <3>1. m \in Nat /\ m <= runner.seq /\ runner.seq < row.seq
      BY <1>3, <1>7
    <3>2. row.seq \in Nat
      <4>1. g \in GoodFrames
        BY <1>1, ElementOfSeq DEF Entries, OwnFrames
      <4> QED BY <4>1, MarksAreNumbers DEF Rows
    <3> QED BY <1>1, <3>1, <3>2
  <2> QED BY <2>1, <2>2 DEF Precedes
<1>8. ASSUME NEW a \in Seq(OwnFrames(runner.run, runner.seq)) PROVE Before(a, frames)
  <2>1. \A f \in Entries(a) : f \in GoodFrames /\ \A m \in Marks(f) : m <= runner.seq
    BY ElementOfSeq DEF Entries, OwnFrames
  <2>2. \A f \in Entries(a) : \A m \in Marks(f) : m \in Nat
    BY <2>1, MarksAreNumbers
  <2> QED BY <1>7, <2>1, <2>2
<1>9. ~Has(frames, "session-start")
  BY <1>3, ByMembers
<1> HIDE DEF S
<1>10. Line' = Line \o frames
  <2>1. \A p, q, t \in Seq(S) : p \o (q \o t) = (p \o q) \o t
    BY JoinsAssociate
  <2>2. Line' = flight.batch \o (Queue \o frames)
    BY <1>1, <1>2 DEF Line
  <2>3. flight.batch \o (Queue \o frames) = (flight.batch \o Queue) \o frames
    BY <1>5, <2>1
  <2> QED BY <2>2, <2>3 DEF Line
<1>11. RowsOf(Line') = RowsOf(Line) \cup RowsOf(frames)
  BY <1>5, <1>10, ToldJoined
<1>12. Has(Line', "session-start") <=> Has(Line, "session-start")
  <2>1. \A p, q \in Seq(S) : \A k : Has(p \o q, k) <=> Has(p, k) \/ Has(q, k)
    BY HasJoined
  <2>2. \A k : Has(Line \o frames, k) <=> Has(Line, k) \/ Has(frames, k)
    BY <1>5, <2>1
  <2> QED BY <1>9, <1>10, <2>2
<1>13. ASSUME Runner = "prod", GapOK PROVE GapOK'
  <2>1. Ordered(Line')
    <3>1. Before(Line, frames)
      BY <1>1, <1>8, LineFacts
    <3> QED BY <1>3, <1>5, <1>10, <1>13, <3>1, OrderedJoined DEF GapOK
  <2>2. LateInOrder(late, runner.run, flight.batch, Queue')
    <3> SUFFICES ASSUME NEW request \in late, request.run = runner.run
                 PROVE  /\ Ordered(request.batch) /\ Before(request.batch, Queue')
                        /\ request.batch = flight.batch \/ Before(request.batch, flight.batch)
      BY DEF LateInOrder
    <3>1. /\ Ordered(request.batch) /\ Before(request.batch, Queue)
          /\ request.batch = flight.batch \/ Before(request.batch, flight.batch)
      BY <1>13 DEF GapOK, LateInOrder
    <3>2. request.batch \in Seq(OwnFrames(runner.run, runner.seq))
      BY <1>1 DEF WriterInv, LateOK, RequestOK
    <3>3. Before(request.batch, frames)
      BY <1>8, <3>2
    <3>4. Entries(Queue') = Entries(Queue) \cup Entries(frames)
      BY <1>2, <1>5, EntriesJoined
    <3> QED BY <3>1, <3>3, <3>4 DEF Before
  <2>3. session.cursor \in Int
    BY DEF RoomInv, GoodSession
  <2>4. Running' /\ ~Has(Line', "session-start") => session'.cursor <= runner'.seq
    BY <1>1, <1>3, <1>12, <1>13, <2>3 DEF GapOK
  <2>5. Awaited(OwnSent', Counted, Line', Excused, session.cursor)
    <3>1. Awaited(OwnSent, Counted, Line, Excused, session.cursor)
      BY <1>13 DEF GapOK
    <3>2. CASE Has(Line, "session-start")
      BY <1>3, <1>11, <1>12, <3>1, <3>2 DEF Awaited
    <3>3. CASE ~Has(Line, "session-start")
      <4>1. session.cursor <= runner.seq
        BY <1>1, <1>13, <3>3 DEF GapOK
      <4>2. \A row \in RowsOf(frames) : ~(row.seq <= session.cursor)
        <5> SUFFICES ASSUME NEW row \in RowsOf(frames) PROVE ~(row.seq <= session.cursor)
          OBVIOUS
        <5>1. runner.seq < row.seq
          BY <1>6
        <5>2. row.seq \in Nat
          <6>1. PICK g \in Entries(frames) : row \in RowsIn(g)
            BY ByMembers
          <6>2. g \in GoodFrames
            BY <1>1, ElementOfSeq DEF Entries, OwnFrames
          <6> QED BY <6>1, <6>2, MarksAreNumbers DEF Rows
        <5> QED BY <1>1, <2>3, <4>1, <5>1, <5>2
      <4> QED BY <1>3, <1>11, <1>12, <3>1, <3>3, <4>2 DEF Awaited
    <3> QED BY <3>2, <3>3
  <2>6. LateInOrder(late, runner.run, flight.batch, Queue)' /\ Awaited(OwnSent, Counted, Line, Excused, session.cursor)'
    BY <1>1, <1>3, <1>4, <2>2, <2>5
  <2> QED BY <2>1, <2>4, <2>6 DEF GapOK
<1> QED BY <1>3, <1>4, <1>13 DEF GapInv

\* Frames that carry no rows and open no session are in order.
LEMMA RowlessOrdered ==
    ASSUME NEW b, \A f \in Entries(b) : f.t \notin {"positions", "session-start"}
    PROVE  Ordered(b) /\ RowsOf(b) = {}
<1>1. \A f \in Entries(b) : RowsIn(f) = {} /\ f.t # "session-start"
  BY DEF RowsIn
<1>2. \A f, g : g \in Entries(b) => Precedes(f, g)
  BY <1>1, OrderOfFew
<1>3. \A i \in 1 .. Len(b) : b[i] \in Entries(b)
  BY DEF Entries
<1>4. RowsOf(b) = {}
  BY <1>1, ByMembers
<1> QED BY <1>2, <1>3, <1>4 DEF Ordered

\* Such frames leave the rows accounted for.
LEMMA RowlessGaps ==
    ASSUME RoomInv, GapInv, NEW frames, SendStep(frames), UNCHANGED <<session, ghost>>,
           \A f \in Entries(frames) : f.t \notin {"positions", "session-start"}
    PROVE  GapInv'
<1>1. Ordered(frames) /\ RowsOf(frames) = {}
  BY RowlessOrdered
<1>2. \A g \in Entries(frames) : RowsIn(g) = {}
  BY DEF RowsIn
<1>3. runner'.run = runner.run
  BY DEF SendStep
<1>4. OwnSent' = OwnSent /\ Excused' = Excused
  BY <1>3 DEF OwnSent, Excused
<1>5. SendGap(frames)
  BY <1>1, <1>2, <1>4 DEF SendGap
<1> QED BY <1>5, SendGaps

\* The frames of a settlement, of a statistic and of the end carry no rows.
LEMMA OthersGaps ==
    ASSUME WriterInv, RoomInv, GapInv, Settle \/ PushStats \/ EndSession
    PROVE  GapInv'
<1>1. UNCHANGED <<session, ghost>>
  BY DEF Settle, PushStats, EndSession
<1>2. RunnerOK(runner)
  BY DEF WriterInv
<1>3. \A f \in Entries(SettleFrames) : f.t \notin {"positions", "session-start"}
  <2>1. PICK f : f.t = "fills" /\ SettleFrames = <<f>>
    BY <1>2, OthersSend
  <2> QED BY <2>1, EntriesOfFew
<1>4. \A f \in Entries(StatsFrames) : f.t \notin {"positions", "session-start"}
  <2>1. PICK f : f.t = "stats" /\ StatsFrames = <<f>>
    BY <1>2, OthersSend
  <2> QED BY <2>1, EntriesOfFew
<1>5. \A f \in Entries(EndFrames) : f.t \notin {"positions", "session-start"}
  BY <1>2, OthersSend
<1>6. CASE Settle
  <2>1. SendStep(SettleFrames)
    BY <1>6, OwnSends, OwnSendIs
  <2> QED BY <1>1, <1>3, <2>1, RowlessGaps
<1>7. CASE PushStats
  <2>1. SendStep(StatsFrames)
    BY <1>7, OwnSends, OwnSendIs
  <2> QED BY <1>1, <1>4, <2>1, RowlessGaps
<1>8. CASE EndSession
  <2>1. SendStep(EndFrames)
    BY <1>8, EndSends
  <2> QED BY <1>1, <1>5, <2>1, RowlessGaps
<1> QED BY <1>6, <1>7, <1>8

\* The row of a trade is numbered beyond everything sent.
LEMMA TradeGaps ==
    ASSUME WriterInv, RoomInv, GapInv, NEW k \in 0 .. MaxRows, Trade(k)
    PROVE  GapInv'
<1> DEFINE n == runner.seq + k + 1
<1>1. /\ RunnerOK(runner) /\ runner.seq \in Nat /\ k \in Nat
      /\ DOMAIN ghost = {"sent", "dropped", "wiped", "astray"}
  <2>1. MaxRows \in Nat
    BY StreamAssumption
  <2> QED BY <2>1 DEF WriterInv, RunnerOK, GhostOK
<1>2. n \in Nat /\ n > 0 /\ runner.seq < n
  BY <1>1
<1>3. SendStep(TradeFrames(n))
  BY OwnSends, OwnSendIs
<1>4. Runner = "prod" /\ ghost' = [ghost EXCEPT !.sent = @ \cup {Row(n)}] /\ session' = session
  BY DEF Trade
<1> HIDE DEF n
<1>5. PICK bet, fills : /\ TradeFrames(n) = <<bet, fills>> /\ bet.t = "positions" /\ fills.t = "fills"
                        /\ bet.items = <<Row(n)>>
  BY <1>1, <1>2, TradeSends
<1>6. Row(n) \in Rows /\ Row(n).run = runner.run /\ Row(n).seq = n
  <2>1. runner.run \in Nat
    BY LineFacts
  <2> QED BY <1>2, <1>4, <2>1, RowMade
<1>7. RowsIn(bet) = {Row(n)} /\ RowsIn(fills) = {}
  BY <1>5, <1>6, OneRow DEF RowsIn
<1>8. Entries(TradeFrames(n)) = {bet, fills}
  BY <1>5, EntriesOfFew
<1>9. RowsOf(TradeFrames(n)) = {Row(n)}
  <2>1. \A row : row \in RowsOf(TradeFrames(n)) <=> row \in RowsIn(bet) \/ row \in RowsIn(fills)
    BY <1>8, ByMembers
  <2> QED BY <1>7, <2>1
<1>10. Ordered(TradeFrames(n))
  <2>1. Precedes(bet, fills)
    BY <1>5, <1>7, OrderOfFew
  <2>2. Ordered(<<bet, fills>>)
    BY <2>1, OrderOfFew
  <2> QED BY <1>5, <2>2
<1>11. ghost'.sent = ghost.sent \cup {Row(n)} /\ ghost'.dropped = ghost.dropped
       /\ ghost'.wiped = ghost.wiped /\ ghost'.astray = ghost.astray
  BY <1>1, <1>4
<1>12. runner'.run = runner.run
  BY <1>3 DEF SendStep
<1>13. OwnSent' = OwnSent \cup {Row(n)} /\ Excused' = Excused
  BY <1>6, <1>11, <1>12 DEF OwnSent, Excused
<1>14. \A g \in Entries(TradeFrames(n)) :
          g.t # "session-start" /\ \A row \in RowsIn(g) : runner.seq < row.seq
  BY <1>2, <1>5, <1>6, <1>7, <1>8
<1>15. SendGap(TradeFrames(n))
  BY <1>3, <1>4, <1>9, <1>10, <1>11, <1>13, <1>14 DEF SendGap
<1> QED BY <1>15, SendGaps

\* A launch puts a start on the line, and has sent nothing yet.
LEMMA LaunchGaps ==
    ASSUME WriterInv, Launch
    PROVE  GapInv'
<1>1. /\ runner' = [pc |-> "running", run |-> runner.run + 1, seq |-> 0, window |-> 0]
      /\ writer' = [IdleWriter EXCEPT !.chan = <<[t |-> "session-start", run |-> runner.run + 1],
                                                [t |-> "risk", switch |-> "engaged"]>>]
      /\ flight' = NoFlight /\ UNCHANGED <<late, ghost>>
  BY DEF Launch
<1>2. /\ runner.run \in Nat /\ runner'.run = runner.run + 1
      /\ (\A row \in ghost.sent : row \in Rows /\ row.run <= runner.run)
      /\ \A request \in late : request.run \in Nat /\ request.run <= runner.run
  <2>1. runner.run \in Nat
    BY LineFacts
  <2> QED BY <1>1, <2>1 DEF WriterInv, GhostOK, LateOK, RequestOK
<1>3. OwnSent' = {}
  <2>1. \A row \in ghost.sent : row.run # runner'.run
    <3> SUFFICES ASSUME NEW row \in ghost.sent PROVE row.run # runner'.run
      OBVIOUS
    <3>1. row.run \in Nat /\ row.run <= runner.run
      BY <1>2 DEF Rows
    <3> QED BY <1>2, <3>1
  <2> QED BY <1>1, <2>1 DEF OwnSent
<1>4. LateInOrder(late, runner.run, flight.batch, Queue)'
  <2>1. \A request \in late : request.run # runner'.run
    <3> SUFFICES ASSUME NEW request \in late PROVE request.run # runner'.run
      OBVIOUS
    <3>1. request.run \in Nat /\ request.run <= runner.run
      BY <1>2
    <3> QED BY <1>2, <3>1
  <2> QED BY <1>1, <2>1 DEF LateInOrder
<1> DEFINE start == [t |-> "session-start", run |-> runner.run + 1]
           risk == [t |-> "risk", switch |-> "engaged"]
<1>5. start.t = "session-start" /\ risk.t = "risk"
  OBVIOUS
<1>6. writer'.chan = <<start, risk>> /\ writer'.buf = << >> /\ flight'.batch = << >>
  BY <1>1 DEF IdleWriter, NoFlight
<1> HIDE DEF start, risk
<1>7. Line' = <<start, risk>>
  <2> DEFINE S == {start, risk}
             p == <<start, risk>>
  <2>1. p \in Seq(S)
    OBVIOUS
  <2> HIDE DEF S, p
  <2>2. << >> \o p = p
    BY <2>1, ConcatEmptySeq
  <2>3. Line' = << >> \o (<< >> \o p)
    BY <1>6 DEF Line, Queue, p
  <2> QED BY <2>2, <2>3 DEF p
<1>8. Ordered(Line')
  <2>1. Precedes(start, risk)
    <3>1. RowsIn(risk) = {} /\ risk.t # "session-start"
      BY <1>5 DEF RowsIn
    <3> QED BY <3>1, OrderOfFew
  <2>2. Ordered(<<start, risk>>)
    BY <2>1, OrderOfFew
  <2> QED BY <1>7, <2>2
<1>9. Has(Line', "session-start")
  <2>1. start \in Entries(Line')
    BY <1>7, EntriesOfFew
  <2> QED BY <1>5, <2>1, ByMembers
<1> QED BY <1>3, <1>4, <1>8, <1>9 DEF GapInv, GapOK, Awaited

\* What a killed runner takes with it is dropped.
LEMMA CrashGaps ==
    ASSUME WriterInv, RoomInv, GapInv, Crash
    PROVE  GapInv'
<1>1. /\ runner' = [runner EXCEPT !.pc = "down"] /\ session' = session
      /\ ghost' = [ghost EXCEPT !.dropped = @ \cup RowsOf(flight.batch \o writer.buf \o writer.chan)]
      /\ writer' = IdleWriter /\ flight' = NoFlight
  BY DEF Crash
<1>2. \A request \in late' :
          request \in late \/ request.batch = flight.batch
  BY DEF Crash
<1>3. DOMAIN runner = {"pc", "run", "seq", "window"} /\ DOMAIN ghost = {"sent", "dropped", "wiped", "astray"}
  BY DEF WriterInv, RunnerOK, GhostOK
<1>4. /\ runner'.pc = "down" /\ runner'.run = runner.run /\ Runner' = Runner
      /\ ghost'.sent = ghost.sent /\ ghost'.wiped = ghost.wiped /\ ghost'.astray = ghost.astray
      /\ ghost'.dropped = ghost.dropped \cup RowsOf(flight.batch \o writer.buf \o writer.chan)
  BY <1>1, <1>3 DEF Runner
<1>5. flight.batch \o writer.buf \o writer.chan = Line
  <2> DEFINE S == OwnFrames(runner.run, runner.seq)
  <2>1. flight.batch \in Seq(S) /\ writer.buf \in Seq(S) /\ writer.chan \in Seq(S)
    BY LineFacts
  <2> HIDE DEF S
  <2>2. \A p, q, t \in Seq(S) : p \o (q \o t) = (p \o q) \o t
    BY JoinsAssociate
  <2> QED BY <2>1, <2>2 DEF Line, Queue
<1>6. OwnSent' = OwnSent /\ Counted' = Counted /\ Excused' = Excused \cup RowsOf(Line)
  BY <1>1, <1>4, <1>5 DEF OwnSent, Counted, Excused
<1>7. Line' = << >> /\ Queue' = << >> /\ flight'.batch = << >>
  <2>1. writer'.chan = << >> /\ writer'.buf = << >> /\ flight'.batch = << >>
    BY <1>1 DEF IdleWriter, NoFlight
  <2>2. << >> \o << >> = << >>
    BY ConcatEmptySeq, EmptySeq
  <2> QED BY <2>1, <2>2 DEF Line, Queue
<1>8. ASSUME GapOK PROVE GapOK'
  <2>1. Ordered(Line') /\ ~Has(Line', "session-start") /\ ~Running'
    BY <1>4, <1>7, OrderOfFew, EndsLastOfFew DEF Running
  <2>2. LateInOrder(late', runner'.run, << >>, << >>)
    <3> SUFFICES ASSUME NEW request \in late', request.run = runner'.run
                 PROVE  Ordered(request.batch)
      BY OrderOfFew DEF LateInOrder
    <3>1. Ordered(flight.batch)
      BY <1>8, LineParts DEF GapOK
    <3> QED BY <1>2, <1>4, <1>8, <3>1 DEF GapOK, LateInOrder
  <2>3. Awaited(OwnSent', Counted', Line', Excused', session'.cursor)
    <3>1. Awaited(OwnSent, Counted, Line, Excused, session.cursor)
      BY <1>8 DEF GapOK
    <3>2. \A row \in OwnSent : row \in Counted \cup Excused \cup RowsOf(Line)
      BY <3>1 DEF Awaited
    <3> QED BY <1>1, <1>6, <2>1, <3>2 DEF Awaited
  <2> QED BY <1>7, <2>1, <2>2, <2>3 DEF GapOK
<1> QED BY <1>4, <1>8 DEF GapInv

\* The runner's steps keep its rows accounted for.
LEMMA RunnerGaps ==
    ASSUME WriterInv, RoomInv, GapInv, RunnerNext
    PROVE  GapInv'
<1>1. ASSUME NEW k \in 0 .. MaxRows, Window(k) PROVE GapInv'
  <2>1. Runner = "live" /\ runner' = [runner EXCEPT !.seq = @ + k, !.window = @ + 1]
    BY <1>1 DEF Window
  <2>2. DOMAIN runner = {"pc", "run", "seq", "window"}
    BY DEF WriterInv, RunnerOK
  <2>3. runner'.run = runner.run
    BY <2>1, <2>2
  <2> QED BY <2>1, <2>3 DEF GapInv, Runner
<1>2. ASSUME NEW k \in 0 .. MaxRows, Trade(k) PROVE GapInv'
  BY <1>2, TradeGaps
<1> QED BY <1>1, <1>2, LaunchGaps, OthersGaps, CrashGaps DEF RunnerNext

\* A step of the writer that moves the head of its line to the delivery.
LEMMA FlushGaps ==
    ASSUME WriterInv, GapInv, Receive \/ FlushDue
    PROVE  GapInv'
<1>1. /\ flight.batch = << >> /\ UNCHANGED <<runner, late, session, ghost>>
  BY DEF Receive, FlushDue, Ready
<1>2. WriterInv' /\ Line' = Line
  BY Receives, Flushes
<1>3. Runner' = Runner /\ OwnSent' = OwnSent /\ Excused' = Excused /\ Counted' = Counted
  BY <1>1 DEF Runner, OwnSent, Excused, Counted
<1>4. Entries(Line) = Entries(Queue)
  BY <1>1, LineParts, EntriesOfFew
<1>5. Entries(Queue') \subseteq Entries(Queue) /\ Entries(flight'.batch) \subseteq Entries(Queue)
  <2>1. Entries(Line') = Entries(flight'.batch) \cup Entries(Queue')
    BY <1>2, LineToldThen DEF LineTold
  <2> QED BY <1>2, <1>4, <2>1
<1>6. ASSUME GapOK PROVE GapOK'
  <2>1. LateInOrder(late, runner.run, flight'.batch, Queue')
    <3> SUFFICES ASSUME NEW request \in late, request.run = runner.run
                 PROVE  /\ Ordered(request.batch) /\ Before(request.batch, Queue')
                        /\ request.batch = flight'.batch \/ Before(request.batch, flight'.batch)
      BY DEF LateInOrder
    <3>1. Ordered(request.batch) /\ Before(request.batch, Queue)
      BY <1>6 DEF GapOK, LateInOrder
    <3> QED BY <1>5, <3>1 DEF Before
  <2>2. LateInOrder(late, runner.run, flight.batch, Queue)'
    BY <1>1, <2>1
  <2> QED BY <1>1, <1>2, <1>3, <1>6, <2>2 DEF GapOK, Running
<1> QED BY <1>1, <1>3, <1>6 DEF GapInv

\* A heartbeat goes ahead of everything.
LEMMA BeatGaps ==
    ASSUME WriterInv, GapInv, Heartbeat
    PROVE  GapInv'
<1>1. UNCHANGED <<runner, late, session, ghost>>
  BY DEF Heartbeat
<1> DEFINE beat == [t |-> "heartbeat"]
<1>2. /\ WriterInv' /\ flight.batch = << >> /\ Queue' = Queue /\ flight'.batch = <<beat>>
  BY Beats
<1>3. beat.t = "heartbeat"
  OBVIOUS
<1> HIDE DEF beat
<1>4. Runner' = Runner /\ OwnSent' = OwnSent /\ Excused' = Excused /\ Counted' = Counted
  BY <1>1 DEF Runner, OwnSent, Excused, Counted
<1>5. /\ RowsOf(<<beat>>) = {} /\ ~Has(<<beat>>, "session-start") /\ Ordered(<<beat>>)
      /\ RowsOf(<< >>) = {} /\ ~Has(<< >>, "session-start") /\ Ordered(<< >>)
  <2>1. RowsOf(<<beat>>) = RowsIn(beat)
    BY ByOne
  <2>2. RowsIn(beat) = {}
    BY <1>3 DEF RowsIn
  <2>3. ~Has(<<beat>>, "session-start")
    BY <1>3, ByOne
  <2>4. RowsOf(<< >>) = {}
    BY ByMembers, EntriesOfFew
  <2> QED BY <2>1, <2>2, <2>3, <2>4, OrderOfFew, EndsLastOfFew
<1>6. Before(<<beat>>, Queue)
  <2>1. Entries(<<beat>>) = {beat}
    BY EntriesOfFew
  <2> QED BY <1>3, <2>1 DEF Before, Precedes
<1>7. /\ RowsOf(Line) = RowsOf(Queue) /\ (Has(Line, "session-start") <=> Has(Queue, "session-start"))
      /\ (Ordered(Line) => Ordered(Queue))
  BY <1>2, <1>5, LineParts
<1>8. /\ RowsOf(Line') = RowsOf(Queue) /\ (Has(Line', "session-start") <=> Has(Queue, "session-start"))
      /\ (Ordered(Queue) => Ordered(Line'))
  <2>1. LineTold'
    BY <1>2, LineToldThen
  <2>2. /\ RowsOf(Line') = RowsOf(flight'.batch) \cup RowsOf(Queue')
        /\ (Has(Line', "session-start") <=> Has(flight'.batch, "session-start") \/ Has(Queue', "session-start"))
        /\ (Ordered(Line') <=> Ordered(flight'.batch) /\ Ordered(Queue') /\ Before(flight'.batch, Queue'))
    BY <2>1 DEF LineTold
  <2> QED BY <1>2, <1>5, <1>6, <2>2
<1>9. ASSUME GapOK PROVE GapOK'
  <2>1. LateInOrder(late, runner.run, <<beat>>, Queue)
    <3> SUFFICES ASSUME NEW request \in late, request.run = runner.run
                 PROVE  /\ Ordered(request.batch) /\ Before(request.batch, Queue)
                        /\ Before(request.batch, <<beat>>)
      BY DEF LateInOrder
    <3>1. Ordered(request.batch) /\ Before(request.batch, Queue)
      BY <1>9 DEF GapOK, LateInOrder
    <3>2. RowsIn(beat) = {} /\ beat.t # "session-start"
      BY <1>3 DEF RowsIn
    <3>3. Entries(<<beat>>) = {beat}
      BY EntriesOfFew
    <3>4. \A f : Precedes(f, beat)
      BY <3>2, OrderOfFew
    <3> QED BY <3>1, <3>3, <3>4 DEF Before
  <2>2. LateInOrder(late, runner.run, flight.batch, Queue)'
    BY <1>1, <1>2, <2>1
  <2>3. Awaited(OwnSent, Counted, Line', Excused, session.cursor)
    BY <1>7, <1>8, <1>9 DEF GapOK, Awaited
  <2>4. Ordered(Line') /\ (Running' /\ ~Has(Line', "session-start") => session'.cursor <= runner'.seq)
    BY <1>1, <1>7, <1>8, <1>9 DEF GapOK, Running
  <2> QED BY <1>1, <1>4, <2>2, <2>3, <2>4 DEF GapOK
<1> QED BY <1>1, <1>4, <1>9 DEF GapInv

\* What a request may do to the session: nothing, advance it, or open another.
TakenIn(b) ==
    \/ ~Has(b, "session-start") /\ Advances(session, session', b)
    \/ Has(b, "session-start") /\ Opens(session', b)
Moved(b) ==
    \/ session'.counted = session.counted /\ session'.cursor = session.cursor
    \/ TakenIn(b)

\* That is what handling one does.
LEMMA Moves ==
    ASSUME RoomInv, NEW b \in Batches, b # << >>, Ordered(b), Handle(Ingest(session, b))
    PROVE  Moved(b) /\ (Ingest(session, b).ok => TakenIn(b))
<1> DEFINE done == Ingest(session, b)
<1>1. GoodSession(session) /\ session' = done.s
  BY DEF RoomInv, Handle
<1>2. done = Ingest(session, b)
  OBVIOUS
<1> HIDE DEF done
<1>3. /\ done.ok \in BOOLEAN /\ (~done.ok => done.s = session)
      /\ (done.ok /\ ~Has(b, "session-start") => Advances(session, done.s, b))
      /\ (done.ok /\ Has(b, "session-start") => Opens(done.s, b))
  BY <1>1, <1>2, IngestCounts
<1>4. /\ ~done.ok => session' = session
      /\ done.ok /\ ~Has(b, "session-start") => Advances(session, session', b)
      /\ done.ok /\ Has(b, "session-start") => Opens(session', b)
  BY <1>1, <1>3
<1>5. done.ok => TakenIn(b)
  BY <1>4 DEF TakenIn
<1>6. Moved(b)
  BY <1>3, <1>4, <1>5 DEF Moved
<1> QED BY <1>5, <1>6 DEF done

\* A batch may stay with the writer, be dropped by it, or be done with.
KeepsBatch == flight'.batch = flight.batch /\ ghost' = ghost
DropsBatch ==
    /\ flight'.batch = << >> /\ ghost'.sent = ghost.sent /\ ghost'.wiped = ghost.wiped
    /\ ghost'.dropped = ghost.dropped \cup RowsOf(flight.batch)
    /\ ghost'.astray = (ghost.astray \/ Has(flight.batch, "session-start"))
EndsBatch == flight'.batch = << >> /\ ghost' = ghost

\* A retry is of the first two kinds.
LEMMA RetryTells ==
    ASSUME WriterInv, Retry
    PROVE  KeepsBatch \/ DropsBatch
<1>1. DOMAIN flight = {"batch", "attempt", "beat"} /\ DOMAIN ghost = {"sent", "dropped", "wiped", "astray"}
  BY DEF WriterInv, WriterOK, GhostOK
<1>2. CASE flight.attempt < MaxAttempts
  <2>1. flight' = [flight EXCEPT !.attempt = @ + 1] /\ ghost' = ghost
    BY <1>2 DEF Retry
  <2> QED BY <1>1, <2>1 DEF KeepsBatch
<1>3. CASE ~(flight.attempt < MaxAttempts)
  <2>1. flight' = NoFlight
        /\ ghost' = [ghost EXCEPT !.dropped = @ \cup RowsOf(flight.batch),
                                  !.astray = @ \/ Has(flight.batch, "session-start")]
    BY <1>3 DEF Retry
  <2>2. ghost'.sent = ghost.sent /\ ghost'.wiped = ghost.wiped
        /\ ghost'.dropped = ghost.dropped \cup RowsOf(flight.batch)
    BY <1>1, <2>1
  <2>3. ghost'.astray = (ghost.astray \/ Has(flight.batch, "session-start"))
    BY <1>1, <2>1
  <2>4. flight'.batch = << >>
    BY <2>1 DEF NoFlight
  <2> QED BY <2>2, <2>3, <2>4 DEF DropsBatch
<1> QED BY <1>2, <1>3

\* An attempt at delivering a batch and what comes of it.
Delivery ==
    /\ runner' = runner /\ Queue' = Queue
    /\ \A request \in late' : request \in late \/ request.batch = flight.batch
    /\ \/ TakenIn(flight.batch) /\ EndsBatch
       \/ Moved(flight.batch) /\ (KeepsBatch \/ DropsBatch)

\* The line stays in order, and so do the requests under way.
LEMMA DeliveryOrder ==
    ASSUME WriterInv, WriterInv', GapOK, Delivery
    PROVE  /\ Ordered(Line') /\ LateInOrder(late, runner.run, flight.batch, Queue)'
           /\ flight'.batch = flight.batch => Line' = Line
           /\ flight'.batch = << >> => Line' = Queue
<1>1. runner' = runner /\ Queue' = Queue /\ flight'.batch \in {flight.batch, << >>}
  BY DEF Delivery, KeepsBatch, DropsBatch, EndsBatch
<1>2. Ordered(flight.batch) /\ Ordered(Queue) /\ Before(flight.batch, Queue)
  BY LineParts DEF GapOK
<1>3. flight'.batch = << >> => Line' = Queue
  <2>1. Queue \in Seq(OwnFrames(runner.run, runner.seq))
    BY LineFacts
  <2>2. << >> \o Queue = Queue
    BY <2>1, ConcatEmptySeq
  <2> QED BY <1>1, <2>2 DEF Line
<1>4. flight'.batch = flight.batch => Line' = Line
  BY <1>1 DEF Line
<1>5. Ordered(Line')
  BY <1>1, <1>2, <1>3, <1>4 DEF GapOK
<1>6. LateInOrder(late', runner.run, flight'.batch, Queue)
  <2> SUFFICES ASSUME NEW request \in late', request.run = runner.run
               PROVE  /\ Ordered(request.batch) /\ Before(request.batch, Queue)
                      /\ request.batch = flight'.batch \/ Before(request.batch, flight'.batch)
    BY DEF LateInOrder
  <2>1. request \in late \/ request.batch = flight.batch
    BY DEF Delivery
  <2>2. request \in late =>
           /\ Ordered(request.batch) /\ Before(request.batch, Queue)
           /\ request.batch = flight.batch \/ Before(request.batch, flight.batch)
    BY DEF GapOK, LateInOrder
  <2>3. Before(request.batch, << >>)
    BY OrderOfFew
  <2> QED BY <1>1, <1>2, <2>1, <2>2, <2>3
<1> QED BY <1>1, <1>3, <1>4, <1>5, <1>6

\* A batch that opens a session leaves the rows behind its start accounted for.
LEMMA OpenGaps ==
    ASSUME WriterInv, RoomInv', GapOK, Has(flight.batch, "session-start"), Opens(session', flight.batch)
    PROVE  /\ ~Has(Queue, "session-start") /\ session'.cursor <= runner.seq
           /\ Awaited(OwnSent, Counted', Queue, Excused, session'.cursor)
<1> DEFINE b == flight.batch
           S == OwnFrames(runner.run, runner.seq)
<1>1. /\ session'.cursor \in Int /\ OwnSent \subseteq Rows /\ runner.seq \in Nat
  BY LineFacts DEF RoomInv, GoodSession, OwnSent, WriterInv, GhostOK
<1>2. /\ Before(b, Queue) /\ Has(Line, "session-start") /\ RowsOf(Line) = RowsOf(b) \cup RowsOf(Queue)
  BY LineParts DEF GapOK
<1>3. ~Has(Queue, "session-start")
  BY <1>2, BeforeStart
<1>4. OwnSent \subseteq RowsOf(b) \cup RowsOf(Queue)
  BY <1>2 DEF GapOK, Awaited
<1>5. Awaited(OwnSent, Entries(session'.counted), Queue, Excused, session'.cursor)
  BY <1>1, <1>2, <1>3, <1>4, OpenAwaited
<1>6. Counted' = Entries(session'.counted)
  BY DEF Counted, Entries
<1>7. session'.cursor <= runner.seq
  <2>1. session'.cursor = -1 \/ \E f \in Entries(b) : session'.cursor \in Marks(f)
    BY DEF Opens
  <2>2. \A f \in Entries(b) : \A m \in Marks(f) : m <= runner.seq
    <3>1. b \in Seq(S)
      BY LineFacts
    <3>2. \A f \in Entries(b) : f \in S
      <4> HIDE DEF b, S
      <4> QED BY <3>1, ElementOfSeq DEF Entries
    <3> QED BY <3>2 DEF OwnFrames
  <2> QED BY <1>1, <2>1, <2>2
<1> QED BY <1>3, <1>5, <1>6, <1>7

\* An advancing session, or one left as it is, keeps the line accounted for.
LEMMA MovedGaps ==
    ASSUME WriterInv, RoomInv, RoomInv', GapOK,
           NEW b, Entries(b) \subseteq OwnFrames(runner.run, runner.seq),
           b = flight.batch \/ Before(b, flight.batch), Before(b, Queue),
           \/ session'.counted = session.counted /\ session'.cursor = session.cursor
           \/ Advances(session, session', b)
    PROVE  /\ Awaited(OwnSent, Counted', Line, Excused, session'.cursor)
           /\ Running /\ ~Has(Line, "session-start") => session'.cursor <= runner.seq
           /\ Advances(session, session', b) /\ ~Has(Line, "session-start") =>
                 \A row \in OwnSent : row \in RowsOf(b) => row \in Counted' \cup Excused
<1>1. CASE session'.counted = session.counted /\ session'.cursor = session.cursor
  <2>1. GoodSession(session)
    BY DEF RoomInv
  <2>2. Advances(session, session', << >>)
    BY <1>1, <2>1, AdvanceNone
  <2>3. Entries(<< >>) = {}
    BY EntriesOfFew
  <2>4. /\ Awaited(OwnSent, Counted', Line, Excused, session'.cursor)
        /\ Running /\ ~Has(Line, "session-start") => session'.cursor <= runner.seq
    BY <2>2, <2>3, MoveGaps
  <2>5. ASSUME Advances(session, session', b), ~Has(Line, "session-start"),
               NEW row \in OwnSent, row \in RowsOf(b)
        PROVE  row \in Counted' \cup Excused
    <3>1. session.cursor \in Int /\ row.seq \in Int
      BY <2>1 DEF GoodSession, OwnSent, WriterInv, GhostOK, Rows
    <3>2. session.cursor < row.seq \/ row.seq <= session.cursor
      BY <3>1
    <3>3. session.cursor < row.seq => row \in Entries(session'.counted)
      BY <2>5 DEF Advances
    <3>4. row.seq <= session.cursor => row \in Counted \cup Excused
      BY <2>5 DEF GapOK, Awaited
    <3>5. Counted' = Entries(session'.counted) /\ Counted = Entries(session.counted)
      BY DEF Counted, Entries
    <3> QED BY <1>1, <3>2, <3>3, <3>4, <3>5
  <2> QED BY <2>4, <2>5
<1>2. CASE Advances(session, session', b)
  <2>1. \A row \in RowsOf(Line) :
           row \in RowsOf(b) \/ \A f \in Entries(b) : \A m \in Marks(f) : m < row.seq
    <3> SUFFICES ASSUME NEW row \in RowsOf(Line), row \notin RowsOf(b)
                 PROVE  \A f \in Entries(b) : \A m \in Marks(f) : m < row.seq
      OBVIOUS
    <3>1. row \in RowsOf(flight.batch) \/ row \in RowsOf(Queue)
      BY LineParts
    <3>2. CASE row \in RowsOf(Queue)
      BY <3>2, BeforeMarks
    <3>3. CASE row \in RowsOf(flight.batch)
      <4>1. Before(b, flight.batch)
        BY <3>3
      <4> QED BY <3>3, <4>1, BeforeMarks
    <3> QED BY <3>1, <3>2, <3>3
  <2> QED BY <1>2, <2>1, MoveGaps
<1> QED BY <1>1, <1>2

\* An attempt at delivering a batch keeps the rows accounted for.
LEMMA DeliveryGaps ==
    ASSUME WriterInv, WriterInv', RoomInv, RoomInv', GapOK, Delivery, ~ghost'.astray
    PROVE  GapOK'
<1> DEFINE b == flight.batch
<1>1. /\ Ordered(Line') /\ LateInOrder(late, runner.run, flight.batch, Queue)'
      /\ flight'.batch = b => Line' = Line
      /\ flight'.batch = << >> => Line' = Queue
  BY DeliveryOrder
<1>2. /\ runner' = runner
      /\ \/ TakenIn(b) /\ EndsBatch
         \/ Moved(b) /\ (KeepsBatch \/ DropsBatch)
  BY DEF Delivery
<1>3. OwnSent' = OwnSent
  BY <1>2 DEF OwnSent, KeepsBatch, DropsBatch, EndsBatch
<1>4. /\ RowsOf(Line) = RowsOf(b) \cup RowsOf(Queue)
      /\ (Has(Line, "session-start") <=> Has(b, "session-start") \/ Has(Queue, "session-start"))
      /\ Before(b, Queue)
  BY LineParts DEF GapOK
<1>5. Has(Queue, "session-start") => RowsOf(b) = {} /\ ~Has(b, "session-start")
  BY <1>4, BeforeStart
<1>6. SUFFICES /\ Running /\ ~Has(Line', "session-start") => session'.cursor <= runner.seq
               /\ Awaited(OwnSent, Counted', Line', Excused', session'.cursor)
  BY <1>1, <1>2, <1>3 DEF GapOK, Running
<1>7. CASE Has(b, "session-start") /\ Opens(session', b)
  <2>1. /\ ~Has(Queue, "session-start") /\ session'.cursor <= runner.seq
        /\ Awaited(OwnSent, Counted', Queue, Excused, session'.cursor)
    BY <1>7, OpenGaps
  <2>2. CASE EndsBatch
    BY <1>1, <2>1, <2>2 DEF EndsBatch, Excused
  <2>3. CASE KeepsBatch
    <3>1. Line' = Line /\ Has(Line, "session-start")
      BY <1>1, <1>4, <1>7, <2>3 DEF KeepsBatch
    <3>2. OwnSent \subseteq RowsOf(Line)
      BY <3>1 DEF GapOK, Awaited
    <3> QED BY <2>1, <3>1, <3>2 DEF Awaited
  <2>4. CASE DropsBatch
    BY <1>7, <2>4 DEF DropsBatch
  <2> QED BY <1>2, <2>2, <2>3, <2>4
<1>8. CASE \/ session'.counted = session.counted /\ session'.cursor = session.cursor
           \/ ~Has(b, "session-start") /\ Advances(session, session', b)
  <2>1. Entries(b) \subseteq OwnFrames(runner.run, runner.seq)
    <3> DEFINE S == OwnFrames(runner.run, runner.seq)
    <3>1. b \in Seq(S)
      BY LineFacts
    <3> HIDE DEF b, S
    <3>2. Entries(b) \subseteq S
      BY <3>1, ElementOfSeq DEF Entries
    <3> QED BY <3>2 DEF S
  <2>2. /\ Awaited(OwnSent, Counted', Line, Excused, session'.cursor)
        /\ Running /\ ~Has(Line, "session-start") => session'.cursor <= runner.seq
        /\ Advances(session, session', b) /\ ~Has(Line, "session-start") =>
              \A row \in OwnSent : row \in RowsOf(b) => row \in Counted' \cup Excused
    BY <1>4, <1>8, <2>1, MovedGaps
  <2>3. CASE KeepsBatch
    BY <1>1, <2>2, <2>3 DEF KeepsBatch, Excused
  <2>4. CASE DropsBatch
    <3>1. ~Has(b, "session-start") /\ Line' = Queue /\ Excused' = Excused \cup RowsOf(b)
      BY <1>1, <2>4 DEF DropsBatch, Excused
    <3>2. Has(Line, "session-start") <=> Has(Queue, "session-start")
      BY <1>4, <3>1
    <3>3. Excused \subseteq Excused' /\ \A row \in RowsOf(b) : row \in Counted' \cup Excused'
      BY <3>1
    <3>4. Awaited(OwnSent, Counted', Queue, Excused', session'.cursor)
      BY <1>4, <1>5, <2>2, <3>2, <3>3, RestAwaited
    <3> QED BY <2>2, <3>1, <3>2, <3>4
  <2>5. CASE TakenIn(b) /\ EndsBatch
    <3>1. CASE Has(b, "session-start")
      BY <1>7, <2>5, <3>1 DEF TakenIn
    <3>2. CASE ~Has(b, "session-start")
      <4>1. Advances(session, session', b) /\ Line' = Queue /\ Excused' = Excused
        BY <1>1, <2>5, <3>2 DEF TakenIn, EndsBatch, Excused
      <4>2. Has(Line, "session-start") <=> Has(Queue, "session-start")
        BY <1>4, <3>2
      <4>3. Awaited(OwnSent, Counted', Queue, Excused, session'.cursor)
        BY <1>4, <1>5, <2>2, <4>1, <4>2, RestAwaited
      <4> QED BY <2>2, <4>1, <4>2, <4>3
    <3> QED BY <3>1, <3>2
  <2> QED BY <1>2, <2>3, <2>4, <2>5
<1> QED BY <1>2, <1>7, <1>8 DEF Moved, TakenIn

\* An answer, and a failure, end an attempt.
LEMMA AttemptGaps ==
    ASSUME WriterInv, WriterInv', RoomInv, RoomInv', GapInv, Answered \/ Failed
    PROVE  GapInv'
<1> DEFINE b == flight.batch
<1>1. /\ runner' = runner /\ b # << >> /\ Queue' = Queue
      /\ \A request \in late' : request \in late \/ request.batch = b
  BY Answers, Fails DEF Answered, Failed
<1>2. Answered => Handle(Ingest(session, b))
  BY DEF Answered
<1>3. Answered => (Ingest(session, b).ok /\ EndsBatch) \/ KeepsBatch \/ DropsBatch
  <2>1. ASSUME Answered, Ingest(session, b).ok PROVE EndsBatch
    BY <2>1 DEF Answered, EndsBatch, NoFlight
  <2>2. ASSUME Answered, ~Ingest(session, b).ok PROVE KeepsBatch \/ DropsBatch
    <3>1. Retry
      BY <2>2 DEF Answered
    <3> QED BY <3>1, RetryTells
  <2> QED BY <2>1, <2>2
<1>4. Failed => /\ Handle(Ingest(session, b)) \/ session' = session
                /\ KeepsBatch \/ DropsBatch
  <2>1. Failed => Retry
    BY DEF Failed
  <2> QED BY <2>1, RetryTells DEF Failed
<1>5. Runner' = Runner /\ (ghost.astray => ghost'.astray)
  BY <1>1, <1>3, <1>4 DEF Runner, KeepsBatch, DropsBatch, EndsBatch
<1>6. ASSUME GapOK PROVE Delivery
  <2>1. b \in Batches /\ Ordered(b)
    BY <1>6, DeliveredIsBatch, LineParts DEF GapOK
  <2>2. Handle(Ingest(session, b)) => Moved(b) /\ (Ingest(session, b).ok => TakenIn(b))
    BY <1>1, <2>1, Moves
  <2>3. session' = session => Moved(b)
    BY DEF Moved
  <2> QED BY <1>1, <1>2, <1>3, <1>4, <2>2, <2>3 DEF Delivery
<1>7. ASSUME GapOK, ~ghost'.astray PROVE GapOK'
  BY <1>6, <1>7, DeliveryGaps
<1> QED BY <1>5, <1>7 DEF GapInv

\* A request that arrives late repeats what is under way or comes before it,
\* unless a boundary goes astray.
LEMMA StragglerGaps ==
    ASSUME WriterInv, RoomInv, RoomInv', GapInv, NEW request \in late, Straggler(request)
    PROVE  GapInv'
<1> DEFINE b == request.batch
<1>1. /\ late' = late \ {request} /\ Handle(Ingest(session, b))
      /\ UNCHANGED <<runner, writer, flight>>
      /\ ghost' = [ghost EXCEPT !.astray = \/ @
                                            \/ request.run # runner.run
                                            \/ Has(request.batch, "session-start")]
  BY DEF Straggler
<1>2. DOMAIN ghost = {"sent", "dropped", "wiped", "astray"}
  BY DEF WriterInv, GhostOK
<1>3. /\ ghost'.sent = ghost.sent /\ ghost'.dropped = ghost.dropped /\ ghost'.wiped = ghost.wiped
      /\ ghost'.astray = (ghost.astray \/ request.run # runner.run \/ Has(b, "session-start"))
  BY <1>1, <1>2
<1>4. /\ Runner' = Runner /\ OwnSent' = OwnSent /\ Excused' = Excused
      /\ Line' = Line /\ Queue' = Queue
  BY <1>1, <1>3 DEF Runner, OwnSent, Excused, Line, Queue
<1>5. ASSUME GapOK, request.run = runner.run, ~Has(b, "session-start") PROVE GapOK'
  <2>1. Ordered(b) /\ Before(b, Queue) /\ (b = flight.batch \/ Before(b, flight.batch))
    BY <1>5 DEF GapOK, LateInOrder
  <2>2. b \in Batches /\ b # << >> /\ b \in Seq(OwnFrames(runner.run, runner.seq))
    BY <1>5 DEF WriterInv, LateOK, RequestOK
  <2>3. Entries(b) \subseteq OwnFrames(runner.run, runner.seq)
    <3> DEFINE S == OwnFrames(runner.run, runner.seq)
    <3>1. b \in Seq(S)
      BY <2>2
    <3> HIDE DEF b, S
    <3>2. Entries(b) \subseteq S
      BY <3>1, ElementOfSeq DEF Entries
    <3> QED BY <3>2 DEF S
  <2>4. Moved(b)
    BY <1>1, <2>1, <2>2, Moves
  <2>5. \/ session'.counted = session.counted /\ session'.cursor = session.cursor
        \/ Advances(session, session', b)
    BY <1>5, <2>4 DEF Moved, TakenIn
  <2>6. /\ Awaited(OwnSent, Counted', Line, Excused, session'.cursor)
        /\ Running /\ ~Has(Line, "session-start") => session'.cursor <= runner.seq
    BY <1>5, <2>1, <2>3, <2>5, MovedGaps
  <2>7. LateInOrder(late, runner.run, flight.batch, Queue)'
    <3>1. LateInOrder(late, runner.run, flight.batch, Queue) /\ late' \subseteq late
      BY <1>1, <1>5 DEF GapOK
    <3> QED BY <1>1, <1>4, <3>1 DEF LateInOrder
  <2> QED BY <1>1, <1>4, <1>5, <2>6, <2>7 DEF GapOK, Running
<1> QED BY <1>3, <1>4, <1>5 DEF GapInv

\* The rows of an evicted room are wiped.
LEMMA RestartGaps ==
    ASSUME WriterInv, RoomInv, GapInv, RoomRestarts
    PROVE  GapInv'
<1>1. /\ session' = Fresh /\ UNCHANGED <<runner, writer, flight, late>>
      /\ ghost' = [ghost EXCEPT !.wiped = @ \cup Counted]
  BY DEF RoomRestarts, Counted
<1>2. DOMAIN ghost = {"sent", "dropped", "wiped", "astray"}
  BY DEF WriterInv, GhostOK
<1>3. /\ ghost'.sent = ghost.sent /\ ghost'.dropped = ghost.dropped /\ ghost'.astray = ghost.astray
      /\ ghost'.wiped = ghost.wiped \cup Counted
  BY <1>1, <1>2
<1>4. /\ Runner' = Runner /\ OwnSent' = OwnSent /\ Excused' = Excused \cup Counted
      /\ Line' = Line /\ Queue' = Queue
  BY <1>1, <1>3 DEF Runner, OwnSent, Excused, Line, Queue
<1>5. session'.cursor = -1
  BY <1>1 DEF Fresh
<1>6. \A row \in OwnSent : ~(row.seq <= -1)
  <2> SUFFICES ASSUME NEW row \in OwnSent PROVE ~(row.seq <= -1)
    OBVIOUS
  <2>1. row.seq \in Nat
    BY DEF OwnSent, WriterInv, GhostOK, Rows
  <2> QED BY <2>1
<1>7. ASSUME GapOK PROVE GapOK'
  <2>1. Awaited(OwnSent, Counted', Line, Excused \cup Counted, -1)
    <3>1. Awaited(OwnSent, Counted, Line, Excused, session.cursor)
      BY <1>7 DEF GapOK
    <3> QED BY <1>6, <3>1 DEF Awaited
  <2>2. session'.cursor <= runner.seq
    BY <1>5, LineFacts
  <2> QED BY <1>1, <1>4, <1>5, <1>7, <2>1, <2>2 DEF GapOK, Running, LateInOrder
<1> QED BY <1>3, <1>4, <1>7 DEF GapInv

\* The other steps move nothing.
LEMMA OtherGaps ==
    ASSUME WriterInv, RoomInv, GapInv,
           WindowElapses \/ WriterEnds \/ AlarmFires \/ ViewerNext \/ Tick \/ UNCHANGED vars
    PROVE  GapInv'
<1>1. DOMAIN writer = WriterFields /\ DOMAIN runner = {"pc", "run", "seq", "window"} /\ GoodSession(session)
  BY DEF WriterInv, WriterOK, RunnerOK, RoomInv
<1>2. CASE WindowElapses
  <2>1. writer'.chan = writer.chan /\ writer'.buf = writer.buf
    BY <1>1, <1>2 DEF WindowElapses, WriterFields
  <2>2. Line' = Line /\ Queue' = Queue
    BY <1>2, <2>1 DEF WindowElapses, Line, Queue
  <2> QED BY <1>2, <2>2, CalmGaps DEF WindowElapses
<1>3. CASE WriterEnds
  <2>1. /\ runner' = [runner EXCEPT !.pc = "down"] /\ writer' = IdleWriter
        /\ writer.chan = << >> /\ writer.buf = << >>
        /\ UNCHANGED <<flight, late, session, ghost>>
    BY <1>3 DEF WriterEnds
  <2>2. runner'.run = runner.run /\ runner'.seq = runner.seq /\ runner'.pc = "down"
    BY <1>1, <2>1
  <2>3. writer'.chan = << >> /\ writer'.buf = << >>
    BY <2>1 DEF IdleWriter
  <2>4. Line' = Line /\ Queue' = Queue
    BY <2>1, <2>3 DEF Line, Queue
  <2> QED BY <2>1, <2>2, <2>4, CalmGaps
<1>4. CASE AlarmFires
  <2>1. session' = MarkStaleIfExpired(session) /\ UNCHANGED <<runner, writer, flight, late, ghost>>
    BY <1>4 DEF AlarmFires
  <2>2. session'.counted = session.counted /\ session'.cursor = session.cursor
    BY <1>1, <2>1, MarkedIs
  <2>3. Line' = Line /\ Queue' = Queue
    BY <2>1 DEF Line, Queue
  <2> QED BY <2>1, <2>2, <2>3, CalmGaps
<1>5. CASE ViewerNext \/ Tick
  <2>1. UNCHANGED <<runner, flight, late, ghost>>
    BY <1>5, OtherSteps
  <2>2. /\ writer' = writer \/ writer' = [writer EXCEPT !.quiet = IF runner.pc = "down" THEN @ ELSE 1]
        /\ \/ session' = session
           \/ session' = [session EXCEPT !.age = IF session.status = "live" /\ @ < StaleAfter THEN @ + 1 ELSE @]
    BY <1>5 DEF ViewerNext, ViewerConnects, RoomResumes, ViewerFlushes, ViewerLost, Tick
  <2>3. writer'.chan = writer.chan /\ writer'.buf = writer.buf
    BY <1>1, <2>2 DEF WriterFields
  <2>4. session'.counted = session.counted /\ session'.cursor = session.cursor
    BY <1>1, <2>2 DEF GoodSession, SessionFields
  <2>5. Line' = Line /\ Queue' = Queue
    BY <2>1, <2>3 DEF Line, Queue
  <2> QED BY <2>1, <2>4, <2>5, CalmGaps
<1>6. CASE UNCHANGED vars
  <2>1. Line' = Line /\ Queue' = Queue
    BY <1>6 DEF vars, Line, Queue
  <2> QED BY <1>6, <2>1, CalmGaps DEF vars
<1> QED BY <1>2, <1>3, <1>4, <1>5, <1>6

\* Every step keeps the rows accounted for.
LEMMA GapStep ==
    ASSUME WriterInv, WriterInv', RoomInv, RoomInv', GapInv, [Next]_vars
    PROVE  GapInv'
<1>1. WriterNext => GapInv'
  BY FlushGaps, BeatGaps, AttemptGaps, OtherGaps DEF WriterNext
<1>2. RoomNext => GapInv'
  BY StragglerGaps, RestartGaps, OtherGaps DEF RoomNext
<1> QED BY <1>1, <1>2, RunnerGaps, OtherGaps DEF Next

\* Before the first run nothing is sent and nothing on the line.
LEMMA GapInit == Init => GapInv
<1> SUFFICES ASSUME Init PROVE GapInv
  OBVIOUS
<1>1. /\ runner.pc = "down" /\ writer = IdleWriter /\ flight = NoFlight /\ late = {} /\ ghost.sent = {}
  BY DEF Init
<1>2. flight.batch = << >> /\ writer.chan = << >> /\ writer.buf = << >>
  BY <1>1 DEF IdleWriter, NoFlight
<1>3. << >> \o << >> = << >>
  BY ConcatEmptySeq, EmptySeq
<1>4. Line = << >>
  BY <1>2, <1>3 DEF Line, Queue
<1>5. OwnSent = {} /\ ~Running
  BY <1>1 DEF OwnSent, Running
<1> QED BY <1>1, <1>4, <1>5, OrderOfFew, EndsLastOfFew DEF GapInv, GapOK, LateInOrder, Awaited

\* A row of the run that was sent is counted, on its way or excused.
LEMMA GapsTold == WriterInv /\ GapInv => GapsAreReported
<1> SUFFICES ASSUME WriterInv, GapInv, Runner = "prod", ~ghost.astray
             PROVE  OwnSent \subseteq Counted \cup Pending \cup ghost.dropped \cup ghost.wiped
  BY DEF GapsAreReported, OwnSent
<1>1. Pending = RowsOf(Line)
  <2> DEFINE S == OwnFrames(runner.run, runner.seq)
  <2>1. flight.batch \in Seq(S) /\ writer.buf \in Seq(S) /\ writer.chan \in Seq(S)
    BY LineFacts
  <2> HIDE DEF S
  <2>2. \A p, q, t \in Seq(S) : p \o (q \o t) = (p \o q) \o t
    BY JoinsAssociate
  <2>3. flight.batch \o writer.buf \o writer.chan = Line
    BY <2>1, <2>2 DEF Line, Queue
  <2> QED BY <2>3 DEF Pending
<1>2. Awaited(OwnSent, Counted, Line, Excused, session.cursor)
  BY DEF GapInv, GapOK
<1> QED BY <1>1, <1>2 DEF Awaited, Excused

\* The gaps of a production run are the reported ones: as long as no session
\* boundary goes astray, every row the runner sent is counted by the room, on
\* its way, dropped and reported as such, or gone with an evicted room
\* (deliver_batch, StreamSummary, PositionSession.apply).
THEOREM GapsReported == Spec => []GapsAreReported
<1>1. Spec => [](WriterInv /\ RoomInv)
  BY StreamSound
<1>2. WriterInv /\ RoomInv /\ GapInv /\ [Next]_vars => GapInv'
  <2> SUFFICES ASSUME WriterInv, RoomInv, GapInv, [Next]_vars PROVE GapInv'
    OBVIOUS
  <2>1. WriterInv' /\ RoomInv'
    BY WriterStep, RoomStep
  <2> QED BY <2>1, GapStep
<1> QED BY <1>1, <1>2, GapInit, GapsTold, PTL DEF Spec
=============================================================================
