-------------------------- MODULE PrimitivesProofs --------------------------
(***************************************************************************)
(* The kernel's data structures: SpscRing for every capacity, counter      *)
(* width and message set, and that it implements BoundedFifo; Spinlock for *)
(* every set of threads and of locks, and any depth of nesting; and that   *)
(* TaskQueue, the circular buffer of a priority level, implements the      *)
(* sequence of RunQueue for every MAX_TASKS.  What makes the last go       *)
(* through is BufSound: tail is len cells after head, modulo MAX_TASKS, so *)
(* that the next push lands behind the youngest entry and on none of them. *)
(***************************************************************************)
EXTENDS SpscRing, Spinlock, TaskQueue, ModArith

-----------------------------------------------------------------------------
(* Sequences, entry by entry *)

\* A sequence with one more entry at the end.
LEMMA Appended ==
  ASSUME NEW S, NEW s \in Seq(S), NEW e \in S, NEW n, Len(s) = n, NEW d, d = Append(s, e)
  PROVE  /\ d \in Seq(S) /\ Len(d) = n + 1 /\ d[n + 1] = e
         /\ \A i \in 1..n : d[i] = s[i]
  BY AppendProperties

\* One without its first entry.
LEMMA Shortened ==
  ASSUME NEW S, NEW s \in Seq(S), NEW n, Len(s) = n, n # 0, NEW d, d = Tail(s)
  PROVE  /\ s # <<>> /\ d \in Seq(S) /\ Len(d) = n - 1 /\ Head(s) = s[1]
         /\ \A i \in 1..(n - 1) : d[i] = s[i + 1]
<1>1. s # <<>>
  OBVIOUS
<1> QED
  BY <1>1, HeadTailProperties

\* The empty sequence has no entries.
LEMMA EmptyDomain == DOMAIN <<>> = {}
  OBVIOUS

\* One with a new first entry.
LEMMA Prepended ==
  ASSUME NEW S, NEW s \in Seq(S), NEW e \in S, NEW n, Len(s) = n, NEW d, d = <<e>> \o s
  PROVE  /\ d \in Seq(S) /\ Len(d) = n + 1 /\ d[1] = e
         /\ \A i \in 1..n : d[i + 1] = s[i]
<1>1. <<e>> \in Seq(S) /\ Len(<<e>>) = 1 /\ <<e>>[1] = e /\ n \in Nat
  OBVIOUS
<1>2. /\ d \in Seq(S) /\ Len(d) = Len(<<e>>) + Len(s)
      /\ \A i \in 1..(Len(<<e>>) + Len(s)) :
           d[i] = IF i <= Len(<<e>>) THEN <<e>>[i] ELSE s[i - Len(<<e>>)]
  BY <1>1, ConcatProperties, SMTT(20)
<1>3. 1 \in 1..(1 + n) /\ \A i \in 1..n : i + 1 \in 1..(1 + n) /\ ~(i + 1 <= 1) /\ (i + 1) - 1 = i
  BY <1>1
<1> QED
  BY <1>1, <1>2, <1>3

-----------------------------------------------------------------------------
(* TaskQueue: the circular buffer and its contents *)

\* The cell that holds the i-th entry of a queue with this head.
Cell(h, i) == (h + i - 1) % MaxTasks

\* BufContents of any buffer.
Contents(r) == [i \in 1..r.len |-> r.buf[Cell(r.head, i)]]

\* A buffer of task slots.
BufType ==
  [buf : [Slots -> Slots \cup {NoTask}], head : Slots, tail : Slots, len : 0..MaxTasks]

\* tail is where the next entry goes, and the entries are slots.
BufSound(r) ==
  /\ r \in BufType
  /\ r.tail = Cell(r.head, r.len + 1)
  /\ Contents(r) \in Seq(Slots)

\* The cells of up to MaxTasks entries are different ones.
LEMMA CellFacts ==
  ASSUME NEW h \in Slots
  PROVE  /\ \A i \in 1..(MaxTasks + 1) : Cell(h, i) \in Slots
         /\ \A i, j \in 1..MaxTasks : i # j => Cell(h, i) # Cell(h, j)
         /\ Cell(h, 1) = h
<1> USE MaxTasksAssumption DEF Slots
<1>1. \A i \in 1..(MaxTasks + 1) : Cell(h, i) \in Slots
  BY DivMod DEF Cell
<1>2. ASSUME NEW i \in 1..MaxTasks, NEW j \in 1..MaxTasks, i < j
      PROVE  Cell(h, i) # Cell(h, j)
  <2> DEFINE a == h + i - 1
             b == h + j - 1
  <2>1. a \in Int /\ b \in Int /\ a < b /\ b - a < MaxTasks
    BY <1>2
  <2> HIDE DEF a, b
  <2>2. a % MaxTasks # b % MaxTasks
    BY <2>1, ModApart, Zenon
  <2> QED
    BY <2>2, Zenon DEF Cell, a, b
<1>3. \A i, j \in 1..MaxTasks : i < j \/ j < i \/ i = j
  OBVIOUS
<1>4. Cell(h, 1) = h
  BY ModSmall DEF Cell
<1> QED
  BY <1>1, <1>2, <1>3, <1>4, Zenon

\* One step along the ring.
LEMMA CellNext ==
  ASSUME NEW h \in Slots, NEW i \in 1..MaxTasks
  PROVE  /\ Cell(h, i + 1) = (Cell(h, i) + 1) % MaxTasks
         /\ Cell((h + 1) % MaxTasks, i) = Cell(h, i + 1)
<1> USE MaxTasksAssumption DEF Slots
<1>1. ASSUME NEW a \in Nat, NEW k \in Nat
      PROVE  ((a % MaxTasks) + k) % MaxTasks = (a + k) % MaxTasks
  <2> DEFINE d == a \div MaxTasks
             m == a % MaxTasks
  <2>1. d \in Int /\ m \in Int /\ a = (MaxTasks * d) + m
    BY DivMod
  <2> HIDE DEF d, m
  <2> DEFINE c == m + k
  <2>2. c \in Int /\ c + (MaxTasks * d) = a + k
    BY <2>1
  <2> HIDE DEF c
  <2>3. (c + (MaxTasks * d)) % MaxTasks = c % MaxTasks
    BY <2>1, <2>2, ModShift, Zenon
  <2> QED
    BY <2>2, <2>3, Zenon DEF c, m
<1>2. Cell(h, i + 1) = (Cell(h, i) + 1) % MaxTasks
  <2> DEFINE a == h + i - 1
  <2>1. a \in Nat /\ a + 1 = h + (i + 1) - 1
    OBVIOUS
  <2> HIDE DEF a
  <2>2. ((a % MaxTasks) + 1) % MaxTasks = (a + 1) % MaxTasks
    BY <1>1, <2>1, Zenon
  <2> QED
    BY <2>1, <2>2, Zenon DEF Cell, a
<1>3. Cell((h + 1) % MaxTasks, i) = Cell(h, i + 1)
  <2> DEFINE a == h + 1
             k == i - 1
             m == a % MaxTasks
  <2>1. a \in Nat /\ k \in Nat /\ a + k = h + (i + 1) - 1
    OBVIOUS
  <2>2. m \in Int
    BY <2>1, DivMod
  <2> HIDE DEF a, k
  <2>3. (m + k) % MaxTasks = (a + k) % MaxTasks
    BY <1>1, <2>1, Zenon
  <2> HIDE DEF m
  <2>4. m + k = m + i - 1
    BY <2>2, Zenon DEF k
  <2> QED
    BY <2>1, <2>3, <2>4, Zenon DEF Cell, a, m
<1> QED
  BY <1>2, <1>3, Zenon

\* The indices stay in the ring.
LEMMA NextCell ==
  ASSUME NEW k \in Slots
  PROVE  (k + 1) % MaxTasks \in Slots
  BY WrapNext, MaxTasksAssumption DEF Slots

\* The contents, from what each cell holds.
LEMMA ContentsAre ==
  ASSUME NEW r \in BufType, NEW c \in Seq(Slots), Len(c) = r.len,
         \A i \in 1..r.len : c[i] = r.buf[Cell(r.head, i)]
  PROVE  Contents(r) = c
  BY DEF Contents

\* How long the contents are, and what they are.
LEMMA BufContentsFacts ==
  ASSUME NEW r, BufSound(r)
  PROVE  /\ Len(Contents(r)) = r.len /\ r.len \in Nat /\ r.len <= MaxTasks
         /\ \A i \in 1..r.len : Contents(r)[i] = r.buf[Cell(r.head, i)] /\ Contents(r)[i] \in Slots
<1>1. r.len \in 0..MaxTasks
  BY Zenon DEF BufSound, BufType
<1>2. Len(Contents(r)) = r.len
  BY <1>1, MaxTasksAssumption DEF Contents
<1>3. \A i \in 1..r.len : Contents(r)[i] = r.buf[Cell(r.head, i)]
  BY Zenon DEF Contents
<1>4. \A i \in 1..Len(Contents(r)) : Contents(r)[i] \in Slots
  BY DEF BufSound
<1> QED
  BY <1>1, <1>2, <1>3, <1>4, MaxTasksAssumption

\* push_back on the buffer is push_back on its contents.
LEMMA BufPushBackFacts ==
  ASSUME NEW r, BufSound(r), NEW id \in Slots
  PROVE  /\ BufSound(BufPushBack(r, id))
         /\ Contents(BufPushBack(r, id)) = push_back(Contents(r), id)
<1> DEFINE t == BufPushBack(r, id)
           c == Contents(r)
<1>1. /\ Len(c) = r.len /\ r.len \in Nat /\ r.len <= MaxTasks
      /\ \A i \in 1..r.len : c[i] = r.buf[Cell(r.head, i)]
  BY BufContentsFacts, Zenon
<1>2. r \in BufType /\ c \in Seq(Slots) /\ r.head \in Slots /\ r.tail = Cell(r.head, r.len + 1)
  BY Zenon DEF BufSound, BufType
<1> HIDE DEF c
<1>3. CASE r.len >= MaxTasks
  BY <1>1, <1>3, Zenon DEF BufPushBack, push_back, c
<1>4. CASE r.len < MaxTasks
  <2> DEFINE d == Append(c, id)
  <2>1. /\ d \in Seq(Slots) /\ Len(d) = r.len + 1 /\ d[r.len + 1] = id
        /\ \A i \in 1..r.len : d[i] = c[i]
    <3>1. c \in Seq(Slots) /\ Len(c) = r.len /\ d = Append(c, id)
      BY <1>1, <1>2, Zenon
    <3> HIDE DEF d
    <3> QED
      BY <3>1, Appended
  <2>2. r.len + 1 \in 1..MaxTasks
    BY <1>1, <1>4, MaxTasksAssumption
  <2>3. /\ t \in BufType /\ t.head = r.head /\ t.len = r.len + 1
        /\ t.tail = (r.tail + 1) % MaxTasks
        /\ t.buf = [r.buf EXCEPT ![r.tail] = id]
    <3>1. r.tail \in Slots /\ r.buf \in [Slots -> Slots \cup {NoTask}]
      BY <1>2, Zenon DEF BufType
    <3>2. (r.tail + 1) % MaxTasks \in Slots /\ r.len + 1 \in 0..MaxTasks
      BY <1>1, <2>2, <3>1, NextCell
    <3>3. [r.buf EXCEPT ![r.tail] = id] \in [Slots -> Slots \cup {NoTask}]
      BY <3>1, Zenon
    <3>4. t = [r EXCEPT !.buf = [r.buf EXCEPT ![r.tail] = id],
                        !.tail = (r.tail + 1) % MaxTasks, !.len = r.len + 1]
      BY <1>1, <1>4, MaxTasksAssumption DEF BufPushBack
    <3> QED
      BY <1>2, <3>2, <3>3, <3>4, Zenon DEF BufType
  <2> HIDE DEF t, d
  <2>4. t.tail = Cell(t.head, t.len + 1)
    BY <1>2, <2>2, <2>3, CellNext
  <2>5. \A i \in 1..r.len : Cell(r.head, i) # r.tail /\ Cell(r.head, i) \in Slots
    <3>1. \A i \in 1..r.len : i \in 1..MaxTasks /\ i \in 1..(MaxTasks + 1) /\ i # r.len + 1
      BY <1>1, <1>4, MaxTasksAssumption
    <3> QED
      BY <1>2, <2>2, <3>1, CellFacts, SMTT(20)
  <2>6. \A i \in 1..t.len : d[i] = t.buf[Cell(t.head, i)]
    <3>1. \A i \in 1..t.len : i \in 1..r.len \/ i = r.len + 1
      BY <1>1, <2>3
    <3>2. r.buf \in [Slots -> Slots \cup {NoTask}] /\ r.tail \in Slots
      BY <1>2, Zenon DEF BufType
    <3> QED
      BY <1>1, <1>2, <2>1, <2>3, <2>5, <3>1, <3>2
  <2>7. Contents(t) = d
    BY <2>1, <2>3, <2>6, ContentsAre, Zenon
  <2>8. push_back(c, id) = d
    BY <1>1, <1>4, MaxTasksAssumption DEF push_back, d
  <2> QED
    BY <2>1, <2>3, <2>4, <2>7, <2>8, Zenon DEF BufSound, t, c
<1> QED
  BY <1>1, <1>3, <1>4, MaxTasksAssumption

\* pop_front takes the head of the contents, and leaves an empty queue alone.
LEMMA BufPopFrontFacts ==
  ASSUME NEW r, BufSound(r)
  PROVE  /\ BufSound(BufPopFront(r))
         /\ r.len = 0 => Contents(r) = <<>> /\ BufPopFront(r) = r
         /\ r.len # 0 => /\ Contents(r) # <<>> /\ Contents(BufPopFront(r)) = Tail(Contents(r))
                         /\ r.buf[r.head] = Head(Contents(r))
                         /\ BufPopFront(r).len = r.len - 1
<1> DEFINE t == BufPopFront(r)
           c == Contents(r)
<1>1. /\ Len(c) = r.len /\ r.len \in Nat /\ r.len <= MaxTasks
      /\ \A i \in 1..r.len : c[i] = r.buf[Cell(r.head, i)]
  BY BufContentsFacts, Zenon
<1>2. r \in BufType /\ c \in Seq(Slots) /\ r.head \in Slots /\ r.tail = Cell(r.head, r.len + 1)
  BY Zenon DEF BufSound, BufType
<1> HIDE DEF c
<1>3. CASE r.len = 0
  <2>1. c = <<>>
    BY <1>1, <1>2, <1>3, EmptySeq, Zenon
  <2> QED
    BY <1>3, <2>1, Zenon DEF BufPopFront, c
<1>4. CASE r.len # 0
  <2> DEFINE d == Tail(c)
  <2>1. /\ c # <<>> /\ d \in Seq(Slots) /\ Len(d) = r.len - 1
        /\ \A i \in 1..(r.len - 1) : d[i] = c[i + 1]
        /\ Head(c) = c[1]
    <3>1. c \in Seq(Slots) /\ Len(c) = r.len /\ r.len # 0 /\ d = Tail(c)
      BY <1>1, <1>2, <1>4, Zenon
    <3> HIDE DEF d
    <3> QED
      BY <3>1, Shortened
  <2>2. /\ t \in BufType /\ t.head = (r.head + 1) % MaxTasks /\ t.len = r.len - 1
        /\ t.tail = r.tail /\ t.buf = r.buf
    <3>1. (r.head + 1) % MaxTasks \in Slots
      BY <1>2, NextCell, Zenon
    <3>2. r.len - 1 \in 0..MaxTasks
      BY <1>1, <1>4, MaxTasksAssumption
    <3> QED
      BY <1>1, <1>2, <1>4, <3>1, <3>2, MaxTasksAssumption, Zenon DEF BufPopFront, BufType
  <2> HIDE DEF t, d
  <2>3. \A i \in 1..r.len : Cell(t.head, i) = Cell(r.head, i + 1)
    <3>1. \A i \in 1..r.len : i \in 1..MaxTasks
      BY <1>1, MaxTasksAssumption
    <3> QED
      BY <1>2, <2>2, <3>1, CellNext, Zenon
  <2>4. t.tail = Cell(t.head, t.len + 1)
    BY <1>1, <1>2, <1>4, <2>2, <2>3
  <2>5. \A i \in 1..t.len : d[i] = t.buf[Cell(t.head, i)]
    <3>1. \A i \in 1..t.len : i \in 1..r.len /\ i + 1 \in 1..r.len /\ i \in 1..(r.len - 1)
      BY <1>1, <2>2
    <3> QED
      BY <1>1, <2>1, <2>2, <2>3, <3>1, Zenon
  <2>6. Contents(t) = d
    BY <2>1, <2>2, <2>5, ContentsAre, Zenon
  <2>7. r.buf[r.head] = Head(c)
    BY <1>1, <1>2, <1>4, <2>1, CellFacts
  <2> QED
    BY <1>4, <2>1, <2>2, <2>4, <2>6, <2>7, Zenon DEF BufSound, t, c, d
<1> QED
  BY <1>3, <1>4, Zenon

\* push_front on the buffer is push_front on its contents.
LEMMA BufPushFrontFacts ==
  ASSUME NEW r, BufSound(r), NEW id \in Slots
  PROVE  /\ BufSound(BufPushFront(r, id))
         /\ Contents(BufPushFront(r, id)) = push_front(Contents(r), id)
<1> DEFINE t == BufPushFront(r, id)
           c == Contents(r)
           first == IF r.head = 0 THEN MaxTasks - 1 ELSE r.head - 1
<1>1. /\ Len(c) = r.len /\ r.len \in Nat /\ r.len <= MaxTasks
      /\ \A i \in 1..r.len : c[i] = r.buf[Cell(r.head, i)]
  BY BufContentsFacts, Zenon
<1>2. /\ r \in BufType /\ c \in Seq(Slots) /\ r.head \in Slots /\ r.tail = Cell(r.head, r.len + 1)
      /\ r.buf \in [Slots -> Slots \cup {NoTask}]
  BY Zenon DEF BufSound, BufType
<1>3. first \in Slots /\ (first + 1) % MaxTasks = r.head
  <2>1. first \in Slots
    BY <1>2, MaxTasksAssumption DEF Slots
  <2>2. first + 1 = IF r.head = 0 THEN MaxTasks ELSE r.head
    BY <1>2, MaxTasksAssumption DEF Slots
  <2> HIDE DEF first
  <2>3. (first + 1) % MaxTasks = IF first + 1 = MaxTasks THEN 0 ELSE first + 1
    BY <2>1, WrapNext, MaxTasksAssumption, Zenon DEF Slots
  <2> QED
    BY <1>2, <2>1, <2>2, <2>3, MaxTasksAssumption DEF Slots
<1> HIDE DEF c
<1>4. CASE r.len >= MaxTasks
  BY <1>1, <1>4, Zenon DEF BufPushFront, push_front, c
<1>5. CASE r.len < MaxTasks
  <2> DEFINE d == <<id>> \o c
  <2>1. /\ d \in Seq(Slots) /\ Len(d) = r.len + 1 /\ d[1] = id
        /\ \A i \in 1..r.len : d[i + 1] = c[i]
    <3>1. c \in Seq(Slots) /\ Len(c) = r.len /\ d = <<id>> \o c
      BY <1>1, <1>2, Zenon
    <3> HIDE DEF d
    <3> QED
      BY <3>1, Prepended
  <2>2. /\ t \in BufType /\ t.head = first /\ t.len = r.len + 1
        /\ t.tail = r.tail /\ t.buf = [r.buf EXCEPT ![first] = id]
    <3>1. t = [r EXCEPT !.head = first, !.buf = [r.buf EXCEPT ![first] = id], !.len = r.len + 1]
      BY <1>1, <1>5, MaxTasksAssumption DEF BufPushFront
    <3> HIDE DEF first
    <3>2. [r.buf EXCEPT ![first] = id] \in [Slots -> Slots \cup {NoTask}] /\ r.len + 1 \in 0..MaxTasks
      BY <1>1, <1>2, <1>3, <1>5, MaxTasksAssumption
    <3> QED
      BY <1>2, <1>3, <3>1, <3>2, Zenon DEF BufType
  <2> HIDE DEF t, d, first
  <2>3. \A i \in 1..(r.len + 1) : Cell(r.head, i) = Cell(first, i + 1)
    <3>1. \A i \in 1..(r.len + 1) : i \in 1..MaxTasks
      BY <1>1, <1>5, MaxTasksAssumption
    <3> QED
      BY <1>3, <3>1, CellNext, Zenon
  <2>4. t.tail = Cell(t.head, t.len + 1)
    BY <1>1, <1>2, <2>2, <2>3
  <2>5. /\ Cell(first, 1) = first
        /\ \A i \in 1..r.len : Cell(first, i + 1) # first /\ Cell(first, i + 1) \in Slots
    <3>1. 1 \in 1..MaxTasks
      BY MaxTasksAssumption
    <3>2. \A i \in 1..r.len : i + 1 \in 1..MaxTasks /\ i + 1 \in 1..(MaxTasks + 1) /\ i + 1 # 1
      BY <1>1, <1>5, MaxTasksAssumption
    <3> QED
      BY <1>3, <3>1, <3>2, CellFacts, Zenon
  <2>6. /\ d[1] = t.buf[Cell(t.head, 1)]
        /\ \A i \in 1..r.len : d[i + 1] = t.buf[Cell(t.head, i + 1)]
    <3>1. \A i \in 1..r.len : i \in 1..(r.len + 1)
      BY <1>1
    <3>2. t.buf[first] = id /\ \A s \in Slots : s # first => t.buf[s] = r.buf[s]
      BY <1>2, <1>3, <2>2, Zenon
    <3>3. \A i \in 1..r.len : Cell(t.head, i + 1) = Cell(r.head, i)
      BY <2>2, <2>3, <3>1, Zenon
    <3>4. Cell(t.head, 1) = first
      BY <2>2, <2>5, Zenon
    <3>5. \A i \in 1..r.len : Cell(t.head, i + 1) # first /\ Cell(t.head, i + 1) \in Slots
      BY <2>2, <2>5, Zenon
    <3>6. ASSUME NEW i \in 1..r.len PROVE d[i + 1] = t.buf[Cell(t.head, i + 1)]
      <4>1. d[i + 1] = r.buf[Cell(r.head, i)]
        BY <1>1, <2>1, Zenon
      <4>2. t.buf[Cell(t.head, i + 1)] = r.buf[Cell(t.head, i + 1)]
        BY <3>2, <3>5, Zenon
      <4> QED
        BY <3>3, <4>1, <4>2, Zenon
    <3> QED
      BY <2>1, <3>2, <3>4, <3>6, Zenon
  <2>7. \A i \in 1..t.len : d[i] = t.buf[Cell(t.head, i)]
    <3>1. ASSUME NEW i \in 1..t.len, i # 1
          PROVE  d[i] = t.buf[Cell(t.head, i)]
      <4>1. i - 1 \in 1..r.len /\ (i - 1) + 1 = i
        BY <1>1, <2>2, <3>1
      <4> QED
        BY <2>6, <4>1, Zenon
    <3> QED
      BY <2>6, <3>1, Zenon
  <2>8. Contents(t) = d
    BY <2>1, <2>2, <2>7, ContentsAre, Zenon
  <2>9. push_front(c, id) = d
    BY <1>1, <1>5, MaxTasksAssumption DEF push_front, d
  <2> QED
    BY <2>1, <2>2, <2>4, <2>8, <2>9, Zenon DEF BufSound, t, c
<1> QED
  BY <1>1, <1>4, <1>5, MaxTasksAssumption

\* The buffer keeps its type, whatever is in its cells.
LEMMA BufTypeKept ==
  ASSUME NEW r \in BufType, NEW id \in Slots \cup {NoTask}
  PROVE  BufPushBack(r, id) \in BufType /\ BufPopFront(r) \in BufType
<1>1. /\ r.tail \in Slots /\ r.head \in Slots /\ r.len \in 0..MaxTasks
      /\ r.buf \in [Slots -> Slots \cup {NoTask}]
  BY Zenon DEF BufType
<1>2. (r.tail + 1) % MaxTasks \in Slots /\ (r.head + 1) % MaxTasks \in Slots
  BY <1>1, NextCell, Zenon
<1>3. BufPushBack(r, id) \in BufType
  <2>1. CASE r.len >= MaxTasks
    BY <2>1, Zenon DEF BufPushBack
  <2>2. CASE ~(r.len >= MaxTasks)
    <3>1. BufPushBack(r, id) = [r EXCEPT !.buf = [r.buf EXCEPT ![r.tail] = id],
                                         !.tail = (r.tail + 1) % MaxTasks, !.len = r.len + 1]
      BY <2>2, Zenon DEF BufPushBack
    <3>2. [r.buf EXCEPT ![r.tail] = id] \in [Slots -> Slots \cup {NoTask}] /\ r.len + 1 \in 0..MaxTasks
      BY <1>1, <2>2, MaxTasksAssumption
    <3> QED
      BY <1>2, <3>1, <3>2, Zenon DEF BufType
  <2> QED
    BY <2>1, <2>2, Zenon
<1>4. BufPopFront(r) \in BufType
  <2>1. CASE r.len = 0
    BY <2>1, Zenon DEF BufPopFront
  <2>2. CASE r.len # 0
    <3>1. BufPopFront(r) = [r EXCEPT !.head = (r.head + 1) % MaxTasks, !.len = r.len - 1]
      BY <2>2, Zenon DEF BufPopFront
    <3>2. r.len - 1 \in 0..MaxTasks
      BY <1>1, <2>2, MaxTasksAssumption
    <3> QED
      BY <1>2, <3>1, <3>2, Zenon DEF BufType
  <2> QED
    BY <2>1, <2>2, Zenon
<1> QED
  BY <1>3, <1>4, Zenon

\* remove, entry by entry: kept[n] is what it keeps of the first n entries.
LEMMA RemoveUnfolds ==
  ASSUME NEW s \in Seq(Slots), NEW slot
  PROVE  \E kept \in [0..Len(s) -> Seq(Slots)] :
           /\ kept[0] = <<>>
           /\ \A n \in 1..Len(s) :
                kept[n] = IF s[n] = slot THEN kept[n - 1] ELSE Append(kept[n - 1], s[n])
           /\ remove(s, slot) = kept[Len(s)]
<1> DEFINE Z == Len(s)
           S == Seq(Slots)
           base == <<>>
           Keep(r, n) == IF s[n] = slot THEN r ELSE Append(r, s[n])
           step == [n \in 1..Z |-> [r \in S |-> Keep(r, n)]]
           Equation(k) == k = [n \in 0..Z |-> IF n = 0 THEN base ELSE Keep(k[n - 1], n)]
           kept == CHOOSE k : Equation(k)
<1>1. Z \in Nat /\ base \in S
  BY LenProperties
<1>2. \A n \in 1..Z, r \in S : Keep(r, n) \in S
  BY ElementOfSeq, AppendProperties, Zenon
<1>3. remove(s, slot) = kept[Z]
  BY Zenon DEF remove
<1> HIDE DEF Z, S, base, Keep
<1>4. \E k : Equation(k)
  <2>1. step \in [1..Z -> [S -> S]]
    BY <1>2, Zenon
  <2>2. \A n \in 1..Z, r \in S : step[n][r] = Keep(r, n)
    BY Zenon
  <2> HIDE DEF step
  <2>3. PICK k : IsRecursion(Z, S, base, step, k)
    BY <1>1, <2>1, RecursionExists, Zenon
  <2>4. \A n \in 1..Z : k[n] = Keep(k[n - 1], n)
    BY <1>1, <2>2, <2>3 DEF IsRecursion
  <2>5. Equation(k)
    BY <1>1, <2>3, <2>4 DEF IsRecursion
  <2> QED
    BY <2>5, Zenon
<1>5. Equation(kept)
  BY <1>4, Zenon
<1> HIDE DEF kept
<1>6. kept[0] = base /\ \A n \in 1..Z : kept[n] = Keep(kept[n - 1], n)
  BY <1>1, <1>5
<1>7. kept \in [0..Z -> S]
  <2> DEFINE P == {n \in 0..Z : kept[n] \in S}
  <2>1. 0 \in P
    BY <1>1, <1>6
  <2>2. ASSUME NEW n \in 1..Z, n - 1 \in P PROVE n \in P
    BY <1>1, <1>2, <1>6, <2>2
  <2>3. \A n \in 0..Z : n \in P
    <3> HIDE DEF P
    <3> QED
      BY <1>1, <2>1, <2>2, SetInduction, Zenon
  <2>4. \A n \in 0..Z : kept[n] \in S
    BY <2>3, Zenon
  <2>5. DOMAIN kept = 0..Z
    BY <1>5, Zenon
  <2> QED
    BY <1>5, <2>4, <2>5, Zenon
<1> QED
  BY <1>3, <1>6, <1>7, Zenon DEF Z, S, base, Keep


\* The two queues of BufRemove after each entry.
Copies(copied, r, id) ==
  /\ copied \in [0..MaxTasks -> [rest : BufType, new : BufType]]
  /\ copied[0] = [rest |-> r, new |-> NewQueue]
  /\ \A n \in 1..MaxTasks :
       LET c == copied[n - 1]
           tid == c.rest.buf[c.rest.head]
       IN copied[n] = IF c.rest.len = 0 THEN c
                      ELSE [rest |-> BufPopFront(c.rest),
                            new |-> IF tid = id THEN c.new ELSE BufPushBack(c.new, tid)]
  /\ BufRemove(r, id) = copied[MaxTasks].new

\* The loop of remove, pop by pop.
LEMMA BufRemoveUnfolds ==
  ASSUME NEW r \in BufType, NEW id
  PROVE  \E copied : Copies(copied, r, id)
<1> DEFINE Z == MaxTasks
           S == [rest : BufType, new : BufType]
           base == [rest |-> r, new |-> NewQueue]
           Copy(c) == IF c.rest.len = 0 THEN c
                      ELSE [rest |-> BufPopFront(c.rest),
                            new |-> IF c.rest.buf[c.rest.head] = id THEN c.new
                                    ELSE BufPushBack(c.new, c.rest.buf[c.rest.head])]
           step == [n \in 1..Z |-> [c \in S |-> Copy(c)]]
           Equation(k) == k = [n \in 0..Z |-> IF n = 0 THEN base ELSE Copy(k[n - 1])]
           copied == CHOOSE k : Equation(k)
<1>1. Z \in Nat /\ base \in S
  <2>1. NewQueue \in BufType
    BY MaxTasksAssumption DEF NewQueue, BufType, Slots
  <2> QED
    BY <2>1, MaxTasksAssumption, Zenon
<1>2. ASSUME NEW c \in S PROVE Copy(c) \in S
  <2>1. /\ c.rest \in BufType /\ c.new \in BufType
        /\ c.rest.buf[c.rest.head] \in Slots \cup {NoTask}
    BY Zenon DEF BufType
  <2>2. BufPopFront(c.rest) \in BufType /\ BufPushBack(c.new, c.rest.buf[c.rest.head]) \in BufType
    BY <2>1, BufTypeKept, Zenon
  <2> QED
    BY <2>1, <2>2, Zenon
<1>3. BufRemove(r, id) = copied[Z].new
  BY Zenon DEF BufRemove
<1> HIDE DEF Z, S, base, Copy
<1>4. \E k : Equation(k)
  <2>1. step \in [1..Z -> [S -> S]]
    BY <1>2, Zenon
  <2>2. \A n \in 1..Z, c \in S : step[n][c] = Copy(c)
    BY Zenon
  <2> HIDE DEF step
  <2>3. PICK k : IsRecursion(Z, S, base, step, k)
    BY <1>1, <2>1, RecursionExists, Zenon
  <2>4. \A n \in 1..Z : k[n] = Copy(k[n - 1])
    BY <1>1, <2>2, <2>3 DEF IsRecursion
  <2>5. Equation(k)
    BY <1>1, <2>3, <2>4 DEF IsRecursion
  <2> QED
    BY <2>5, Zenon
<1>5. Equation(copied)
  BY <1>4, Zenon
<1> HIDE DEF copied
<1>6. copied[0] = base /\ \A n \in 1..Z : copied[n] = Copy(copied[n - 1])
  BY <1>1, <1>5
<1>7. copied \in [0..Z -> S]
  <2> DEFINE P == {n \in 0..Z : copied[n] \in S}
  <2>1. 0 \in P
    BY <1>1, <1>6
  <2>2. ASSUME NEW n \in 1..Z, n - 1 \in P PROVE n \in P
    BY <1>1, <1>2, <1>6, <2>2
  <2>3. \A n \in 0..Z : n \in P
    <3> HIDE DEF P
    <3> QED
      BY <1>1, <2>1, <2>2, SetInduction, Zenon
  <2>4. \A n \in 0..Z : copied[n] \in S
    BY <2>3, Zenon
  <2>5. DOMAIN copied = 0..Z
    BY <1>5, Zenon
  <2> QED
    BY <1>5, <2>4, <2>5, Zenon
<1> QED
  BY <1>3, <1>6, <1>7, Zenon DEF Z, S, base, Copy, Copies

\* The state of remove's loop after n pops of the entries s: rest holds the
\* others, new the kept ones k.
Copied(c, s, k, n) ==
  /\ BufSound(c.rest) /\ c.rest.len = Len(s) - n
  /\ \A i \in 1..(Len(s) - n) : Contents(c.rest)[i] = s[n + i]
  /\ BufSound(c.new) /\ Contents(c.new) = k /\ Len(k) <= n

\* One turn of the loop.
LEMMA CopiedStep ==
  ASSUME NEW c, NEW id, NEW s \in Seq(Slots), Len(s) <= MaxTasks, NEW k \in Seq(Slots),
         NEW n \in 1..Len(s), Copied(c, s, k, n - 1)
  PROVE  /\ c.rest.len # 0
         /\ Copied([rest |-> BufPopFront(c.rest),
                    new |-> IF c.rest.buf[c.rest.head] = id THEN c.new
                            ELSE BufPushBack(c.new, c.rest.buf[c.rest.head])],
                   s, IF s[n] = id THEN k ELSE Append(k, s[n]), n)
<1> DEFINE rest == c.rest
           new == c.new
           p == BufPopFront(rest)
           tid == rest.buf[rest.head]
           L == Len(s)
<1>1. L \in Nat /\ n \in Nat /\ n >= 1 /\ n <= L /\ L <= MaxTasks /\ s[n] \in Slots
  BY LenProperties, ElementOfSeq
<1>2. /\ BufSound(rest) /\ rest.len = L - (n - 1)
      /\ \A i \in 1..(L - (n - 1)) : Contents(rest)[i] = s[(n - 1) + i]
      /\ BufSound(new) /\ Contents(new) = k /\ Len(k) <= n - 1
  BY Zenon DEF Copied
<1>3. rest.len # 0
  BY <1>1, <1>2
<1>4. /\ BufSound(p) /\ Contents(rest) # <<>> /\ Contents(p) = Tail(Contents(rest))
      /\ tid = Head(Contents(rest)) /\ p.len = rest.len - 1
  BY <1>2, <1>3, BufPopFrontFacts, Zenon
<1>5. Contents(rest) \in Seq(Slots) /\ Len(Contents(rest)) = L - (n - 1)
  BY <1>2, BufContentsFacts, Zenon DEF BufSound
<1>6. /\ Head(Contents(rest)) = Contents(rest)[1]
      /\ \A i \in 1..(Len(Contents(rest)) - 1) : Tail(Contents(rest))[i] = Contents(rest)[i + 1]
  <2>1. Len(Contents(rest)) # 0
    BY <1>5
  <2> QED
    BY <1>5, <2>1, Shortened
<1> HIDE DEF rest, new, p, tid, L
<1>7. tid = s[n]
  <2>1. 1 \in 1..(L - (n - 1)) /\ (n - 1) + 1 = n
    BY <1>1
  <2> QED
    BY <1>2, <1>4, <1>6, <2>1, Zenon
<1>8. \A i \in 1..(L - n) : Contents(p)[i] = s[n + i]
  <2>1. ASSUME NEW i \in 1..(L - n)
        PROVE  /\ i \in 1..((L - (n - 1)) - 1) /\ i + 1 \in 1..(L - (n - 1))
               /\ (n - 1) + (i + 1) = n + i
    BY <1>1
  <2> QED
    BY <1>2, <1>4, <1>5, <1>6, <2>1
<1>9. p.len = L - n
  BY <1>1, <1>2, <1>4
<1>10. Len(k) \in Nat
  BY LenProperties, Zenon
<1>11. CASE s[n] = id
  <2>1. Len(k) <= n
    BY <1>1, <1>2, <1>10, SMTT(20)
  <2> QED
    BY <1>2, <1>3, <1>4, <1>7, <1>8, <1>9, <1>11, <2>1, Zenon DEF Copied, rest, new, p, tid, L
<1>12. CASE s[n] # id
  <2> DEFINE m == BufPushBack(new, tid)
  <2>1. BufSound(m) /\ Contents(m) = push_back(k, s[n])
    BY <1>1, <1>2, <1>7, BufPushBackFacts, Zenon
  <2>2. push_back(k, s[n]) = Append(k, s[n])
    BY <1>1, <1>2, <1>10, MaxTasksAssumption DEF push_back
  <2>3. Len(Append(k, s[n])) <= n
    BY <1>1, <1>2, <1>10, Appended
  <2> QED
    BY <1>2, <1>3, <1>4, <1>7, <1>8, <1>9, <1>12, <2>1, <2>2, <2>3, Zenon DEF Copied, rest, new, p, tid, L
<1> QED
  BY <1>11, <1>12, Zenon

\* A new queue is empty.
LEMMA NewQueueFacts == BufSound(NewQueue) /\ Contents(NewQueue) = <<>>
<1>1. NewQueue \in BufType
  BY MaxTasksAssumption DEF NewQueue, BufType, Slots
<1>2. NewQueue.tail = 0 /\ NewQueue.head = 0 /\ NewQueue.len = 0
  BY Zenon DEF NewQueue
<1>3. 0 \in Slots
  BY MaxTasksAssumption DEF Slots
<1>4. Cell(0, 0 + 1) = 0
  BY <1>3, CellFacts
<1>5. Contents(NewQueue) = <<>>
  <2>1. <<>> \in Seq(Slots) /\ Len(<<>>) = 0
    BY EmptySeq, Zenon
  <2>2. \A i \in 1..0 : FALSE
    OBVIOUS
  <2> QED
    BY <1>1, <1>2, <2>1, <2>2, ContentsAre, Zenon
<1> QED
  BY <1>1, <1>2, <1>4, <1>5, EmptySeq, Zenon DEF BufSound

\* remove on the buffer is remove on its contents.
LEMMA BufRemoveFacts ==
  ASSUME NEW r, BufSound(r), NEW id \in Slots
  PROVE  /\ BufSound(BufRemove(r, id))
         /\ Contents(BufRemove(r, id)) = remove(Contents(r), id)
<1> DEFINE s == Contents(r)
           L == Len(s)
<1>1. r \in BufType /\ s \in Seq(Slots) /\ L = r.len /\ L \in Nat /\ L <= MaxTasks
  BY BufContentsFacts, Zenon DEF BufSound
<1>2. PICK copied : Copies(copied, r, id)
  BY <1>1, BufRemoveUnfolds, Zenon
<1> HIDE DEF s
<1>3. PICK kept \in [0..L -> Seq(Slots)] :
        /\ kept[0] = <<>>
        /\ \A n \in 1..L : kept[n] = IF s[n] = id THEN kept[n - 1] ELSE Append(kept[n - 1], s[n])
        /\ remove(s, id) = kept[L]
  BY <1>1, RemoveUnfolds, Zenon
<1> HIDE DEF L
<1>4. \A n \in 0..L : Copied(copied[n], s, kept[n], n)
  <2> DEFINE P == {n \in 0..L : Copied(copied[n], s, kept[n], n)}
  <2>1. 0 \in P
    <3>1. /\ copied[0].rest = r /\ copied[0].new = NewQueue /\ kept[0] = <<>>
      <4>1. copied[0] = [rest |-> r, new |-> NewQueue] /\ kept[0] = <<>>
        BY <1>2, <1>3, Zenon DEF Copies
      <4> QED
        BY <4>1
    <3>2. \A i \in 1..(L - 0) : s[0 + i] = s[i]
      BY <1>1
    <3>3. L - 0 = L /\ Len(<<>>) <= 0 /\ L = Len(s)
      BY <1>1 DEF L
    <3>4. Copied(copied[0], s, kept[0], 0)
      BY <1>1, <3>1, <3>2, <3>3, NewQueueFacts, Zenon DEF Copied, s
    <3> QED
      BY <1>1, <3>4
  <2>2. ASSUME NEW n \in 1..L, n - 1 \in P PROVE n \in P
    <3>1. /\ Copied(copied[n - 1], s, kept[n - 1], n - 1) /\ n \in 1..MaxTasks /\ n \in 0..L
          /\ n \in 1..Len(s) /\ kept[n - 1] \in Seq(Slots)
      BY <1>1, <1>3, <2>2, MaxTasksAssumption DEF L
    <3>2. Len(s) <= MaxTasks
      BY <1>1, Zenon DEF L
    <3> DEFINE c == copied[n - 1]
               next == [rest |-> BufPopFront(c.rest),
                        new |-> IF c.rest.buf[c.rest.head] = id THEN c.new
                                ELSE BufPushBack(c.new, c.rest.buf[c.rest.head])]
    <3>3. /\ c.rest.len # 0
          /\ Copied(next, s, IF s[n] = id THEN kept[n - 1] ELSE Append(kept[n - 1], s[n]), n)
      BY <1>1, <3>1, <3>2, CopiedStep, Zenon
    <3>4. copied[n] = next
      BY <1>2, <3>1, <3>3, Zenon DEF Copies
    <3>5. kept[n] = IF s[n] = id THEN kept[n - 1] ELSE Append(kept[n - 1], s[n])
      BY <1>3, Zenon
    <3>6. Copied(copied[n], s, kept[n], n)
      BY <3>3, <3>4, <3>5, Zenon
    <3> QED
      BY <3>1, <3>6, Zenon
  <2>3. \A n \in 0..L : n \in P
    <3> HIDE DEF P
    <3> QED
      BY <1>1, <2>1, <2>2, SetInduction, Zenon
  <2> QED
    BY <2>3, Zenon
<1>5. copied[MaxTasks] = copied[L]
  <2> DEFINE P == {n \in 0..MaxTasks : n >= L => copied[n] = copied[L]}
  <2>1. copied[L].rest.len = 0
    <3>1. Copied(copied[L], s, kept[L], L)
      BY <1>1, <1>4
    <3> QED
      BY <1>1, <3>1 DEF Copied, L
  <2>2. 0 \in P
    BY <1>1, MaxTasksAssumption
  <2>3. ASSUME NEW n \in 1..MaxTasks, n - 1 \in P PROVE n \in P
    <3>1. n \in 0..MaxTasks /\ n - 1 \in Nat
      BY MaxTasksAssumption
    <3>2. CASE n > L
      <4>1. copied[n - 1] = copied[L]
        BY <1>1, <2>3, <3>2, MaxTasksAssumption
      <4>2. copied[n] = copied[n - 1]
        BY <1>2, <2>1, <4>1, Zenon DEF Copies
      <4> QED
        BY <3>1, <4>1, <4>2, Zenon
    <3>3. CASE ~(n > L)
      <4>1. n >= L => n = L
        BY <1>1, <3>1, <3>3
      <4> QED
        BY <3>1, <4>1, Zenon
    <3> QED
      BY <3>2, <3>3, Zenon
  <2>4. \A n \in 0..MaxTasks : n \in P
    <3> HIDE DEF P
    <3> QED
      BY <2>2, <2>3, SetInduction, MaxTasksAssumption, Zenon
  <2>5. MaxTasks \in 0..MaxTasks /\ MaxTasks >= L
    BY <1>1, MaxTasksAssumption
  <2> QED
    BY <2>4, <2>5, Zenon
<1>6. Copied(copied[L], s, kept[L], L)
  BY <1>1, <1>4
<1> QED
  BY <1>2, <1>3, <1>5, <1>6, Zenon DEF Copied, Copies, s

\* The circular buffer implements the bounded sequence the scheduler is
\* written against, for every MAX_TASKS.
THEOREM TaskQueueImplementsRunQueue == BufSpec => RefinesRunQueue
<1>1. BufContents = Contents(q)
  BY Zenon DEF BufContents, Contents, Cell
<1>2. BufInit => BufSound(q) /\ Deque!QueueInit
  BY <1>1, NewQueueFacts, Zenon DEF BufInit, Deque!QueueInit
<1>3. ASSUME BufSound(q), [BufNext]_bufVars
      PROVE  BufSound(q)' /\ [Deque!QueueNext]_(Deque!queueVars)
  <2>1. BufContents' = Contents(q')
    BY Zenon DEF BufContents, Contents, Cell
  <2>2. CASE UNCHANGED bufVars
    BY <1>1, <1>3, <2>1, <2>2, Zenon DEF bufVars, Deque!queueVars
  <2>3. ASSUME NEW id \in Slots, PushBack(id)
        PROVE  BufSound(q)' /\ Deque!QueueNext
    BY <1>1, <1>3, <2>1, <2>3, BufPushBackFacts, Zenon
       DEF PushBack, Deque!QueueNext, Deque!QueueEdit, Deque!push_back, push_back, Deque!Slots, Slots
  <2>4. ASSUME NEW id \in Slots, PushFront(id)
        PROVE  BufSound(q)' /\ Deque!QueueNext
    BY <1>1, <1>3, <2>1, <2>4, BufPushFrontFacts, Zenon
       DEF PushFront, Deque!QueueNext, Deque!QueueEdit, Deque!push_front, push_front, Deque!Slots, Slots
  <2>5. ASSUME NEW id \in Slots, Remove(id)
        PROVE  BufSound(q)' /\ Deque!QueueNext
    <3>1. BufSound(q') /\ Contents(q') = remove(Contents(q), id)
      BY <1>3, <2>5, BufRemoveFacts, Zenon DEF Remove
    <3>2. Deque!remove(BufContents, id) = remove(BufContents, id)
      BY Zenon DEF Deque!remove, remove
    <3>3. Deque!QueueEdit("remove", id, Deque!remove(BufContents, id))
      BY <1>1, <2>1, <2>5, <3>1, <3>2, Zenon DEF Remove, Deque!QueueEdit
    <3> QED
      BY <3>1, <3>3, Zenon DEF Deque!QueueNext, Deque!Slots, Slots
  <2>6. CASE PopFront
    BY <1>1, <1>3, <2>1, <2>6, BufPopFrontFacts, Zenon
       DEF PopFront, Deque!QueueNext, Deque!QueuePop
  <2> QED
    BY <1>3, <2>2, <2>3, <2>4, <2>5, <2>6, Zenon DEF BufNext
<1> QED
  BY <1>2, <1>3, PTL DEF BufSpec, RefinesRunQueue, Deque!QueueSpec

-----------------------------------------------------------------------------
(* SpscRing: the arithmetic of wrapping counters *)

\* The sizes, as the provers need them.
LEMMA WidthFacts ==
  /\ N \in Nat \ {0} /\ Width \in Nat \ {0} /\ N < Width
  /\ \E k \in Int : Width = N * k
<1>1. PICK k \in 2..Width : Width = k * N
  BY RingAssumption, Zenon
<1>2. N < Width /\ Width = N * k
  BY <1>1, RingAssumption
<1> QED
  BY <1>1, <1>2, RingAssumption

\* A full turn of the counter is a whole number of turns of the buffer.
LEMMA SlotWrap ==
  ASSUME NEW c \in Int
  PROVE  Slot(c + Width) = Slot(c)
<1>1. PICK k \in Int : Width = N * k
  BY WidthFacts, Zenon
<1>2. (c + (N * k)) % N = c % N
  BY ModShift, WidthFacts, Zenon
<1> QED
  BY <1>1, <1>2, Zenon DEF Slot

\* wrapping_sub, without %.
LEMMA SubFacts ==
  ASSUME NEW h \in Counter, NEW t \in Counter
  PROVE  /\ wrapping_sub(h, t) = IF h >= t THEN h - t ELSE h - t + Width
         /\ wrapping_sub(h, t) \in Counter
         /\ wrapping_sub(h, t) = 0 <=> h = t
<1>1. wrapping_sub(h, t) = IF h >= t THEN h - t ELSE h - t + Width
  BY WrapDiff, WidthFacts, Zenon DEF wrapping_sub, Counter
<1> QED
  BY <1>1, WidthFacts DEF Counter

\* wrapping_add of one, without %.
LEMMA AddFacts ==
  ASSUME NEW c \in Counter
  PROVE  /\ wrapping_add(c, 1) = IF c + 1 = Width THEN 0 ELSE c + 1
         /\ wrapping_add(c, 1) \in Counter
<1>1. wrapping_add(c, 1) = IF c + 1 = Width THEN 0 ELSE c + 1
  BY WrapNext, WidthFacts, Zenon DEF wrapping_add, Counter
<1> QED
  BY <1>1, WidthFacts DEF Counter

\* Storing head + 1 adds one value to a ring that is not full.
LEMMA PublishAdds ==
  ASSUME NEW h \in Counter, NEW t \in Counter, wrapping_sub(h, t) < N
  PROVE  wrapping_sub(wrapping_add(h, 1), t) = wrapping_sub(h, t) + 1
<1> DEFINE h1 == wrapping_add(h, 1)
<1>1. h1 \in Counter /\ h1 = IF h + 1 = Width THEN 0 ELSE h + 1
  BY AddFacts, Zenon
<1>2. wrapping_sub(h, t) = IF h >= t THEN h - t ELSE h - t + Width
  BY SubFacts, Zenon
<1> HIDE DEF h1
<1>3. wrapping_sub(h1, t) = IF h1 >= t THEN h1 - t ELSE h1 - t + Width
  BY <1>1, SubFacts, Zenon
<1>4. wrapping_sub(h1, t) = wrapping_sub(h, t) + 1
  BY <1>1, <1>2, <1>3, WidthFacts DEF Counter
<1> QED
  BY <1>4, Zenon DEF h1

\* Storing tail + 1 takes one value from a ring that is not empty.
LEMMA ReleaseTakes ==
  ASSUME NEW h \in Counter, NEW t \in Counter, wrapping_sub(h, t) > 0
  PROVE  wrapping_sub(h, wrapping_add(t, 1)) = wrapping_sub(h, t) - 1
<1> DEFINE t1 == wrapping_add(t, 1)
<1>1. t1 \in Counter /\ t1 = IF t + 1 = Width THEN 0 ELSE t + 1
  BY AddFacts, Zenon
<1>2. wrapping_sub(h, t) = IF h >= t THEN h - t ELSE h - t + Width
  BY SubFacts, Zenon
<1> HIDE DEF t1
<1>3. wrapping_sub(h, t1) = IF h >= t1 THEN h - t1 ELSE h - t1 + Width
  BY <1>1, SubFacts, Zenon
<1>4. wrapping_sub(h, t1) = wrapping_sub(h, t) - 1
  BY <1>1, <1>2, <1>3, WidthFacts DEF Counter
<1> QED
  BY <1>4, Zenon DEF t1

\* The slot of head is the one after the last value in the ring.
LEMMA SlotOfHead ==
  ASSUME NEW h \in Counter, NEW t \in Counter
  PROVE  Slot(t + wrapping_sub(h, t)) = Slot(h)
<1>1. CASE h >= t
  <2>1. t + wrapping_sub(h, t) = h
    BY <1>1, SubFacts DEF Counter
  <2> QED
    BY <2>1, Zenon
<1>2. CASE h < t
  <2>1. t + wrapping_sub(h, t) = h + Width
    BY <1>2, SubFacts, WidthFacts DEF Counter
  <2>2. h \in Int
    BY DEF Counter
  <2> QED
    BY <2>1, <2>2, SlotWrap, Zenon
<1> QED
  BY <1>1, <1>2 DEF Counter

\* The buffer position i after the next tail is position i + 1 after tail.
LEMMA SlotOfNextTail ==
  ASSUME NEW t \in Counter, NEW i \in Int
  PROVE  Slot(wrapping_add(t, 1) + i) = Slot(t + 1 + i)
<1>1. CASE t + 1 = Width
  <2>1. wrapping_add(t, 1) + i = i /\ t + 1 + i = i + Width
    BY <1>1, AddFacts, WidthFacts DEF Counter
  <2> QED
    BY <2>1, SlotWrap, Zenon
<1>2. CASE t + 1 # Width
  BY <1>2, AddFacts, Zenon
<1> QED
  BY <1>1, <1>2, Zenon

\* A counter names a slot of the buffer.
LEMMA SlotType ==
  ASSUME NEW c \in Int
  PROVE  Slot(c) \in 0..(N - 1)
BY DivMod, WidthFacts, Zenon DEF Slot

\* Positions less than a capacity apart are different slots.
LEMMA SlotsApart ==
  ASSUME NEW a \in Int, NEW b \in Int, a < b, b - a < N
  PROVE  Slot(a) # Slot(b)
BY ModApart, WidthFacts, Zenon DEF Slot

\* In a ring neither empty nor full the two counters name different slots.
LEMMA HeadTailApart ==
  ASSUME NEW h \in Counter, NEW t \in Counter,
         0 < wrapping_sub(h, t), wrapping_sub(h, t) < N
  PROVE  Slot(h) # Slot(t)
<1> DEFINE b == t + wrapping_sub(h, t)
<1>0. wrapping_sub(h, t) \in Int /\ t \in Int /\ N \in Int
  BY SubFacts, WidthFacts DEF Counter
<1>1. t \in Int /\ b \in Int /\ t < b /\ b - t < N
  BY <1>0
<1>2. Slot(b) = Slot(h)
  BY SlotOfHead, Zenon
<1> HIDE DEF b
<1> QED
  BY <1>1, <1>2, SlotsApart, Zenon

-----------------------------------------------------------------------------
(* The inductive invariant.  NoSlotRace and LenInRange are not inductive:  *)
(* what makes them so is that a check made before a step of the other      *)
(* caller is still good after it, because each caller can only move its    *)
(* own counter away from the other's decision.                             *)

\* The room try_push found is still there when it writes and publishes, and
\* the value it published is the one it was given.
PushInFlight ==
  /\ pp # "idle" => Used < N /\ pval \in Msgs
  /\ pp = "publish" => buffer[Slot(head)] = pval

\* The value try_pop found is still there when it frees the slot.
PopInFlight ==
  /\ cp \in {"read", "publish"} => Used > 0
  /\ cp = "publish" => cval = buffer[Slot(tail)]

\* The head len() loaded is between tail and the present head.
LenInFlight == cp = "len" => wrapping_sub(chead, tail) <= Used

RingInv ==
  /\ RingTypeOK /\ NeverOverfull /\ LenInRange
  /\ PushInFlight /\ PopInFlight /\ LenInFlight

\* The invariant holds of a new ring.
LEMMA InitInv == RingInit => RingInv
<1> SUFFICES ASSUME RingInit PROVE RingInv
  BY Zenon
<1>1. 0 \in Counter
  BY WidthFacts DEF Counter
<1>2. Used = 0
  BY <1>1, SubFacts, Zenon DEF RingInit, Used
<1>3. RingTypeOK
  BY <1>1, Zenon DEF RingInit, RingTypeOK
<1> QED
  BY <1>2, <1>3, WidthFacts DEF RingInit, RingInv, NeverOverfull, LenInRange,
     PushInFlight, PopInFlight, LenInFlight

\* Every step of either caller keeps the invariant.
LEMMA NextInv == RingInv /\ [RingNext]_ringVars => RingInv'
<1> SUFFICES ASSUME RingInv, [RingNext]_ringVars PROVE RingInv'
  BY Zenon
<1> USE DEF RingInv
<1>0. /\ head \in Counter /\ tail \in Counter /\ chead \in Counter
      /\ Slot(head) \in 0..(N - 1) /\ Slot(tail) \in 0..(N - 1)
      /\ Used \in Counter /\ N \in Nat
  BY SubFacts, SlotType, WidthFacts DEF RingTypeOK, Used, Counter
<1>1. ASSUME NEW v \in Msgs, PushCheck(v) PROVE RingInv'
  BY <1>1, Zenon DEF PushCheck, consVars, RingTypeOK, NeverOverfull, LenInRange, Used,
     PushInFlight, PopInFlight, LenInFlight
<1>2. CASE PushErr
  BY <1>2, Zenon DEF PushErr, consVars, RingTypeOK, NeverOverfull, LenInRange, Used,
     PushInFlight, PopInFlight, LenInFlight
<1>3. CASE PushWrite
  <2>1. RingTypeOK' /\ Used' = Used /\ NeverOverfull' /\ LenInRange' /\ LenInFlight'
    BY <1>0, <1>3, Zenon DEF PushWrite, consVars, RingTypeOK, NeverOverfull, LenInRange,
       Used, LenInFlight, PushInFlight
  <2>2. PushInFlight'
    BY <1>0, <1>3, <2>1, Zenon DEF PushWrite, RingTypeOK, PushInFlight
  <2>3. cp = "publish" => Slot(head) # Slot(tail)
    <3> SUFFICES ASSUME cp = "publish" PROVE Slot(head) # Slot(tail)
      BY Zenon
    <3>1. 0 < Used /\ Used < N
      BY <1>3, Zenon DEF PushWrite, PushInFlight, PopInFlight
    <3> QED
      BY <1>0, <3>1, HeadTailApart, Zenon DEF Used
  <2>4. PopInFlight'
    BY <1>0, <1>3, <2>1, <2>3, Zenon DEF PushWrite, consVars, RingTypeOK, PopInFlight
  <2> QED
    BY <2>1, <2>2, <2>4, Zenon
<1>4. CASE PushPublish
  <2>1. Used' = Used + 1 /\ Used < N
    BY <1>0, <1>4, PublishAdds, Zenon DEF PushPublish, Used, PushInFlight
  <2>2. RingTypeOK'
    BY <1>0, <1>4, AddFacts, Zenon DEF PushPublish, consVars, RingTypeOK
  <2>3. LenInFlight'
    <3>1. wrapping_sub(chead, tail) \in Int
      BY <1>0, SubFacts DEF Counter
    <3> QED
      BY <1>0, <1>4, <2>1, <3>1 DEF PushPublish, consVars, LenInFlight, Counter
  <2> QED
    BY <1>0, <1>4, <2>1, <2>2, <2>3 DEF PushPublish, consVars, NeverOverfull,
       LenInRange, PushInFlight, PopInFlight, Counter
<1>5. CASE ProducerLen
  <2>1. lenRes' = Used
    BY <1>5, Zenon DEF ProducerLen, Used
  <2> QED
    BY <1>0, <1>5, <2>1 DEF ProducerLen, prodVars, consVars, RingTypeOK,
       NeverOverfull, LenInRange, Used, PushInFlight, PopInFlight, LenInFlight,
       Counter
<1>6. CASE PopCheck
  <2>1. Used > 0
    BY <1>0, <1>6, SubFacts DEF PopCheck, Used, Counter
  <2> QED
    BY <1>6, <2>1, Zenon DEF PopCheck, prodVars, RingTypeOK, NeverOverfull, LenInRange,
       Used, PushInFlight, PopInFlight, LenInFlight
<1>7. CASE PopNone
  BY <1>7, Zenon DEF PopNone, prodVars, RingTypeOK, NeverOverfull, LenInRange, Used,
     PushInFlight, PopInFlight, LenInFlight
<1>8. CASE PopRead
  BY <1>0, <1>8, Zenon DEF PopRead, prodVars, RingTypeOK, NeverOverfull, LenInRange, Used,
     PushInFlight, PopInFlight, LenInFlight
<1>9. CASE PopPublish
  <2>1. Used' = Used - 1 /\ Used > 0
    BY <1>0, <1>9, ReleaseTakes, Zenon DEF PopPublish, Used, PopInFlight
  <2>2. RingTypeOK'
    BY <1>0, <1>9, AddFacts, Zenon DEF PopPublish, prodVars, RingTypeOK
  <2> QED
    BY <1>0, <1>9, <2>1, <2>2 DEF PopPublish, prodVars, NeverOverfull,
       LenInRange, PushInFlight, PopInFlight, LenInFlight, Counter
<1>10. CASE ConsumerLenLoadHead
  BY <1>0, <1>10 DEF ConsumerLenLoadHead, prodVars, RingTypeOK, NeverOverfull,
     LenInRange, Used, PushInFlight, PopInFlight, LenInFlight, Counter
<1>11. CASE ConsumerLen
  <2>1. lenRes' \in Counter /\ lenRes' <= Used
    BY <1>0, <1>11, SubFacts, Zenon DEF ConsumerLen, LenInFlight
  <2> QED
    BY <1>0, <1>11, <2>1 DEF ConsumerLen, prodVars, RingTypeOK, NeverOverfull,
       LenInRange, Used, PushInFlight, PopInFlight, LenInFlight, Counter
<1>12. CASE UNCHANGED ringVars
  BY <1>12 DEF ringVars, prodVars, consVars, RingTypeOK, NeverOverfull, LenInRange,
     Used, PushInFlight, PopInFlight, LenInFlight
<1> QED
  BY <1>1, <1>2, <1>3, <1>4, <1>5, <1>6, <1>7, <1>8, <1>9, <1>10, <1>11, <1>12, Zenon
     DEF RingNext, ProducerStep, ConsumerStep

\* RingTypeOK holds in every reachable state of the ring.
THEOREM RingTypeCorrect == RingSpec => []RingTypeOK
<1>1. RingInv => RingTypeOK
  BY Zenon DEF RingInv
<1> QED
  BY <1>1, InitInv, NextInv, PTL DEF RingSpec

\* For every capacity and width, try_push and try_pop never touch the same
\* slot at the same time.
THEOREM RingNoSlotRace == RingSpec => []NoSlotRace
<1>1. RingInv => NoSlotRace
  <2> SUFFICES ASSUME RingInv, pp = "write", cp = "read"
               PROVE  Slot(head) # Slot(tail)
    BY Zenon DEF NoSlotRace
  <2>1. head \in Counter /\ tail \in Counter /\ 0 < Used /\ Used < N
    BY Zenon DEF RingInv, RingTypeOK, PushInFlight, PopInFlight
  <2> QED
    BY <2>1, HeadTailApart, Zenon DEF Used
<1> QED
  BY <1>1, InitInv, NextInv, PTL DEF RingSpec

\* For every capacity and width, the ring never holds more than N values and
\* len() never reports a number outside 0..N.
THEOREM RingBounded == RingSpec => [](NeverOverfull /\ LenInRange)
<1>1. RingInv => NeverOverfull /\ LenInRange
  BY Zenon DEF RingInv
<1> QED
  BY <1>1, InitInv, NextInv, PTL DEF RingSpec

-----------------------------------------------------------------------------
(* The ring implements BoundedFifo *)

\* RingContents is a sequence as long as the distance of the counters.
ContentsFacts ==
  /\ RingContents \in Seq(Msgs \cup {None})
  /\ Len(RingContents) = Used
  /\ Used \in Nat
  /\ \A i \in 1..Used : RingContents[i] = buffer[Slot(tail + i - 1)]

\* The abstract queue is well formed in every state of the invariant.
LEMMA ContentsType == RingInv => ContentsFacts
<1> SUFFICES ASSUME RingInv PROVE ContentsFacts
  BY Zenon
<1>1. Used \in Nat
  BY SubFacts DEF RingInv, RingTypeOK, Used, Counter
<1>2. ASSUME NEW i \in 1..Used
      PROVE  buffer[Slot(tail + i - 1)] \in Msgs \cup {None}
  <2>1. tail + i - 1 \in Int
    BY <1>1 DEF RingInv, RingTypeOK, Counter
  <2>2. Slot(tail + i - 1) \in 0..(N - 1)
    BY <2>1, SlotType, Zenon
  <2> QED
    BY <2>2, Zenon DEF RingInv, RingTypeOK
<1>3. RingContents \in [1..Used -> Msgs \cup {None}]
  BY <1>2, Zenon DEF RingContents
<1> QED
  BY <1>1, <1>3 DEF RingContents, ContentsFacts

\* The same of the next state.
LEMMA ContentsTypeNext == RingInv' => ContentsFacts'
<1>1. (RingInv => ContentsFacts)'
  BY ContentsType, PTL
<1> QED
  BY <1>1, Zenon

\* The abstract queue starts empty.
LEMMA FifoInitially == RingInit => Fifo!FifoInit
<1> SUFFICES ASSUME RingInit PROVE Fifo!FifoInit
  BY Zenon
<1>1. Used = 0
  BY SubFacts, WidthFacts DEF RingInit, Used, Counter
<1>2. RingContents = <<>>
  BY <1>1 DEF RingContents
<1> QED
  BY <1>2, Zenon DEF RingInit, Fifo!FifoInit

\* Every step of the ring is a step of the abstract queue or leaves it alone;
\* a push takes effect when head is stored and a pop when tail is.
LEMMA FifoStep == RingInv /\ RingInv' /\ [RingNext]_ringVars => [Fifo!FifoNext]_(Fifo!fifoVars)
<1> SUFFICES ASSUME RingInv, RingInv', [RingNext]_ringVars
             PROVE  [Fifo!FifoNext]_(Fifo!fifoVars)
  BY Zenon
<1> USE DEF Fifo!fifoVars
<1>0. /\ head \in Counter /\ tail \in Counter /\ N \in Nat
      /\ head \in Int /\ tail \in Int
      /\ Used \in Nat /\ Used = wrapping_sub(head, tail) /\ Used <= N
      /\ Len(RingContents) = Used /\ RingContents \in Seq(Msgs \cup {None})
      /\ \A i \in 1..Used : RingContents[i] = buffer[Slot(tail + i - 1)]
  <2>1. head \in Counter /\ tail \in Counter /\ Used <= N
    BY Zenon DEF RingInv, RingTypeOK, NeverOverfull
  <2>2. head \in Int /\ tail \in Int /\ N \in Nat
    BY <2>1, WidthFacts DEF Counter
  <2> QED
    BY <2>1, <2>2, ContentsType, Zenon DEF ContentsFacts, Used
<1>00. /\ RingContents' \in Seq(Msgs \cup {None}) /\ Len(RingContents') = Used'
      /\ \A i \in 1..Used' : RingContents'[i] = buffer'[Slot(tail' + i - 1)]
  BY ContentsTypeNext, Zenon DEF ContentsFacts, Slot
<1>1. ASSUME UNCHANGED <<head, tail, buffer>> PROVE RingContents' = RingContents
  BY <1>1, Zenon DEF RingContents, Used
<1>2. CASE PushErr
  BY <1>0, <1>1, <1>2 DEF PushErr, consVars, Fifo!FifoNext, Fifo!PushFull
<1>3. CASE PopNone
  <2>1. RingContents = <<>>
    BY <1>0, <1>3, SubFacts DEF PopNone, RingContents
  <2> QED
    BY <1>1, <1>3, <2>1, Zenon DEF PopNone, prodVars, Fifo!FifoNext, Fifo!PopEmpty
<1>4. CASE PushWrite
  <2>1. Used' = Used /\ UNCHANGED <<tail, pushRes, popRes>>
    BY <1>4, Zenon DEF PushWrite, Used, consVars
  <2>2. ASSUME NEW i \in 1..Used
        PROVE  buffer'[Slot(tail + i - 1)] = buffer[Slot(tail + i - 1)]
    <3> DEFINE a == tail + i - 1
               b == tail + Used
    <3>1. Used < N
      BY <1>4, Zenon DEF PushWrite, RingInv, PushInFlight
    <3>2. a \in Int /\ b \in Int /\ a < b /\ b - a < N
      BY <1>0, <3>1 DEF Counter
    <3>3. Slot(b) = Slot(head)
      BY <1>0, SlotOfHead, Zenon
    <3> HIDE DEF a, b
    <3>4. Slot(a) # Slot(head)
      BY <3>2, <3>3, SlotsApart, Zenon
    <3>5. buffer'[Slot(a)] = buffer[Slot(a)]
      BY <1>4, <3>4, <3>2, SlotType, Zenon DEF PushWrite, RingInv, RingTypeOK
    <3> QED
      BY <3>5, Zenon DEF a
  <2>3. RingContents' = RingContents
    BY <2>1, <2>2, Zenon DEF RingContents
  <2> QED
    BY <2>1, <2>3, Zenon
<1>5. CASE PushPublish
  <2>1. /\ Used < N /\ Used' = Used + 1 /\ pval \in Msgs
        /\ UNCHANGED <<tail, buffer, popRes>> /\ pushRes' = "ok"
        /\ buffer[Slot(head)] = pval
    BY <1>0, <1>5, PublishAdds, Zenon DEF PushPublish, consVars, RingInv,
       PushInFlight, Used
  <2>2. buffer[Slot(tail + Used)] = pval
    BY <1>0, <2>1, SlotOfHead, Zenon
  <2>3. /\ RingContents' \in Seq(Msgs \cup {None}) /\ Len(RingContents') = Used + 1
        /\ \A i \in 1..(Used + 1) : RingContents'[i] = buffer[Slot(tail + i - 1)]
    BY <1>00, <2>1, Zenon
  <2> DEFINE longer == Append(RingContents, pval)
  <2>4. /\ longer \in Seq(Msgs \cup {None}) /\ Len(longer) = Used + 1
        /\ \A i \in 1..Used : longer[i] = RingContents[i]
        /\ longer[Used + 1] = pval
    <3>1. /\ RingContents \in Seq(Msgs \cup {None}) /\ Len(RingContents) = Used
          /\ pval \in Msgs \cup {None} /\ longer = Append(RingContents, pval)
      BY <1>0, <2>1, Zenon
    <3> HIDE DEF longer
    <3> QED
      BY <3>1, Appended
  <2>5. \A i \in 1..(Used + 1) : RingContents'[i] = longer[i]
    <3> SUFFICES ASSUME NEW i \in 1..(Used + 1) PROVE RingContents'[i] = longer[i]
      BY Zenon
    <3>1. CASE i \in 1..Used
      BY <1>0, <2>3, <2>4, <3>1, Zenon
    <3>2. CASE i = Used + 1
      <4>1. tail + i - 1 = tail + Used
        BY <1>0, <3>2
      <4> QED
        BY <2>2, <2>3, <2>4, <3>2, <4>1, Zenon
    <3> QED
      BY <1>0, <3>1, <3>2
  <2> HIDE DEF longer
  <2>6. RingContents' = longer
    BY <2>3, <2>4, <2>5, SeqEqual, Zenon
  <2> QED
    BY <1>0, <2>1, <2>6, Zenon DEF Fifo!FifoNext, Fifo!Push, longer
<1>6. CASE PopPublish
  <2>1. /\ Used > 0 /\ Used' = Used - 1
        /\ UNCHANGED <<head, buffer, pushRes>> /\ popRes' = cval
        /\ tail' = wrapping_add(tail, 1)
        /\ cval = buffer[Slot(tail)]
    BY <1>0, <1>6, ReleaseTakes, Zenon DEF PopPublish, prodVars, RingInv,
       PopInFlight, Used
  <2>2. RingContents # <<>> /\ Head(RingContents) = cval
    BY <1>0, <2>1
  <2> DEFINE shorter == Tail(RingContents)
  <2>3. /\ shorter \in Seq(Msgs \cup {None}) /\ Len(shorter) = Used - 1
        /\ \A i \in 1..(Used - 1) : shorter[i] = RingContents[i + 1]
    <3>1. /\ RingContents \in Seq(Msgs \cup {None}) /\ Len(RingContents) = Used /\ Used # 0
          /\ shorter = Tail(RingContents)
      BY <1>0, <2>2
    <3> HIDE DEF shorter
    <3> QED
      BY <3>1, Shortened
  <2>4. ASSUME NEW i \in 1..(Used - 1)
        PROVE  RingContents'[i] = shorter[i]
    <3> DEFINE j == i - 1
    <3>1. /\ j \in Int
          /\ tail' + i - 1 = wrapping_add(tail, 1) + j
          /\ tail + (i + 1) - 1 = tail + 1 + j
      BY <1>0, <2>1, AddFacts DEF Counter
    <3> HIDE DEF j
    <3>2. Slot(wrapping_add(tail, 1) + j) = Slot(tail + 1 + j)
      BY <1>0, <3>1, SlotOfNextTail, Zenon
    <3>3. RingContents'[i] = buffer[Slot(tail + 1 + j)]
      BY <1>00, <2>1, <3>1, <3>2
    <3>4. RingContents[i + 1] = buffer[Slot(tail + (i + 1) - 1)]
      BY <1>0
    <3> QED
      BY <2>3, <3>1, <3>3, <3>4, Zenon
  <2> HIDE DEF shorter
  <2>5. RingContents' = shorter
    BY <1>00, <2>1, <2>3, <2>4, SeqEqual, Zenon
  <2> QED
    BY <2>1, <2>2, <2>5, Zenon DEF Fifo!FifoNext, Fifo!Pop, shorter
<1>7. CASE \E v \in Msgs : PushCheck(v)
  BY <1>1, <1>7, Zenon DEF PushCheck, consVars
<1>8. CASE PopCheck \/ PopRead \/ ConsumerLenLoadHead \/ ConsumerLen
  BY <1>1, <1>8, Zenon DEF PopCheck, PopRead, ConsumerLenLoadHead, ConsumerLen, prodVars
<1>9. CASE ProducerLen
  BY <1>1, <1>9, Zenon DEF ProducerLen, prodVars, consVars
<1>10. CASE UNCHANGED ringVars
  BY <1>1, <1>10, Zenon DEF ringVars, prodVars, consVars
<1> QED
  BY <1>2, <1>3, <1>4, <1>5, <1>6, <1>7, <1>8, <1>9, <1>10, Zenon
     DEF RingNext, ProducerStep, ConsumerStep

\* For every capacity, counter width and message set, SpscRing implements the
\* atomic bounded queue: try_push and try_pop neither lose, duplicate,
\* reorder nor invent a value, and they fail only when full or empty.
THEOREM RingRefinesFifo == RingSpec => RefinesFifo
<1>1. RingSpec => []RingInv
  BY InitInv, NextInv, PTL DEF RingSpec
<1> QED
  BY <1>1, FifoInitially, FifoStep, PTL DEF RingSpec, RefinesFifo, Fifo!FifoSpec

-----------------------------------------------------------------------------
(* Spinlock *)

\* What the running context can be.
LEMMA MeFacts ==
  ASSUME LockTypeOK
  PROVE  /\ Me \in Contexts
         /\ Me = Irq <=> irq
         /\ ~irq => Me = current
BY SpinlockAssumption, Zenon DEF LockTypeOK, Me, Contexts

\* Dropping the last element.
LEMMA BelowFacts ==
  ASSUME NEW S, NEW s \in Seq(S), s # <<>>
  PROVE  /\ Below(s) \in Seq(S)
         /\ Len(Below(s)) = Len(s) - 1
         /\ \A i \in 1..(Len(s) - 1) : Below(s)[i] = s[i]
         /\ Len(s) \in Nat \ {0}
         /\ Top(s) \in S
<1>1. Len(s) \in Nat \ {0}
  BY EmptySeq, Zenon
<1> DEFINE n == Len(s) - 1
<1>2. 1 \in Int /\ n \in Int /\ n >= 0 /\ \A i \in 1..n : s[i] \in S
  BY <1>1, ElementOfSeq
<1> HIDE DEF n
<1>3. /\ SubSeq(s, 1, n) \in Seq(S)
      /\ Len(SubSeq(s, 1, n)) = n
      /\ \A i \in 1..n : SubSeq(s, 1, n)[i] = s[i]
  <2>1. /\ SubSeq(s, 1, n) \in Seq(S)
        /\ Len(SubSeq(s, 1, n)) = IF 1 <= n THEN n - 1 + 1 ELSE 0
        /\ \A i \in 1..(n - 1 + 1) : SubSeq(s, 1, n)[i] = s[1 + i - 1]
    BY <1>2, SubSeqProperties
  <2>2. QED  BY <2>1, <1>2
<1>4. Top(s) \in S
  BY <1>1, ElementOfSeq DEF Top
<1>5. QED
  BY <1>1, <1>3, <1>4, Zenon DEF Below, n

\* The invariant holds before any lock is taken.
LEMMA LockInitInv == LockInit => LockInv
<1> SUFFICES ASSUME LockInit PROVE LockInv
  BY Zenon
<1>1. <<>> \in Seq(Guards)
  OBVIOUS
<1>2. guards \in [Contexts -> Seq(Guards)]
  BY <1>1, Zenon DEF LockInit
<1>3. LockTypeOK
  BY <1>2, Zenon DEF LockInit, LockTypeOK
<1>4. Me = current /\ current \in Contexts /\ ~irq /\ IFlag
  BY Zenon DEF LockInit, Me, Contexts
<1>5. /\ \A c \in Contexts : guards[c] = <<>> /\ pc[c] = "idle"
      /\ \A t \in Threads : flags[t] /\ ~insys[t]
      /\ \A l \in Locks : inner[l] = Free
  BY Zenon DEF LockInit
<1>6. OthersOut
  BY <1>5, Zenon DEF OthersOut, Outside, Contexts
<1>7. HeldByGuard /\ OldestRestores
  BY <1>4, <1>5, EmptyDomain, Zenon DEF HeldByGuard, OldestRestores
<1>8. Base
  BY <1>4, <1>5, Zenon DEF Base, LockInit
<1>9. FlagHere /\ WantsLock /\ Interrupted
  BY <1>4, <1>5, <1>8, Zenon DEF FlagHere, WantsLock, Interrupted
<1>10. QED  BY <1>3, <1>6, <1>7, <1>9, Zenon DEF LockInv

\* A thread that is switched in, from outside any critical section or from the
\* window of drop(), satisfies what is said of the running context.
LEMMA SwitchedIn ==
  ASSUME NEW t \in Threads, guards[t] \in Seq(Guards), Me' = t, guards' = guards, pc' = pc, was' = was,
         insys' = insys, Outside(t) \/ InWindow(t),
         Base' <=> ~insys[t], IFlag' <=> ~insys[t]
  PROVE  OldestRestores' /\ FlagHere'
<1>1. CASE Outside(t)
  <2>1. guards'[Me'] = <<>> /\ pc'[Me'] \in {"idle", "read"}
        /\ (pc'[Me'] = "read" => was'[Me'] /\ ~insys[t])
    BY <1>1, Zenon DEF Outside
  <2>2. DOMAIN guards'[Me'] = {}
    BY <2>1, EmptyDomain, Zenon
  <2> QED
    BY <2>1, <2>2, Zenon DEF OldestRestores, FlagHere
<1>2. CASE InWindow(t)
  <2>1. pc'[Me'] = "release" /\ Len(guards'[Me']) = 1 /\ Base' /\ IFlag'
        /\ guards'[Me'][1].interrupts_enabled
    BY <1>2, Zenon DEF InWindow
  <2>2. guards'[Me'] # <<>> /\ DOMAIN guards'[Me'] = {1}
    <3>1. DOMAIN guards[t] = 1..Len(guards[t])
      BY LenProperties, Zenon
    <3>2. DOMAIN guards'[Me'] = 1..1
      BY <2>1, <3>1, Zenon
    <3>3. guards'[Me'] # <<>>
      BY <3>2, EmptyDomain
    <3> QED
      BY <3>2, <3>3
  <2> QED
    BY <2>1, <2>2, Zenon DEF OldestRestores, FlagHere
<1> QED
  BY <1>1, <1>2, Zenon

\* A step of the running context leaves the others where they were.
LEMMA OthersKept ==
  ASSUME OthersOut, Me' = Me, insys' = insys, flags' = flags,
         \A c \in Contexts \ {Me} : guards'[c] = guards[c] /\ pc'[c] = pc[c] /\ was'[c] = was[c]
  PROVE  OthersOut'
BY Zenon DEF OthersOut, Outside, InWindow

\* Every step keeps the invariant.
LEMMA LockNextInv == LockInv /\ [LockNext]_lockVars => LockInv'
<1> SUFFICES ASSUME LockInv, [LockNext]_lockVars PROVE LockInv'
  BY Zenon
<1> USE DEF LockInv
<1>0. /\ Me \in Contexts
      /\ Me = Irq <=> irq
      /\ ~irq => Me = current
      /\ guards[Me] \in Seq(Guards)
      /\ current \in Threads /\ Irq \in Contexts /\ Irq \notin Threads
      /\ Threads \subseteq Contexts
  BY MeFacts, SpinlockAssumption, Zenon DEF LockTypeOK, Contexts
<1>1. ASSUME NEW l \in Locks, LockRead(l) PROVE LockInv'
  <2>1. Me' = Me /\ (Base <=> Base')
    BY <1>1, Zenon DEF LockRead, Me, Base
  <2>2. LockTypeOK'
    BY <1>1, <1>0, Zenon DEF LockRead, LockTypeOK
  <2>3. /\ pc' = [pc EXCEPT ![Me] = "read"] /\ pc[Me] = "idle"
        /\ want' = [want EXCEPT ![Me] = l]
        /\ was' = [was EXCEPT ![Me] = IFlag]
        /\ guards' = guards /\ inner' = inner /\ flags' = flags /\ insys' = insys
        /\ IFlag' = IFlag /\ current' = current /\ irq' = irq
    BY <1>1, Zenon DEF LockRead
  <2>4. OthersOut' /\ HeldByGuard' /\ OldestRestores' /\ Interrupted'
    <3>1. \A c \in Contexts \ {Me} : pc'[c] = pc[c] /\ was'[c] = was[c]
      BY <2>3, Zenon DEF LockTypeOK
    <3>2. OthersOut'
      BY <2>1, <2>3, <3>1, OthersKept, Zenon
    <3> QED
      BY <2>1, <2>3, <3>2, Zenon DEF HeldByGuard, OldestRestores, Interrupted
  <2>5. FlagHere'
    BY <2>1, <2>3, <1>0, Zenon DEF FlagHere, LockTypeOK
  <2>6. WantsLock'
    BY <2>1, <2>3, <1>0, Zenon DEF WantsLock, LockTypeOK
  <2>7. QED  BY <2>2, <2>4, <2>5, <2>6, Zenon
<1>2. ASSUME LockDisable PROVE LockInv'
  <2>1. Me' = Me /\ (Base <=> Base')
    BY <1>2, Zenon DEF LockDisable, Me, Base
  <2>2. /\ pc' = [pc EXCEPT ![Me] = "spin"] /\ pc[Me] = "read"
        /\ want' = want /\ was' = was /\ guards' = guards /\ inner' = inner
        /\ flags' = flags /\ insys' = insys /\ current' = current /\ irq' = irq
    BY <1>2, Zenon DEF LockDisable
  <2>3. IFlag' \in BOOLEAN /\ ~IFlag'
    BY <1>2, <2>2, <1>0, Zenon DEF LockDisable, FlagHere, LockTypeOK
  <2>4. LockTypeOK'
    BY <2>2, <2>3, <1>0, Zenon DEF LockTypeOK
  <2>5. OthersOut' /\ HeldByGuard' /\ OldestRestores' /\ Interrupted'
    <3>1. \A c \in Contexts \ {Me} : pc'[c] = pc[c]
      BY <2>2, Zenon DEF LockTypeOK
    <3>2. OthersOut'
      BY <2>1, <2>2, <3>1, OthersKept, Zenon
    <3> QED
      BY <2>1, <2>2, <3>2, Zenon DEF HeldByGuard, OldestRestores, Interrupted
  <2>6. FlagHere' /\ WantsLock'
    BY <2>1, <2>2, <2>3, <1>0, Zenon DEF FlagHere, WantsLock, LockTypeOK
  <2>7. QED  BY <2>4, <2>5, <2>6, Zenon
<1>3. ASSUME LockAcquire PROVE LockInv'
  <2> DEFINE g == [lock |-> want[Me], interrupts_enabled |-> was[Me]]
  <2>1. Me' = Me /\ (Base <=> Base')
    BY <1>3, Zenon DEF LockAcquire, Me, Base
  <2>2. /\ pc' = [pc EXCEPT ![Me] = "idle"] /\ pc[Me] = "spin"
        /\ want' = [want EXCEPT ![Me] = NoLock] /\ was' = [was EXCEPT ![Me] = FALSE]
        /\ guards' = [guards EXCEPT ![Me] = Append(@, g)]
        /\ inner' = [inner EXCEPT ![want[Me]] = Me]
        /\ flags' = flags /\ insys' = insys /\ IFlag' = IFlag
        /\ current' = current /\ irq' = irq
    BY <1>3, Zenon DEF LockAcquire
  <2>3. want[Me] \in Locks /\ was[Me] \in BOOLEAN
    BY <2>2, <1>0, Zenon DEF WantsLock, LockTypeOK
  <2>4. g \in Guards /\ g.lock = want[Me] /\ (g.interrupts_enabled <=> was[Me])
    BY <2>3, Zenon DEF Guards
  <2> HIDE DEF g
  <2>5. /\ guards'[Me] \in Seq(Guards)
        /\ Len(guards'[Me]) = Len(guards[Me]) + 1
        /\ Len(guards[Me]) \in Nat
        /\ \A i \in 1..Len(guards[Me]) : guards'[Me][i] = guards[Me][i]
        /\ guards'[Me][Len(guards[Me]) + 1] = g
        /\ \A c \in Contexts \ {Me} : guards'[c] = guards[c]
        /\ guards' \in [Contexts -> Seq(Guards)]
    BY <2>2, <2>4, <1>0, AppendProperties DEF LockTypeOK
  <2>6. /\ DOMAIN guards'[Me] = 1..(Len(guards[Me]) + 1)
        /\ DOMAIN guards[Me] = 1..Len(guards[Me])
    BY <2>5, <1>0
  <2>7. LockTypeOK'
    BY <2>2, <2>5, <1>0, Zenon DEF LockTypeOK
  <2>8. OthersOut' /\ Interrupted'
    <3>1. \A c \in Contexts \ {Me} : pc'[c] = pc[c] /\ was'[c] = was[c]
      BY <2>2, Zenon DEF LockTypeOK
    <3>2. OthersOut'
      BY <2>1, <2>2, <2>5, <3>1, OthersKept, Zenon
    <3> QED
      BY <2>2, <3>2, Zenon DEF Interrupted
  <2>9. HeldByGuard'
    <3> SUFFICES ASSUME NEW l \in Locks, inner'[l] # Free
                 PROVE  \E i \in DOMAIN guards'[inner'[l]] : guards'[inner'[l]][i].lock = l
      BY Zenon DEF HeldByGuard
    <3>1. CASE l = want[Me]
      <4>0. inner'[l] = Me
        BY <3>1, <2>2, Zenon DEF LockTypeOK
      <4>1. Len(guards[Me]) + 1 \in DOMAIN guards'[Me]
        BY <2>5, <2>6
      <4>2. guards'[Me][Len(guards[Me]) + 1].lock = l
        BY <3>1, <2>4, <2>5, Zenon
      <4>3. QED  BY <4>0, <4>1, <4>2, Zenon
    <3>2. CASE l # want[Me]
      <4>1. inner'[l] = inner[l] /\ inner[l] # Free /\ inner[l] \in Contexts
        BY <3>2, <2>2, <2>3, Zenon DEF LockTypeOK
      <4>2. PICK i \in DOMAIN guards[inner[l]] : guards[inner[l]][i].lock = l
        BY <4>1, Zenon DEF HeldByGuard
      <4>3. CASE inner[l] = Me
        <5>1. i \in 1..Len(guards[Me])
          BY <4>2, <4>3, <2>6, Zenon
        <5>2. i \in DOMAIN guards'[Me]
          BY <5>1, <2>5, <2>6
        <5>3. guards'[Me][i].lock = l
          BY <4>2, <4>3, <5>1, <2>5, Zenon
        <5> QED
          BY <4>1, <4>3, <5>2, <5>3, Zenon
      <4>4. CASE inner[l] # Me
        <5>1. guards'[inner[l]] = guards[inner[l]]
          BY <4>1, <4>4, <2>5, Zenon
        <5> QED
          BY <4>1, <4>2, <5>1
      <4>5. QED  BY <4>3, <4>4, Zenon
    <3>3. QED  BY <3>1, <3>2, Zenon
  <2>10. was[Me] <=> Base /\ guards[Me] = <<>>
    BY <2>2, Zenon DEF FlagHere
  <2>11. guards[Me] = <<>> <=> Len(guards[Me]) = 0
    BY <1>0, EmptySeq, Zenon
  <2>12. OldestRestores'
    <3>1. ASSUME NEW i \in 1..(Len(guards[Me]) + 1)
          PROVE  guards'[Me][i].interrupts_enabled <=> (i = 1 /\ Base)
      <4>1. CASE i = Len(guards[Me]) + 1
        <5>1. i = 1 <=> guards[Me] = <<>>
          BY <4>1, <2>5, <2>11
        <5>2. guards'[Me][i] = g
          BY <4>1, <2>5, Zenon
        <5>3. QED  BY <5>1, <5>2, <2>4, <2>10, Zenon
      <4>2. CASE i \in 1..Len(guards[Me])
        BY <4>2, <2>5, <2>6, Zenon DEF OldestRestores
      <4>3. QED  BY <4>1, <4>2, <2>5
    <3>2. QED  BY <3>1, <2>1, <2>6, Zenon DEF OldestRestores
  <2>13. guards'[Me] # <<>>
    BY <2>5, <2>6
  <2>14. ~IFlag'
    BY <2>2, Zenon DEF FlagHere
  <2>15. FlagHere'
    BY <2>1, <2>2, <2>13, <2>14, <1>0, Zenon DEF FlagHere, LockTypeOK
  <2>16. WantsLock'
    BY <2>2, <2>5, <1>0, Zenon DEF WantsLock, LockTypeOK
  <2>17. QED  BY <2>7, <2>8, <2>9, <2>12, <2>15, <2>16, Zenon
<1>4. ASSUME DropEnable PROVE LockInv'
  <2>1. Me' = Me /\ (Base <=> Base')
    BY <1>4, Zenon DEF DropEnable, Me, Base
  <2>2. /\ pc' = [pc EXCEPT ![Me] = "release"] /\ pc[Me] = "idle"
        /\ want' = want /\ was' = was /\ guards' = guards /\ inner' = inner
        /\ flags' = flags /\ insys' = insys /\ current' = current /\ irq' = irq
        /\ guards[Me] # <<>>
    BY <1>4, Zenon DEF DropEnable
  <2>3. /\ Len(guards[Me]) \in Nat \ {0}
        /\ Top(guards[Me]) \in Guards
    BY <2>2, <1>0, BelowFacts, Zenon
  <2>4. Top(guards[Me]).interrupts_enabled <=> (Len(guards[Me]) = 1 /\ Base)
    <3>1. Len(guards[Me]) \in DOMAIN guards[Me]
      BY <2>3, <1>0
    <3>2. QED  BY <3>1, Zenon DEF OldestRestores, Top
  <2>5. ~IFlag
    BY <2>2, Zenon DEF FlagHere
  <2>6. IFlag' \in BOOLEAN /\ (IFlag' <=> (Len(guards[Me]) = 1 /\ Base))
    BY <1>4, <2>4, <2>5, Zenon DEF DropEnable, LockTypeOK
  <2>7. LockTypeOK'
    BY <2>2, <2>6, <1>0, Zenon DEF LockTypeOK
  <2>8. OthersOut' /\ HeldByGuard' /\ OldestRestores' /\ Interrupted'
    <3>1. \A c \in Contexts \ {Me} : pc'[c] = pc[c]
      BY <2>2, Zenon DEF LockTypeOK
    <3>2. OthersOut'
      BY <2>1, <2>2, <3>1, OthersKept, Zenon
    <3> QED
      BY <2>1, <2>2, <3>2, Zenon DEF HeldByGuard, OldestRestores, Interrupted
  <2>9. FlagHere' /\ WantsLock'
    BY <2>1, <2>2, <2>6, <1>0, Zenon DEF FlagHere, WantsLock, LockTypeOK
  <2>10. QED  BY <2>7, <2>8, <2>9, Zenon
<1>5. ASSUME DropRelease PROVE LockInv'
  <2>1. Me' = Me /\ (Base <=> Base')
    BY <1>5, Zenon DEF DropRelease, Me, Base
  <2>2. /\ pc' = [pc EXCEPT ![Me] = "idle"] /\ pc[Me] = "release"
        /\ want' = want /\ was' = was
        /\ guards' = [guards EXCEPT ![Me] = Below(@)]
        /\ inner' = [inner EXCEPT ![Top(guards[Me]).lock] = Free]
        /\ flags' = flags /\ insys' = insys /\ IFlag' = IFlag
        /\ current' = current /\ irq' = irq
    BY <1>5, Zenon DEF DropRelease
  <2>3. guards[Me] # <<>>
    BY <2>2, Zenon DEF FlagHere
  <2>4. /\ Below(guards[Me]) \in Seq(Guards)
        /\ Len(Below(guards[Me])) = Len(guards[Me]) - 1
        /\ \A i \in 1..(Len(guards[Me]) - 1) : Below(guards[Me])[i] = guards[Me][i]
        /\ Len(guards[Me]) \in Nat \ {0}
        /\ Top(guards[Me]) \in Guards
    BY <2>3, <1>0, BelowFacts, Zenon
  <2>5. /\ guards'[Me] = Below(guards[Me])
        /\ \A c \in Contexts \ {Me} : guards'[c] = guards[c]
        /\ guards' \in [Contexts -> Seq(Guards)]
    BY <2>2, <2>4, <1>0, Zenon DEF LockTypeOK
  <2>6. /\ DOMAIN guards'[Me] = 1..(Len(guards[Me]) - 1)
        /\ DOMAIN guards[Me] = 1..Len(guards[Me])
    <3>1. guards[Me] \in Seq(Guards)
      BY <1>0, Zenon
    <3>2. DOMAIN guards[Me] = 1..Len(guards[Me])
      BY <3>1, LenProperties, Zenon
    <3>3. DOMAIN Below(guards[Me]) = 1..Len(Below(guards[Me]))
      BY <2>4, LenProperties, Zenon
    <3> QED
      BY <2>4, <2>5, <3>2, <3>3, Zenon
  <2>7. LockTypeOK'
    BY <2>2, <2>4, <2>5, <1>0, SpinlockAssumption, Zenon DEF LockTypeOK, Guards
  <2>8. OthersOut' /\ Interrupted'
    <3>1. \A c \in Contexts \ {Me} : pc'[c] = pc[c] /\ was'[c] = was[c]
      BY <2>2, Zenon DEF LockTypeOK
    <3>2. OthersOut'
      BY <2>1, <2>2, <2>5, <3>1, OthersKept, Zenon
    <3> QED
      BY <2>2, <3>2, Zenon DEF Interrupted
  <2>9. HeldByGuard'
    <3> SUFFICES ASSUME NEW l \in Locks, inner'[l] # Free
                 PROVE  \E i \in DOMAIN guards'[inner'[l]] : guards'[inner'[l]][i].lock = l
      BY Zenon DEF HeldByGuard
    <3>1. l # Top(guards[Me]).lock /\ inner'[l] = inner[l] /\ inner[l] # Free
          /\ inner[l] \in Contexts
      BY <2>2, Zenon DEF LockTypeOK
    <3>2. PICK i \in DOMAIN guards[inner[l]] : guards[inner[l]][i].lock = l
      BY <3>1, Zenon DEF HeldByGuard
    <3>3. CASE inner[l] = Me
      <4>1. i \in 1..Len(guards[Me]) /\ i # Len(guards[Me])
        BY <3>1, <3>2, <3>3, <2>6, Zenon DEF Top
      <4>2. Len(guards[Me]) \in Nat
        BY <2>4, Zenon
      <4>3. i \in 1..(Len(guards[Me]) - 1)
        BY <4>1, <4>2
      <4>4. i \in DOMAIN guards'[Me] /\ guards'[Me][i] = guards[Me][i]
        BY <4>3, <2>4, <2>5, <2>6, Zenon
      <4>5. guards[Me][i].lock = l
        BY <3>2, <3>3, Zenon
      <4> QED
        BY <3>1, <3>3, <4>4, <4>5
    <3>4. CASE inner[l] # Me
      <4>1. guards'[inner[l]] = guards[inner[l]]
        BY <3>1, <3>4, <2>5, Zenon
      <4> QED
        BY <3>1, <3>2, <4>1
    <3>5. QED  BY <3>3, <3>4, Zenon
  <2>10. OldestRestores'
    BY <2>1, <2>4, <2>5, <2>6 DEF OldestRestores
  <2>11. guards'[Me] = <<>> <=> Len(guards[Me]) = 1
    <3>1. guards'[Me] = <<>> <=> Len(guards'[Me]) = 0
      BY <2>4, <2>5, EmptySeq, Zenon
    <3>2. Len(guards'[Me]) = Len(guards[Me]) - 1 /\ Len(guards[Me]) \in Nat
      BY <2>4, <2>5, Zenon
    <3>3. Len(guards'[Me]) = 0 <=> Len(guards[Me]) = 1
      BY <3>2
    <3>4. QED  BY <3>1, <3>3, Zenon
  <2>12. IFlag <=> Base /\ Len(guards[Me]) = 1
    BY <2>2, <2>3, Zenon DEF FlagHere
  <2>13. FlagHere'
    BY <2>1, <2>2, <2>11, <2>12, <1>0, Zenon DEF FlagHere, LockTypeOK
  <2>14. WantsLock'
    BY <2>2, <2>5, <1>0, Zenon DEF WantsLock, LockTypeOK
  <2>15. QED  BY <2>7, <2>8, <2>9, <2>10, <2>13, <2>14, Zenon
<1>6. ASSUME Interrupt PROVE LockInv'
  <2>1. /\ ~irq /\ IFlag /\ irq' = TRUE /\ IFlag' = FALSE
        /\ flags' = [flags EXCEPT ![current] = TRUE]
        /\ current' = current /\ insys' = insys /\ pc' = pc /\ want' = want
        /\ was' = was /\ guards' = guards /\ inner' = inner
    BY <1>6, Zenon DEF Interrupt
  <2>2. Me = current /\ Me' = Irq /\ ~Base'
    BY <2>1, Zenon DEF Me, Base
  <2>3. Base /\ ~insys[current] /\ current # Irq /\ current \in Contexts
    BY <2>1, <2>2, <1>0, Zenon DEF FlagHere, Base
  <2>4. Outside(current) \/ InWindow(current)
    <3>1. CASE guards[current] = <<>> /\ pc[current] # "spin"
      <4>1. pc[current] \in {"idle", "read"}
        BY <3>1, <2>2, <2>3, Zenon DEF FlagHere, LockTypeOK
      <4>2. pc[current] = "read" => was[current]
        BY <3>1, <2>2, <2>3, Zenon DEF FlagHere
      <4> QED
        BY <3>1, <4>1, <4>2, <2>3, Zenon DEF Outside
    <3>2. CASE Len(guards[current]) = 1 /\ pc[current] = "release"
      <4>1. guards[current] \in Seq(Guards)
        BY <1>0, <2>2, Zenon
      <4>2. DOMAIN guards[current] = 1..Len(guards[current])
        BY <4>1, LenProperties, Zenon
      <4>3. 1 \in DOMAIN guards[current]
        BY <3>2, <4>2
      <4>4. guards[current][1].interrupts_enabled
        BY <4>3, <2>2, <2>3, Zenon DEF OldestRestores
      <4> QED
        BY <3>2, <4>4, <2>3, Zenon DEF InWindow
    <3> QED
      BY <3>1, <3>2, <2>1, <2>2, Zenon DEF FlagHere
  <2>5. LockTypeOK'
    BY <2>1, <1>0, Zenon DEF LockTypeOK
  <2>6. guards[Irq] = <<>> /\ pc[Irq] = "idle"
    BY <2>2, <2>3, <1>0, Zenon DEF OthersOut, Outside, InWindow
  <2>7. OthersOut'
    <3> SUFFICES ASSUME NEW c \in Contexts, c # Irq
                 PROVE  (Outside(c) \/ InWindow(c)) /\ (flags'[c] <=> ~insys[c])
      BY <2>1, <2>2, Zenon DEF OthersOut, Outside, InWindow
    <3>1. CASE c = current
      <4>1. flags'[c]
        BY <3>1, <2>1, <1>0, Zenon DEF LockTypeOK
      <4> QED
        BY <3>1, <4>1, <2>3, <2>4, Zenon
    <3>2. CASE c # current
      <4>1. flags'[c] = flags[c]
        BY <3>2, <2>1, Zenon DEF LockTypeOK, Contexts
      <4> QED
        BY <3>2, <4>1, <2>2, Zenon DEF OthersOut
    <3> QED
      BY <3>1, <3>2, Zenon
  <2>8. HeldByGuard' /\ WantsLock' /\ Interrupted'
    BY <2>1, <2>3, Zenon DEF HeldByGuard, WantsLock, Interrupted
  <2>9. guards'[Me'] = <<>> /\ pc'[Me'] = "idle" /\ DOMAIN guards'[Me'] = {}
    BY <2>1, <2>2, <2>6, EmptyDomain, Zenon
  <2>10. OldestRestores' /\ FlagHere'
    BY <2>1, <2>2, <2>9, Zenon DEF OldestRestores, FlagHere
  <2>11. QED  BY <2>5, <2>7, <2>8, <2>10, Zenon
<1>7. ASSUME NEW t \in Threads, Iret(t) PROVE LockInv'
  <2>1. /\ irq /\ pc[Irq] = "idle" /\ guards[Irq] = <<>> /\ irq' = FALSE
        /\ current' = t /\ IFlag' = flags[t]
        /\ flags' = flags /\ insys' = insys /\ pc' = pc /\ want' = want
        /\ was' = was /\ guards' = guards /\ inner' = inner
    BY <1>7, Zenon DEF Iret, Quiet
  <2>2. Me = Irq /\ Me' = t /\ t \in Contexts /\ t # Irq
    BY <2>1, <1>0, Zenon DEF Me
  <2>3. (Outside(t) \/ InWindow(t)) /\ (flags[t] <=> ~insys[t])
    BY <2>2, Zenon DEF OthersOut
  <2>4. (Base' <=> ~insys[t]) /\ (IFlag' <=> ~insys[t]) /\ guards[t] \in Seq(Guards)
    BY <2>1, <2>2, <2>3, Zenon DEF Base, LockTypeOK
  <2>5. LockTypeOK'
    BY <2>1, <1>0, Zenon DEF LockTypeOK
  <2>6. OthersOut'
    <3> SUFFICES ASSUME NEW c \in Contexts, c # t
                 PROVE  /\ Outside(c) \/ InWindow(c)
                        /\ c # Irq => (flags[c] <=> ~insys[c])
      BY <2>1, <2>2, Zenon DEF OthersOut, Outside, InWindow
    <3>1. CASE c = Irq
      BY <3>1, <2>1, Zenon DEF Outside
    <3>2. CASE c # Irq
      BY <3>2, <2>2, Zenon DEF OthersOut
    <3> QED
      BY <3>1, <3>2, Zenon
  <2>7. HeldByGuard' /\ WantsLock' /\ Interrupted'
    BY <2>1, Zenon DEF HeldByGuard, WantsLock, Interrupted
  <2>8. OldestRestores' /\ FlagHere'
    BY <2>1, <2>2, <2>3, <2>4, SwitchedIn, Zenon
  <2>9. QED  BY <2>5, <2>6, <2>7, <2>8, Zenon
<1>8. ASSUME NEW t \in Threads, Yield(t) PROVE LockInv'
  <2>1. /\ ~irq /\ pc[current] = "idle" /\ guards[current] = <<>> /\ irq' = irq
        /\ current' = t /\ IFlag' = flags'[t]
        /\ flags' = [flags EXCEPT ![current] = IFlag] /\ insys' = insys /\ pc' = pc
        /\ want' = want /\ was' = was /\ guards' = guards /\ inner' = inner
    BY <1>8, Zenon DEF Yield, Quiet
  <2>2. Me = current /\ Me' = t /\ t \in Contexts /\ t # Irq
    BY <2>1, <1>0, Zenon DEF Me
  <2>3. IFlag <=> ~insys[current]
    BY <2>1, <2>2, Zenon DEF FlagHere, Base
  <2>4. ASSUME NEW c \in Threads
        PROVE  (Outside(c) \/ InWindow(c)) /\ (flags'[c] <=> ~insys[c])
    <3>1. CASE c = current
      <4>1. flags'[c] <=> ~insys[c]
        BY <3>1, <2>1, <2>3, Zenon DEF LockTypeOK
      <4>2. Outside(c)
        BY <3>1, <2>1, Zenon DEF Outside
      <4> QED
        BY <4>1, <4>2, Zenon
    <3>2. CASE c # current
      <4>1. flags'[c] = flags[c]
        BY <3>2, <2>1, Zenon DEF LockTypeOK
      <4> QED
        BY <3>2, <4>1, <2>2, <1>0, Zenon DEF OthersOut
    <3> QED
      BY <3>1, <3>2, Zenon
  <2>5. Outside(Irq)
    BY <2>2, <1>0, Zenon DEF OthersOut, InWindow
  <2>6. (Base' <=> ~insys[t]) /\ (IFlag' <=> ~insys[t]) /\ guards[t] \in Seq(Guards)
    <3>1. IFlag' <=> ~insys[t]
      BY <2>1, <2>4, Zenon
    <3> QED
      BY <2>1, <2>2, <3>1, Zenon DEF Base, LockTypeOK
  <2>7. LockTypeOK'
    BY <2>1, <1>0, Zenon DEF LockTypeOK
  <2>8. OthersOut'
    <3> SUFFICES ASSUME NEW c \in Contexts, c # t
                 PROVE  /\ Outside(c) \/ InWindow(c)
                        /\ c # Irq => (flags'[c] <=> ~insys[c])
      BY <2>1, <2>2, Zenon DEF OthersOut, Outside, InWindow
    <3>1. CASE c = Irq
      BY <3>1, <2>5, Zenon
    <3>2. CASE c \in Threads
      BY <3>2, <2>4, Zenon
    <3> QED
      BY <3>1, <3>2, Zenon DEF Contexts
  <2>9. HeldByGuard' /\ WantsLock' /\ Interrupted'
    BY <2>1, Zenon DEF HeldByGuard, WantsLock, Interrupted
  <2>10. OldestRestores' /\ FlagHere'
    <3>1. Outside(t) \/ InWindow(t)
      BY <2>4, Zenon
    <3> QED
      BY <2>1, <2>2, <2>6, <3>1, SwitchedIn, Zenon
  <2>11. QED  BY <2>7, <2>8, <2>9, <2>10, Zenon
<1>9. ASSUME Syscall PROVE LockInv'
  <2>1. /\ ~irq /\ pc[current] = "idle" /\ guards[current] = <<>> /\ irq' = irq
        /\ insys' = [insys EXCEPT ![current] = ~@] /\ IFlag' = insys[current]
        /\ current' = current /\ flags' = flags /\ pc' = pc /\ want' = want
        /\ was' = was /\ guards' = guards /\ inner' = inner
    BY <1>9, Zenon DEF Syscall, Quiet
  <2>2. Me = current /\ Me' = current
    BY <2>1, Zenon DEF Me
  <2>3. insys[current] \in BOOLEAN /\ (insys'[current] <=> ~insys[current])
    BY <2>1, <1>0, Zenon DEF LockTypeOK
  <2>4. insys' \in [Threads -> BOOLEAN]
    BY <2>1, <1>0, Zenon DEF LockTypeOK
  <2>5. LockTypeOK'
    BY <2>1, <2>3, <2>4, Zenon DEF LockTypeOK
  <2>6. \A c \in Threads \ {current} : insys'[c] = insys[c]
    BY <2>1, Zenon DEF LockTypeOK
  <2>7. OthersOut'
    <3> SUFFICES ASSUME NEW c \in Contexts \ {Me}
                 PROVE  /\ Outside(c)' \/ InWindow(c)'
                        /\ c # Irq => (flags[c] <=> ~insys'[c])
      BY <2>1, <2>2, Zenon DEF OthersOut
    <3>1. c # Irq => insys'[c] = insys[c]
      BY <2>2, <2>6, Zenon DEF Contexts
    <3>2. /\ Outside(c) \/ InWindow(c)
          /\ c # Irq => (flags[c] <=> ~insys[c])
      BY Zenon DEF OthersOut
    <3> QED
      BY <2>1, <3>1, <3>2, Zenon DEF Outside, InWindow
  <2>8. Base' <=> insys[current]
    BY <2>1, <2>3, Zenon DEF Base
  <2>9. HeldByGuard' /\ WantsLock' /\ Interrupted'
    BY <2>1, Zenon DEF HeldByGuard, WantsLock, Interrupted
  <2>10. DOMAIN guards'[Me'] = {} /\ guards'[Me'] = <<>> /\ pc'[Me'] = "idle"
    BY <2>1, <2>2, EmptyDomain, Zenon
  <2>11. OldestRestores' /\ FlagHere'
    BY <2>1, <2>8, <2>10, Zenon DEF OldestRestores, FlagHere
  <2>12. QED  BY <2>5, <2>7, <2>9, <2>11, Zenon
<1>10. CASE UNCHANGED lockVars
  BY <1>10, Zenon DEF lockVars, LockTypeOK, OthersOut, Outside, InWindow, HeldByGuard, OldestRestores,
     FlagHere, WantsLock, Interrupted, Base, Me
<1>11. ASSUME LockSpin PROVE LockInv'
  BY <1>10, <1>11, Zenon DEF LockSpin
<1>12. QED
  BY <1>1, <1>2, <1>3, <1>4, <1>5, <1>6, <1>7, <1>8, <1>9, <1>10, <1>11, Zenon DEF LockNext

\* What sync.rs guarantees, however locks are nested and whenever interrupts
\* come: a context waits only for a lock that it holds itself, or that a
\* thread was about to release when it was interrupted inside drop().
THEOREM SpinlockWaitsOnlyInDrop == LockSpec => []WaitsOnlyInDrop
<1>1. LockInv => WaitsOnlyInDrop
  <2> SUFFICES ASSUME LockInv, pc[Me] = "spin", inner[want[Me]] \notin {Free, Me}
               PROVE  InWindow(inner[want[Me]]) /\ guards[inner[want[Me]]][1].lock = want[Me]
    BY Zenon DEF WaitsOnlyInDrop
  <2>1. PICK h, l : h = inner[want[Me]] /\ l = want[Me]
    BY Zenon
  <2>2. Me \in Contexts
    BY MeFacts, Zenon DEF LockInv
  <2>3. l \in Locks
    BY <2>1, <2>2, Zenon DEF LockInv, WantsLock
  <2>4. h = inner[l] /\ h # Free /\ h \in Contexts \ {Me} /\ guards[h] \in Seq(Guards)
    BY <2>1, <2>3, Zenon DEF LockInv, LockTypeOK
  <2>5. PICK i \in DOMAIN guards[h] : guards[h][i].lock = l
    BY <2>3, <2>4, Zenon DEF LockInv, HeldByGuard
  <2>6. guards[h] # <<>>
    BY <2>5, EmptyDomain, Zenon
  <2>7. InWindow(h)
    BY <2>4, <2>6, Zenon DEF LockInv, OthersOut, Outside
  <2>8. i = 1
    <3>1. DOMAIN guards[h] = 1..Len(guards[h]) /\ Len(guards[h]) = 1
      BY <2>4, <2>7, LenProperties, Zenon DEF InWindow
    <3> QED
      BY <2>5, <3>1
  <2> QED
    BY <2>1, <2>5, <2>7, <2>8, Zenon
<1> QED
  BY <1>1, LockNextInv, LockInitInv, PTL DEF LockSpec

\* The interrupt flag comes back as lock() found it, also through interrupts
\* that fall between STI and the release.
THEOREM SpinlockRestores == LockSpec => []InterruptsRestored
<1>1. LockInv => InterruptsRestored
  BY Zenon DEF LockInv, FlagHere, InterruptsRestored, Quiet
<1> QED
  BY <1>1, LockNextInv, LockInitInv, PTL DEF LockSpec

=============================================================================
