-------------------------- MODULE SchedulerProofs ---------------------------
(***************************************************************************)
(* The scheduler, for any number of slots, priority levels and spawned     *)
(* tasks.                                                                  *)
(*                                                                         *)
(* The first part says what each queue operation does to a queue, seen as  *)
(* a set of slots without repetition. The second takes the methods of      *)
(* Scheduler one by one and shows that each keeps Sound: every queue holds *)
(* exactly the ready tasks of its level, and one task at most is running.  *)
(* The third takes the boot and the actions one by one, to show that IInv  *)
(* is inductive; the invariants and the action properties follow from it.  *)
(***************************************************************************)
EXTENDS Scheduler, ModArith, FiniteSetTheorems

\* No slot is twice in a queue.
Distinct(q) == \A i, j \in DOMAIN q : q[i] = q[j] => i = j

\* The slots in a queue.
Elements(q) == {q[i] : i \in DOMAIN q}

-----------------------------------------------------------------------------
(* Run queues *)

\* A sequence of slots, seen as a function.
LEMMA QueueFacts ==
  ASSUME NEW q \in Seq(Slots)
  PROVE  /\ Len(q) \in Nat
         /\ DOMAIN q = 1..Len(q)
         /\ \A i \in 1..Len(q) : q[i] \in Slots /\ q[i] \in Elements(q)
         /\ Elements(q) \subseteq Slots
         /\ Elements(q) = {} <=> q = <<>>
  BY DEF Elements

\* Without repetition there are no more entries than slots, and fewer when
\* some slot is missing: push_back and push_front then drop nothing.
LEMMA QueueFits ==
  ASSUME NEW q \in Seq(Slots), Distinct(q)
  PROVE  /\ Len(q) <= MaxTasks
         /\ \A slot \in Slots : slot \notin Elements(q) => Len(q) < MaxTasks
<1> USE MaxTasksAssumption
<1>1. IsFiniteSet(Slots) /\ Cardinality(Slots) = MaxTasks
  <2>1. 0 \in Int /\ MaxTasks - 1 \in Int
    OBVIOUS
  <2> QED
    BY <2>1, FS_Interval DEF Slots
<1>2. q \in Injection(1..Len(q), Slots)
  BY QueueFacts DEF Distinct, Injection, IsInjective
<1>3. Len(q) \in Nat /\ Cardinality(1..Len(q)) = Len(q)
  <2>1. Len(q) \in Nat
    BY QueueFacts, Zenon
  <2>2. 1 \in Int /\ Len(q) \in Int
    BY <2>1
  <2>3. Cardinality(1..Len(q)) = IF 1 > Len(q) THEN 0 ELSE Len(q) - 1 + 1
    BY <2>2, FS_Interval, Zenon
  <2> QED
    BY <2>1, <2>3
<1>4. Cardinality(1..Len(q)) <= Cardinality(Slots)
  BY <1>1, <1>2, FS_Injection, Zenon
<1>5. Cardinality(1..Len(q)) = Cardinality(Slots) <=> q \in Surjection(1..Len(q), Slots)
  BY <1>1, <1>2, FS_Injection, Zenon
<1>6. ASSUME NEW slot \in Slots, slot \notin Elements(q), Len(q) = MaxTasks PROVE FALSE
  <2>1. q \in Surjection(1..Len(q), Slots)
    BY <1>1, <1>3, <1>5, <1>6, Zenon
  <2>2. \E i \in 1..Len(q) : q[i] = slot
    BY <2>1, Zenon DEF Surjection
  <2> QED
    BY <1>6, <2>2, QueueFacts, Zenon
<1> QED
  BY <1>1, <1>3, <1>4, <1>6

\* push_back on a queue that does not hold the slot yet.
LEMMA PushBackFacts ==
  ASSUME NEW q \in Seq(Slots), Distinct(q), NEW slot \in Slots, slot \notin Elements(q)
  PROVE  /\ push_back(q, slot) \in Seq(Slots)
         /\ Distinct(push_back(q, slot))
         /\ Elements(push_back(q, slot)) = Elements(q) \cup {slot}
<1>1. push_back(q, slot) = Append(q, slot)
  BY QueueFits, QueueFacts, MaxTasksAssumption DEF push_back
<1>2. /\ Append(q, slot) \in Seq(Slots)
      /\ Len(q) \in Nat /\ Len(Append(q, slot)) = Len(q) + 1
      /\ \A i \in 1..Len(q) : Append(q, slot)[i] = q[i]
      /\ Append(q, slot)[Len(q) + 1] = slot
  BY AppendProperties, QueueFacts
<1>3. Distinct(Append(q, slot))
  BY <1>2, QueueFacts DEF Distinct
<1>4. Elements(Append(q, slot)) = Elements(q) \cup {slot}
  BY <1>2, QueueFacts DEF Elements
<1> QED
  BY <1>1, <1>2, <1>3, <1>4, Zenon

\* push_front, likewise.
LEMMA PushFrontFacts ==
  ASSUME NEW q \in Seq(Slots), Distinct(q), NEW slot \in Slots, slot \notin Elements(q)
  PROVE  /\ push_front(q, slot) \in Seq(Slots)
         /\ Distinct(push_front(q, slot))
         /\ Elements(push_front(q, slot)) = Elements(q) \cup {slot}
<1> DEFINE r == <<slot>> \o q
<1>1. push_front(q, slot) = r
  BY QueueFits, QueueFacts, MaxTasksAssumption DEF push_front
<1>2. /\ r \in Seq(Slots)
      /\ Len(q) \in Nat /\ Len(r) = Len(q) + 1
      /\ r[1] = slot
      /\ \A i \in 2..(Len(q) + 1) : r[i] = q[i - 1]
  <2>1. <<slot>> \in Seq(Slots) /\ Len(<<slot>>) = 1 /\ <<slot>>[1] = slot
    OBVIOUS
  <2>2. /\ r \in Seq(Slots)
        /\ Len(r) = Len(<<slot>>) + Len(q)
        /\ \A i \in 1..(Len(<<slot>>) + Len(q)) :
             r[i] = IF i <= Len(<<slot>>) THEN <<slot>>[i] ELSE q[i - Len(<<slot>>)]
    BY <2>1, ConcatProperties, Zenon
  <2> HIDE DEF r
  <2> QED
    BY <2>1, <2>2, QueueFacts
<1> HIDE DEF r
<1>3. Distinct(r)
  <2>1. DOMAIN r = 1..(Len(q) + 1) /\ DOMAIN q = 1..Len(q)
    BY <1>2, QueueFacts, Zenon
  <2>2. \A i \in 1..Len(q) : q[i] # slot
    BY QueueFacts, Zenon
  <2>3. ASSUME NEW i \in 2..(Len(q) + 1), NEW j \in 2..(Len(q) + 1), r[i] = r[j] PROVE i = j
    <3>1. i - 1 \in DOMAIN q /\ j - 1 \in DOMAIN q /\ q[i - 1] = q[j - 1]
      BY <1>2, <2>1, <2>3
    <3>2. i - 1 = j - 1
      BY <3>1, Zenon DEF Distinct
    <3> QED
      BY <3>2
  <2>4. \A i \in 2..(Len(q) + 1) : r[i] # slot
    BY <1>2, <2>2
  <2> QED
    BY <1>2, <2>1, <2>3, <2>4 DEF Distinct
<1>4. Elements(r) = Elements(q) \cup {slot}
  <2>1. DOMAIN r = 1..(Len(q) + 1) /\ DOMAIN q = 1..Len(q)
    BY <1>2, QueueFacts, Zenon
  <2>2. \A i \in 1..Len(q) : q[i] = r[i + 1] /\ i + 1 \in 1..(Len(q) + 1)
    BY <1>2
  <2>3. Elements(q) \subseteq Elements(r)
    BY <2>1, <2>2, Zenon DEF Elements
  <2>4. slot \in Elements(r)
    BY <1>2, <2>1 DEF Elements
  <2>5. \A i \in 1..(Len(q) + 1) : i = 1 \/ i \in 2..(Len(q) + 1)
    BY <1>2
  <2>6. \A i \in 2..(Len(q) + 1) : i - 1 \in 1..Len(q)
    BY <1>2
  <2>7. Elements(r) \subseteq Elements(q) \cup {slot}
    BY <1>2, <2>1, <2>5, <2>6 DEF Elements
  <2> QED
    BY <2>3, <2>4, <2>7, Zenon
<1> QED
  BY <1>1, <1>2, <1>3, <1>4, Zenon

\* remove, entry by entry: kept[n] is what it keeps of the first n entries.
LEMMA RemoveUnfolds ==
  ASSUME NEW q \in Seq(Slots), NEW slot
  PROVE  \E kept \in [0..Len(q) -> Seq(Slots)] :
           /\ kept[0] = <<>>
           /\ \A n \in 1..Len(q) :
                kept[n] = IF q[n] = slot THEN kept[n - 1] ELSE Append(kept[n - 1], q[n])
           /\ remove(q, slot) = kept[Len(q)]
<1> DEFINE N == Len(q)
           S == Seq(Slots)
           base == <<>>
           Keep(r, n) == IF q[n] = slot THEN r ELSE Append(r, q[n])
           step == [n \in 1..N |-> [r \in S |-> Keep(r, n)]]
           Equation(k) == k = [n \in 0..N |-> IF n = 0 THEN base ELSE Keep(k[n - 1], n)]
           kept == CHOOSE k : Equation(k)
<1>1. N \in Nat /\ base \in S
  BY QueueFacts
<1>2. \A n \in 1..N, r \in S : Keep(r, n) \in S
  BY QueueFacts, AppendProperties, Zenon
<1>3. remove(q, slot) = kept[N]
  BY Zenon DEF remove
<1> HIDE DEF N, S, base, Keep
<1>4. \E k : Equation(k)
  <2>1. step \in [1..N -> [S -> S]]
    BY <1>2, Zenon
  <2>2. \A n \in 1..N, r \in S : step[n][r] = Keep(r, n)
    BY Zenon
  <2> HIDE DEF step
  <2>3. PICK k : IsRecursion(N, S, base, step, k)
    BY <1>1, <2>1, RecursionExists, Zenon
  <2>4. \A n \in 1..N : k[n] = Keep(k[n - 1], n)
    BY <1>1, <2>2, <2>3 DEF IsRecursion
  <2>5. Equation(k)
    BY <1>1, <2>3, <2>4 DEF IsRecursion
  <2> QED
    BY <2>5, Zenon
<1>5. Equation(kept)
  BY <1>4, Zenon
<1> HIDE DEF kept
<1>6. kept[0] = base /\ \A n \in 1..N : kept[n] = Keep(kept[n - 1], n)
  BY <1>1, <1>5
<1>7. kept \in [0..N -> S]
  <2> DEFINE P == {n \in 0..N : kept[n] \in S}
  <2>1. 0 \in P
    BY <1>1, <1>6
  <2>2. ASSUME NEW n \in 1..N, n - 1 \in P PROVE n \in P
    BY <1>1, <1>2, <1>6, <2>2
  <2>3. \A n \in 0..N : n \in P
    <3> HIDE DEF P
    <3> QED
      BY <1>1, <2>1, <2>2, SetInduction, Zenon
  <2>4. \A n \in 0..N : kept[n] \in S
    BY <2>3, Zenon
  <2>5. DOMAIN kept = 0..N
    BY <1>5, Zenon
  <2> QED
    BY <1>5, <2>4, <2>5, Zenon
<1> QED
  BY <1>3, <1>6, <1>7, Zenon DEF N, S, base, Keep

\* remove takes out the one slot and repeats nothing.
LEMMA RemoveFacts ==
  ASSUME NEW q \in Seq(Slots), Distinct(q), NEW slot \in Slots
  PROVE  /\ remove(q, slot) \in Seq(Slots)
         /\ Distinct(remove(q, slot))
         /\ Elements(remove(q, slot)) = Elements(q) \ {slot}
<1> DEFINE N == Len(q)
<1>1. N \in Nat /\ DOMAIN q = 1..N /\ \A n \in 1..N : q[n] \in Slots
  BY QueueFacts, Zenon
<1>2. PICK kept \in [0..N -> Seq(Slots)] :
        /\ kept[0] = <<>>
        /\ \A n \in 1..N : kept[n] = IF q[n] = slot THEN kept[n - 1] ELSE Append(kept[n - 1], q[n])
        /\ remove(q, slot) = kept[N]
  BY RemoveUnfolds, Zenon
<1> HIDE DEF N
<1> DEFINE First(n) == {q[i] : i \in 1..n} \ {slot}
           P == {n \in 0..N : Distinct(kept[n]) /\ Elements(kept[n]) = First(n)}
<1>3. 0 \in P
  <2>1. kept[0] = <<>> /\ 0 \in 0..N
    BY <1>1, <1>2
  <2>2. Distinct(<<>>) /\ Elements(<<>>) = First(0)
    BY DEF Distinct, Elements
  <2> QED
    BY <2>1, <2>2, Zenon
<1>4. ASSUME NEW n \in 1..N, n - 1 \in P PROVE n \in P
  <2> DEFINE r == kept[n - 1]
  <2>1. r \in Seq(Slots) /\ Distinct(r) /\ Elements(r) = First(n - 1)
    BY <1>1, <1>2, <1>4, Zenon
  <2>2. kept[n] = IF q[n] = slot THEN r ELSE Append(r, q[n])
    BY <1>2, Zenon
  <2>3. First(n) = First(n - 1) \cup ({q[n]} \ {slot})
    BY <1>1
  <2>4. n \in 0..N
    BY <1>1
  <2> HIDE DEF r, First
  <2>5. CASE q[n] = slot
    BY <2>1, <2>2, <2>3, <2>4, <2>5, Zenon
  <2>6. CASE q[n] # slot
    <3>1. q[n] \in Slots /\ q[n] \notin Elements(r)
      <4>1. ASSUME NEW i \in 1..(n - 1) PROVE q[i] # q[n]
        <5>1. i \in DOMAIN q /\ n \in DOMAIN q /\ i # n
          BY <1>1
        <5> QED
          BY <5>1, Zenon DEF Distinct
      <4> QED
        BY <1>1, <2>1, <4>1, Zenon DEF First
    <3>2. /\ Len(r) \in Nat /\ DOMAIN r = 1..Len(r)
          /\ DOMAIN Append(r, q[n]) = 1..(Len(r) + 1)
          /\ \A i \in 1..Len(r) : Append(r, q[n])[i] = r[i]
          /\ Append(r, q[n])[Len(r) + 1] = q[n]
      BY <2>1, <3>1, QueueFacts, AppendProperties
    <3>3. Distinct(Append(r, q[n]))
      BY <2>1, <3>1, <3>2, QueueFacts DEF Distinct
    <3>4. Elements(Append(r, q[n])) = Elements(r) \cup {q[n]}
      BY <3>2 DEF Elements
    <3> QED
      BY <2>1, <2>2, <2>3, <2>4, <2>6, <3>3, <3>4, Zenon
  <2> QED
    BY <2>5, <2>6, Zenon
<1>5. \A n \in 0..N : n \in P
  <2> HIDE DEF P
  <2> QED
    BY <1>1, <1>3, <1>4, SetInduction, Zenon
<1>6. Distinct(kept[N]) /\ Elements(kept[N]) = First(N)
  BY <1>1, <1>5
<1>7. First(N) = Elements(q) \ {slot}
  BY <1>1, Zenon DEF Elements
<1> QED
  BY <1>1, <1>2, <1>6, <1>7

\* Drained, level by level.
LEMMA DrainedUnfolds ==
  ASSUME NEW s, s.queues \in [Levels -> Seq(Slots)]
  PROVE  \E upto \in [Levels -> Seq(Slots)] :
           /\ upto[0] = s.queues[0]
           /\ \A n \in 1..(PriorityLevels - 1) : upto[n] = upto[n - 1] \o s.queues[n]
           /\ Drained(s) = upto[PriorityLevels - 1]
<1> DEFINE N == PriorityLevels - 1
           S == Seq(Slots)
           base == s.queues[0]
           Join(r, n) == r \o s.queues[n]
           step == [n \in 1..N |-> [r \in S |-> Join(r, n)]]
           Equation(k) == k = [n \in Levels |-> IF n = 0 THEN base ELSE Join(k[n - 1], n)]
           upto == CHOOSE k : Equation(k)
<1>1. N \in Nat /\ Levels = 0..N /\ base \in S
  BY SchedulerAssumption DEF Levels
<1>2. \A n \in 1..N, r \in S : Join(r, n) \in S
  BY <1>1, ConcatProperties
<1>3. Drained(s) = upto[N]
  BY Zenon DEF Drained
<1> HIDE DEF N, S, base, Join
<1>4. \E k : Equation(k)
  <2>1. step \in [1..N -> [S -> S]]
    BY <1>2, Zenon
  <2>2. \A n \in 1..N, r \in S : step[n][r] = Join(r, n)
    BY Zenon
  <2> HIDE DEF step
  <2>3. PICK k : IsRecursion(N, S, base, step, k)
    BY <1>1, <2>1, RecursionExists, Zenon
  <2>4. \A n \in 1..N : k[n] = Join(k[n - 1], n)
    BY <1>1, <2>2, <2>3 DEF IsRecursion
  <2>5. Equation(k)
    BY <1>1, <2>3, <2>4 DEF IsRecursion
  <2> QED
    BY <2>5, Zenon
<1>5. Equation(upto)
  BY <1>4, Zenon
<1> HIDE DEF upto
<1>6. upto[0] = base /\ \A n \in 1..N : upto[n] = Join(upto[n - 1], n)
  BY <1>1, <1>5
<1>7. upto \in [Levels -> S]
  <2> DEFINE P == {n \in 0..N : upto[n] \in S}
  <2>1. 0 \in P
    BY <1>1, <1>6
  <2>2. ASSUME NEW n \in 1..N, n - 1 \in P PROVE n \in P
    BY <1>1, <1>2, <1>6, <2>2
  <2>3. \A n \in 0..N : n \in P
    <3> HIDE DEF P
    <3> QED
      BY <1>1, <2>1, <2>2, SetInduction, Zenon
  <2>4. \A n \in 0..N : upto[n] \in S
    BY <2>3, Zenon
  <2>5. DOMAIN upto = 0..N
    BY <1>1, <1>5, Zenon
  <2> QED
    BY <1>1, <1>5, <2>4, <2>5, Zenon
<1> QED
  BY <1>3, <1>6, <1>7, Zenon DEF N, S, base, Join

\* Two queues without a common slot, one after the other.
LEMMA ConcatFacts ==
  ASSUME NEW q \in Seq(Slots), NEW r \in Seq(Slots)
  PROVE  /\ q \o r \in Seq(Slots)
         /\ Elements(q \o r) = Elements(q) \cup Elements(r)
         /\ Distinct(q) /\ Distinct(r) /\ Elements(q) \cap Elements(r) = {}
              => Distinct(q \o r)
<1> DEFINE c == q \o r
           m == Len(q)
           n == Len(r)
<1>1. /\ c \in Seq(Slots) /\ m \in Nat /\ n \in Nat
      /\ DOMAIN c = 1..(m + n) /\ DOMAIN q = 1..m /\ DOMAIN r = 1..n
      /\ \A i \in 1..(m + n) : c[i] = IF i <= m THEN q[i] ELSE r[i - m]
  <2>1. /\ c \in Seq(Slots) /\ Len(c) = m + n
        /\ \A i \in 1..(m + n) : c[i] = IF i <= m THEN q[i] ELSE r[i - m]
    BY ConcatProperties, Zenon
  <2>2. DOMAIN c = 1..Len(c) /\ m \in Nat /\ n \in Nat /\ DOMAIN q = 1..m /\ DOMAIN r = 1..n
    <3> HIDE DEF c
    <3> QED
      BY <2>1, QueueFacts, Zenon
  <2> QED
    BY <2>1, <2>2, Zenon
<1> HIDE DEF c, m, n
<1>2. Elements(c) \subseteq Elements(q) \cup Elements(r)
  <2>1. ASSUME NEW i \in 1..(m + n) PROVE c[i] \in Elements(q) \cup Elements(r)
    <3>1. CASE i <= m
      <4>1. i \in 1..m /\ c[i] = q[i]
        BY <1>1, <3>1
      <4> QED
        BY <1>1, <4>1, Zenon DEF Elements
    <3>2. CASE i > m
      <4>1. i - m \in 1..n /\ c[i] = r[i - m]
        BY <1>1, <3>2
      <4> QED
        BY <1>1, <4>1, Zenon DEF Elements
    <3> QED
      BY <1>1, <3>1, <3>2
  <2> QED
    BY <1>1, <2>1, Zenon DEF Elements
<1>3. Elements(q) \subseteq Elements(c)
  BY <1>1 DEF Elements
<1>4. Elements(r) \subseteq Elements(c)
  <2>1. \A i \in 1..n : i + m \in 1..(m + n) /\ c[i + m] = r[i]
    BY <1>1
  <2> QED
    BY <1>1, <2>1, ZenonT(40) DEF Elements
<1>5. ASSUME Distinct(q), Distinct(r), Elements(q) \cap Elements(r) = {} PROVE Distinct(c)
  <2>1. \A i \in 1..m, j \in 1..n : q[i] # r[j]
    <3>1. \A i \in 1..m : q[i] \in Elements(q)
      BY <1>1, Zenon DEF Elements
    <3>2. \A j \in 1..n : r[j] \in Elements(r)
      BY <1>1, Zenon DEF Elements
    <3> QED
      BY <1>5, <3>1, <3>2, Zenon
  <2>2. SUFFICES ASSUME NEW i \in 1..(m + n), NEW j \in 1..(m + n), c[i] = c[j]
                 PROVE  i = j
    BY <1>1, Zenon DEF Distinct
  <2>3. CASE i <= m /\ j <= m
    <3>1. i \in DOMAIN q /\ j \in DOMAIN q /\ q[i] = q[j]
      BY <1>1, <2>2, <2>3
    <3> QED
      BY <1>5, <3>1, Zenon DEF Distinct
  <2>4. CASE i > m /\ j > m
    <3>1. i - m \in DOMAIN r /\ j - m \in DOMAIN r /\ r[i - m] = r[j - m]
      BY <1>1, <2>2, <2>4
    <3>2. i - m = j - m
      BY <1>5, <3>1, Zenon DEF Distinct
    <3> QED
      BY <1>1, <3>2
  <2>5. CASE i <= m /\ j > m
    BY <1>1, <2>1, <2>2, <2>5
  <2>6. CASE i > m /\ j <= m
    BY <1>1, <2>1, <2>2, <2>6
  <2> QED
    BY <1>1, <2>3, <2>4, <2>5, <2>6
<1> QED
  BY <1>1, <1>2, <1>3, <1>4, <1>5, Zenon DEF c

\* Queues without repetition, no slot in two of them, are drained without
\* repetition.
LEMMA DrainedFacts ==
  ASSUME NEW s, s.queues \in [Levels -> Seq(Slots)],
         \A level \in Levels : Distinct(s.queues[level]),
         \A j, k \in Levels : j # k => Elements(s.queues[j]) \cap Elements(s.queues[k]) = {}
  PROVE  /\ Drained(s) \in Seq(Slots)
         /\ Distinct(Drained(s))
         /\ \A slot : slot \in Elements(Drained(s)) <=>
                       \E level \in Levels : slot \in Elements(s.queues[level])
<1> DEFINE N == PriorityLevels - 1
           Below(slot, n) == \E level \in 0..n : slot \in Elements(s.queues[level])
<1>1. N \in Nat /\ Levels = 0..N
  BY SchedulerAssumption DEF Levels
<1>2. PICK upto \in [Levels -> Seq(Slots)] :
        /\ upto[0] = s.queues[0]
        /\ \A n \in 1..N : upto[n] = upto[n - 1] \o s.queues[n]
        /\ Drained(s) = upto[N]
  BY DrainedUnfolds, Zenon
<1> HIDE DEF N
<1> DEFINE P == {n \in 0..N : /\ Distinct(upto[n])
                              /\ \A slot : slot \in Elements(upto[n]) <=> Below(slot, n)}
<1>3. 0 \in P
  BY <1>1, <1>2
<1>4. ASSUME NEW n \in 1..N, n - 1 \in P PROVE n \in P
  <2> DEFINE q == upto[n - 1]
             r == s.queues[n]
  <2>1. n \in Levels /\ n - 1 \in Levels
    BY <1>1
  <2>2. q \in Seq(Slots) /\ r \in Seq(Slots) /\ Distinct(r) /\ upto[n] = q \o r
    BY <1>1, <1>2, <2>1, Zenon
  <2>3. Distinct(q) /\ \A slot : slot \in Elements(q) <=> Below(slot, n - 1)
    BY <1>4, Zenon
  <2>4. \A slot : Below(slot, n) <=> Below(slot, n - 1) \/ slot \in Elements(r)
    <3>1. 0..n = (0..(n - 1)) \cup {n}
      BY <1>1
    <3> QED
      BY <3>1, Zenon
  <2>5. Elements(q) \cap Elements(r) = {}
    <3>1. \A level \in 0..(n - 1) : level \in Levels /\ level # n
      BY <1>1
    <3>2. \A level \in 0..(n - 1) : Elements(s.queues[level]) \cap Elements(r) = {}
      BY <2>1, <3>1, Zenon
    <3> QED
      BY <2>3, <3>2, Zenon
  <2>6. n \in 0..N
    BY <1>1
  <2> HIDE DEF q, r, Below
  <2>7. Distinct(q \o r) /\ Elements(q \o r) = Elements(q) \cup Elements(r)
    BY <2>2, <2>3, <2>5, ConcatFacts, Zenon
  <2> QED
    BY <2>2, <2>3, <2>4, <2>6, <2>7, Zenon
<1>5. \A n \in 0..N : n \in P
  <2> HIDE DEF P
  <2> QED
    BY <1>1, <1>3, <1>4, SetInduction, Zenon
<1>6. N \in P
  BY <1>1, <1>5
<1>7. Distinct(upto[N]) /\ \A slot : slot \in Elements(upto[N]) <=> Below(slot, N)
  BY <1>6, Zenon
<1> QED
  BY <1>1, <1>2, <1>7

-----------------------------------------------------------------------------
(* The methods of Scheduler *)

\* The Scheduler structure, field by field.
SchedulerType ==
  [tasks : [Slots -> TaskType \cup {EmptySlot}],
   queues : [Levels -> Seq(Slots)],
   current : Slots \cup {NoTask},
   boost_countdown : 1..BoostInterval,
   next_id : 0..(MaxIds + 1)]

\* Every queue holds the ready tasks of its level, each once.
Filed(s) ==
  \A level \in Levels :
    /\ Distinct(s.queues[level])
    /\ \A slot \in Slots :
         slot \in Elements(s.queues[level]) <=>
           s.tasks[slot].state = "Ready" /\ s.tasks[slot].priority = level

\* test_kernel_task is in slot 0 and never blocks or exits: something is
\* always ready.
IdleTask(s) ==
  /\ s.tasks[0].id = 0
  /\ s.tasks[0].state \in {"Ready", "Running"}
  /\ s.tasks[0].user = FALSE

\* No task but the current one is running.
Alone(s) == \A slot \in Slots : s.tasks[slot].state = "Running" => slot = s.current

\* What every method keeps.
Sound(s) == s \in SchedulerType /\ Filed(s) /\ IdleTask(s) /\ Alone(s)

\* A task is current, and it is not one that waits in a queue.
Switched(s) ==
  /\ s.current \in Slots
  /\ s.tasks[s.current].state \in {"Running", "Blocked", "Dead"}

\* The least member of a set of numbers, which a scan from 0 finds.
LEMMA LeastFacts ==
  ASSUME NEW S \in SUBSET Nat, S # {}
  PROVE  Least(S) \in S /\ \A y \in S : Least(S) <= y
  BY LeastExists, Zenon DEF Least

\* What is not an empty slot is a task.
LEMMA TaskFacts ==
  ASSUME NEW s \in SchedulerType, NEW slot \in Slots
  PROVE  /\ s.tasks[slot] \in TaskType \cup {EmptySlot}
         /\ s.tasks[slot].state # "None" => s.tasks[slot] \in TaskType
  BY DEF SchedulerType, EmptySlot

\* t is s with task in slot, and slot at the back of the queue of its level.
Pushed(s, slot, task, t) ==
  /\ t.tasks = [s.tasks EXCEPT ![slot] = task]
  /\ t.queues = [s.queues EXCEPT ![task.priority] = push_back(s.queues[task.priority], slot)]

\* A task that was not ready becomes so and is appended to its queue.
LEMMA FiledByPush ==
  ASSUME NEW s \in SchedulerType, Filed(s), NEW slot \in Slots,
         s.tasks[slot].state # "Ready",
         NEW task \in TaskType, task.state = "Ready",
         NEW t, Pushed(s, slot, task, t)
  PROVE  /\ t.tasks \in [Slots -> TaskType \cup {EmptySlot}]
         /\ t.queues \in [Levels -> Seq(Slots)]
         /\ Filed(t)
<1> DEFINE prio == task.priority
           q == s.queues[prio]
<1>1. prio \in Levels
  BY Zenon DEF TaskType
<1> USE DEF Pushed
<1>2. s.tasks \in [Slots -> TaskType \cup {EmptySlot}] /\ s.queues \in [Levels -> Seq(Slots)]
  BY Zenon DEF SchedulerType
<1>3. q \in Seq(Slots) /\ Distinct(q) /\ slot \notin Elements(q)
  BY <1>1, <1>2, Zenon DEF Filed
<1>4. /\ push_back(q, slot) \in Seq(Slots)
      /\ Distinct(push_back(q, slot))
      /\ Elements(push_back(q, slot)) = Elements(q) \cup {slot}
  BY <1>3, PushBackFacts, Zenon
<1>5. t.tasks \in [Slots -> TaskType \cup {EmptySlot}]
  BY <1>2, Zenon
<1>6. t.queues \in [Levels -> Seq(Slots)]
  BY <1>1, <1>2, <1>4, Zenon
<1>7. ASSUME NEW level \in Levels PROVE Distinct(t.queues[level])
  BY <1>1, <1>2, <1>4 DEF Filed
<1>8. ASSUME NEW level \in Levels, NEW other \in Slots
      PROVE  other \in Elements(t.queues[level]) <=>
               t.tasks[other].state = "Ready" /\ t.tasks[other].priority = level
  <2>1. other \in Elements(s.queues[level]) <=>
          s.tasks[other].state = "Ready" /\ s.tasks[other].priority = level
    BY Zenon DEF Filed
  <2>2. t.tasks[other] = IF other = slot THEN task ELSE s.tasks[other]
    BY <1>2, Zenon
  <2>3. t.queues[level] = IF level = prio THEN push_back(q, slot) ELSE s.queues[level]
    BY <1>2, Zenon
  <2> HIDE DEF q, prio
  <2>4. CASE level = prio
    BY <1>4, <2>1, <2>2, <2>3, <2>4 DEF q, prio
  <2>5. CASE level # prio
    BY <2>1, <2>2, <2>3, <2>5, Zenon DEF prio
  <2> QED
    BY <2>4, <2>5, Zenon
<1> QED
  BY <1>5, <1>6, <1>7, <1>8, Zenon DEF Filed

\* t is s with task in slot, and the same slots queued at every level.
Touched(s, slot, task, t) ==
  /\ t = [s EXCEPT !.tasks = [s.tasks EXCEPT ![slot] = task], !.queues = t.queues]
  /\ t.queues \in [Levels -> Seq(Slots)]
  /\ \A level \in Levels : /\ Distinct(t.queues[level])
                           /\ Elements(t.queues[level]) = Elements(s.queues[level])

\* A task that is not ready and does not become so changes.
LEMMA FiledByTouch ==
  ASSUME NEW s \in SchedulerType, Filed(s), NEW slot \in Slots,
         s.tasks[slot].state # "Ready",
         NEW task \in TaskType, task.state # "Ready",
         NEW t, Touched(s, slot, task, t)
  PROVE  /\ t \in SchedulerType
         /\ Filed(t)
         /\ t.current = s.current /\ t.next_id = s.next_id
         /\ \A other \in Slots : t.tasks[other] = IF other = slot THEN task ELSE s.tasks[other]
<1>1. s.tasks \in [Slots -> TaskType \cup {EmptySlot}]
  BY Zenon DEF SchedulerType
<1>2. t \in SchedulerType /\ t.current = s.current /\ t.next_id = s.next_id
  BY <1>1, Zenon DEF Touched, SchedulerType
<1>a. t.tasks = [s.tasks EXCEPT ![slot] = task]
  BY Zenon DEF Touched, SchedulerType
<1>b. \A level \in Levels : /\ Distinct(t.queues[level])
                            /\ Elements(t.queues[level]) = Elements(s.queues[level])
  BY Zenon DEF Touched
<1>3. ASSUME NEW level \in Levels, NEW other \in Slots
      PROVE  other \in Elements(t.queues[level]) <=>
               t.tasks[other].state = "Ready" /\ t.tasks[other].priority = level
  <2>1. other \in Elements(s.queues[level]) <=>
          s.tasks[other].state = "Ready" /\ s.tasks[other].priority = level
    BY Zenon DEF Filed
  <2>2. t.tasks[other] = IF other = slot THEN task ELSE s.tasks[other]
    BY <1>1, <1>a, Zenon
  <2> QED
    BY <1>b, <2>1, <2>2, Zenon
<1>4. Filed(t)
  BY <1>b, <1>3, Zenon DEF Filed
<1> QED
  BY <1>1, <1>2, <1>4, <1>a, Zenon

\* pick_next takes the first entry of the highest queue that has one.
LEMMA PickNextFacts ==
  ASSUME NEW s \in SchedulerType, Filed(s),
         NEW some \in Slots, s.tasks[some].state = "Ready"
  PROVE  LET p == pick_next(s)
         IN /\ p.slot \in Slots
            /\ s.tasks[p.slot].state = "Ready"
            /\ p.queues \in [Levels -> Seq(Slots)]
            /\ \A level \in Levels :
                 /\ Distinct(p.queues[level])
                 /\ Elements(p.queues[level]) = Elements(s.queues[level]) \ {p.slot}
            /\ \A slot \in Slots : s.tasks[slot].state = "Ready" =>
                 s.tasks[p.slot].priority <= s.tasks[slot].priority
<1> DEFINE live == {level \in Levels : ReadyAt(s, level) # {}}
           level == Least(live)
           q == s.queues[level]
           i == Least(ReadyAt(s, level))
<1>1. s.tasks \in [Slots -> TaskType \cup {EmptySlot}] /\ s.queues \in [Levels -> Seq(Slots)]
  BY Zenon DEF SchedulerType
<1>2. ASSUME NEW k \in Levels
      PROVE  /\ s.queues[k] \in Seq(Slots)
             /\ ReadyAt(s, k) = 1..Len(s.queues[k])
             /\ Len(s.queues[k]) \in Nat
  <2>1. s.queues[k] \in Seq(Slots)
    BY <1>1, Zenon
  <2>2. DOMAIN s.queues[k] = 1..Len(s.queues[k]) /\ Len(s.queues[k]) \in Nat
    BY <2>1, QueueFacts, Zenon
  <2>3. \A n \in 1..Len(s.queues[k]) : s.queues[k][n] \in Slots /\ s.queues[k][n] \in Elements(s.queues[k])
    BY <2>1, QueueFacts, Zenon
  <2>4. \A n \in 1..Len(s.queues[k]) : s.tasks[s.queues[k][n]].state = "Ready"
    BY <2>3, Zenon DEF Filed
  <2> QED
    BY <2>1, <2>2, <2>4, Zenon DEF ReadyAt
<1>3. ASSUME NEW slot \in Slots, s.tasks[slot].state = "Ready"
      PROVE  s.tasks[slot].priority \in live
  <2>1. s.tasks[slot].priority \in Levels
    BY <1>3, TaskFacts, Zenon DEF TaskType
  <2>2. slot \in Elements(s.queues[s.tasks[slot].priority])
    BY <1>3, <2>1, Zenon DEF Filed
  <2>3. \E n \in DOMAIN s.queues[s.tasks[slot].priority] : TRUE
    BY <2>2, Zenon DEF Elements
  <2>4. ReadyAt(s, s.tasks[slot].priority) # {}
    BY <2>1, <2>3, <1>2, QueueFacts, Zenon
  <2> QED
    BY <2>1, <2>4, Zenon
<1>4. live # {} /\ live \in SUBSET Nat
  <2>1. live # {}
    BY <1>3, Zenon
  <2>2. Levels \subseteq Nat
    BY DEF Levels
  <2> QED
    BY <2>1, <2>2, Zenon
<1>5. level \in live /\ \A k \in live : level <= k
  <2> HIDE DEF live
  <2> QED
    BY <1>4, LeastFacts, Zenon
<1>6. level \in Levels /\ ReadyAt(s, level) # {}
  BY <1>5, Zenon
<1>7. q \in Seq(Slots) /\ Len(q) \in Nat /\ ReadyAt(s, level) = 1..Len(q)
  <2> HIDE DEF level
  <2> QED
    BY <1>2, <1>6, Zenon
<1>8. 1 \in 1..Len(q) /\ i = 1
  <2>1. ReadyAt(s, level) \in SUBSET Nat
    <3> HIDE DEF level, q
    <3> QED
      BY <1>7
  <2>2. i \in ReadyAt(s, level) /\ \A n \in ReadyAt(s, level) : i <= n
    <3> HIDE DEF level
    <3> QED
      BY <1>6, <2>1, LeastFacts, Zenon
  <2> HIDE DEF i, level, q
  <2>3. i \in 1..Len(q) /\ \A n \in 1..Len(q) : i <= n
    BY <1>7, <2>2, Zenon
  <2>4. 1 \in 1..Len(q)
    BY <1>7, <2>3
  <2> QED
    BY <1>7, <2>3, <2>4
<1>9. pick_next(s) = [slot |-> q[1],
                      queues |-> [k \in Levels |->
                        IF k < level THEN <<>>
                        ELSE IF k = level THEN SubSeq(s.queues[k], 2, Len(s.queues[k]))
                        ELSE s.queues[k]]]
  <2>1. pick_next(s) = [slot |-> q[i],
                        queues |-> [k \in Levels |->
                          IF k < level THEN <<>>
                          ELSE IF k = level THEN SubSeq(s.queues[k], i + 1, Len(s.queues[k]))
                          ELSE s.queues[k]]]
    BY <1>4, Zenon DEF pick_next
  <2>2. i + 1 = 2
    BY <1>8
  <2> HIDE DEF i, level, q, live
  <2> QED
    BY <1>8, <2>1, <2>2, Zenon
<1> DEFINE slot1 == q[1]
           rest == SubSeq(q, 2, Len(q))
<1>10. /\ slot1 \in Slots /\ slot1 \in Elements(q)
       /\ s.tasks[slot1].state = "Ready" /\ s.tasks[slot1].priority = level
  <2> HIDE DEF level, i
  <2>1. slot1 \in Slots /\ slot1 \in Elements(q)
    <3> HIDE DEF q
    <3> QED
      BY <1>7, <1>8, QueueFacts, Zenon
  <2> QED
    BY <1>6, <2>1, Zenon DEF Filed
<1> HIDE DEF level, i, live
<1>11. rest \in Seq(Slots) /\ Distinct(rest) /\ Elements(rest) = Elements(q) \ {slot1}
  <2>1. Distinct(q)
    BY <1>6, Zenon DEF Filed
  <2> HIDE DEF q
  <2>2. DOMAIN q = 1..Len(q) /\ \A n \in 1..Len(q) : q[n] \in Slots
    BY <1>7, QueueFacts, Zenon
  <2>3. /\ rest \in Seq(Slots)
        /\ Len(rest) = Len(q) - 1
        /\ \A n \in 1..(Len(q) - 1) : rest[n] = q[n + 1]
    BY <1>7, <1>8, <2>2, SubSeqProperties
  <2> HIDE DEF rest
  <2>4. DOMAIN rest = 1..(Len(q) - 1)
    BY <2>3, QueueFacts, Zenon
  <2>5. ASSUME NEW m \in 1..(Len(q) - 1), NEW n \in 1..(Len(q) - 1), rest[m] = rest[n]
        PROVE  m = n
    <3>1. m + 1 \in DOMAIN q /\ n + 1 \in DOMAIN q /\ q[m + 1] = q[n + 1]
      BY <1>7, <2>2, <2>3, <2>5
    <3>2. m + 1 = n + 1
      BY <2>1, <3>1, Zenon DEF Distinct
    <3> QED
      BY <3>2
  <2>6. Distinct(rest)
    BY <2>4, <2>5, Zenon DEF Distinct
  <2>7. Elements(rest) \subseteq Elements(q) \ {slot1}
    <3>1. ASSUME NEW n \in 1..(Len(q) - 1) PROVE rest[n] \in Elements(q) /\ rest[n] # slot1
      <4>1. n + 1 \in DOMAIN q /\ 1 \in DOMAIN q /\ n + 1 # 1 /\ rest[n] = q[n + 1]
        BY <1>7, <1>8, <2>2, <2>3
      <4>2. q[n + 1] # q[1]
        BY <2>1, <4>1, Zenon DEF Distinct
      <4> QED
        BY <4>1, <4>2, Zenon DEF Elements
    <3> QED
      BY <2>4, <3>1, Zenon DEF Elements
  <2>8. ASSUME NEW n \in DOMAIN q, q[n] # slot1 PROVE q[n] \in Elements(rest)
    <3>1. n - 1 \in 1..(Len(q) - 1) /\ rest[n - 1] = q[n]
      BY <1>7, <2>2, <2>3, <2>8
    <3> QED
      BY <2>4, <3>1, Zenon DEF Elements
  <2>9. Elements(q) \ {slot1} \subseteq Elements(rest)
    BY <2>8, Zenon DEF Elements
  <2> QED
    BY <2>3, <2>6, <2>7, <2>9, Zenon
<1>12. ASSUME NEW k \in Levels, k < level PROVE s.queues[k] = <<>>
  <2>1. k \notin live /\ level \in Nat /\ k \in Nat
    BY <1>5, <1>6, <1>12 DEF Levels
  <2>2. ReadyAt(s, k) = {}
    BY <2>1, Zenon DEF live
  <2>3. 1..Len(s.queues[k]) = {} /\ Len(s.queues[k]) \in Nat
    BY <1>2, <2>2, Zenon
  <2>4. Len(s.queues[k]) = 0
    <3>1. 1 \notin 1..Len(s.queues[k])
      BY <2>3, Zenon
    <3> QED
      BY <2>3, <3>1
  <2> QED
    BY <1>2, <2>4
<1>13. ASSUME NEW k \in Levels, k # level PROVE slot1 \notin Elements(s.queues[k])
  BY <1>10, <1>13, Zenon DEF Filed
<1> DEFINE p == pick_next(s)
<1>14. p.slot = slot1
  BY <1>9
<1>15. ASSUME NEW k \in Levels
       PROVE  p.queues[k] = IF k = level THEN rest ELSE s.queues[k]
  BY <1>6, <1>9, <1>12 DEF Levels
<1>16. DOMAIN p.queues = Levels /\ p.queues = [k \in Levels |-> p.queues[k]]
  BY <1>9
<1> HIDE DEF p, rest, slot1
<1>17. ASSUME NEW k \in Levels
       PROVE  /\ p.queues[k] \in Seq(Slots)
              /\ Distinct(p.queues[k])
              /\ Elements(p.queues[k]) = Elements(s.queues[k]) \ {slot1}
  <2>1. CASE k = level
    BY <1>11, <1>15, <2>1, Zenon
  <2>2. CASE k # level
    <3>1. Distinct(s.queues[k])
      BY Zenon DEF Filed
    <3> QED
      BY <1>2, <1>13, <1>15, <2>2, <3>1, Zenon
  <2> QED
    BY <2>1, <2>2, Zenon
<1>18. ASSUME NEW slot \in Slots, s.tasks[slot].state = "Ready"
       PROVE  s.tasks[slot1].priority <= s.tasks[slot].priority
  BY <1>3, <1>5, <1>10, <1>18, Zenon
<1>19. p.queues \in [Levels -> Seq(Slots)]
  BY <1>16, <1>17, Zenon
<1> QED
  BY <1>10, <1>14, <1>17, <1>18, <1>19, Zenon DEF p

\* Two states that agree on who runs and on the state, id and kind of every
\* task; no task but the current one changes its level, except to 0.
Kept(s, t) ==
  /\ t.current = s.current /\ t.next_id = s.next_id
  /\ \A slot \in Slots :
       /\ t.tasks[slot].state = s.tasks[slot].state
       /\ t.tasks[slot].id = s.tasks[slot].id
       /\ t.tasks[slot].user = s.tasks[slot].user
       /\ slot # s.current => t.tasks[slot].priority \in {s.tasks[slot].priority, 0}

\* The two hold the same tasks, whatever these do.
SameTasks(s, t) ==
  /\ t.next_id = s.next_id
  /\ \A slot \in Slots :
       /\ t.tasks[slot].id = s.tasks[slot].id
       /\ t.tasks[slot].user = s.tasks[slot].user
       /\ Exists(t, slot) <=> Exists(s, slot)

\* The invariants that only read ids, states and the current slot survive a
\* change of priorities and tick counts.
LEMMA KeptSound ==
  ASSUME NEW s, Sound(s), NEW t \in SchedulerType, Filed(t), Kept(s, t)
  PROVE  Sound(t) /\ (Switched(s) => Switched(t)) /\ SameTasks(s, t)
<1>1. 0 \in Slots
  BY MaxTasksAssumption DEF Slots
<1> QED
  BY <1>1, Zenon DEF Sound, IdleTask, Alone, Kept, Switched, SameTasks, Exists

\* Two such changes in a row are one.
LEMMA KeptTransitive ==
  ASSUME NEW s, NEW t, NEW u, Kept(s, t), Kept(t, u)
  PROVE  Kept(s, u)
  BY Zenon DEF Kept

\* A task field that only accounting reads changes, in a task that is not in
\* a queue.
LEMMA TouchSound ==
  ASSUME NEW s, Sound(s), NEW slot \in Slots, s.tasks[slot].state \notin {"Ready", "None"},
         NEW task \in TaskType,
         task.state = s.tasks[slot].state, task.id = s.tasks[slot].id,
         task.user = s.tasks[slot].user,
         slot = s.current \/ task.priority = 0
  PROVE  LET t == [s EXCEPT !.tasks[slot] = task]
         IN Sound(t) /\ Kept(s, t)
<1> DEFINE t == [s EXCEPT !.tasks[slot] = task]
<1>1. s \in SchedulerType /\ Filed(s)
  BY Zenon DEF Sound
<1>2. Touched(s, slot, task, t)
  <2>1. /\ t.queues = s.queues
        /\ t = [s EXCEPT !.tasks = [s.tasks EXCEPT ![slot] = task], !.queues = t.queues]
    BY <1>1, Zenon DEF SchedulerType
  <2>2. /\ s.queues \in [Levels -> Seq(Slots)]
        /\ \A level \in Levels : Distinct(s.queues[level])
    BY <1>1, Zenon DEF SchedulerType, Filed
  <2> HIDE DEF t
  <2> QED
    BY <2>1, <2>2, Zenon DEF Touched
<1> HIDE DEF t
<1>3. /\ t \in SchedulerType /\ Filed(t) /\ t.current = s.current /\ t.next_id = s.next_id
      /\ \A other \in Slots : t.tasks[other] = IF other = slot THEN task ELSE s.tasks[other]
  BY <1>1, <1>2, FiledByTouch
<1>6. Kept(s, t)
  BY <1>3, Zenon DEF Kept
<1>7. Sound(t)
  BY <1>3, <1>6, KeptSound, Zenon
<1> QED
  BY <1>6, <1>7, Zenon DEF t

\* boost_all files every ready task at level 0 and drops none: the drained
\* queues fit into one.
LEMMA BoostAllSound ==
  ASSUME NEW s, Sound(s)
  PROVE  Sound(boost_all(s)) /\ Kept(s, boost_all(s))
<1> DEFINE t == boost_all(s)
           all == Drained(s)
           moved == UNION {Queued(s, level) : level \in Levels \ {0}}
<1>1. s \in SchedulerType /\ Filed(s)
  BY Zenon DEF Sound
<1>2. s.tasks \in [Slots -> TaskType \cup {EmptySlot}] /\ s.queues \in [Levels -> Seq(Slots)]
  BY <1>1, Zenon DEF SchedulerType
<1>3. \A level \in Levels : Elements(s.queues[level]) \subseteq Slots
  BY <1>2, QueueFacts, Zenon
<1>4. /\ all \in Seq(Slots) /\ Distinct(all)
      /\ \A slot : slot \in Elements(all) <=>
                     \E level \in Levels : slot \in Elements(s.queues[level])
  <2>1. \A level \in Levels : Distinct(s.queues[level])
    BY <1>1, Zenon DEF Filed
  <2>2. \A j, k \in Levels : j # k => Elements(s.queues[j]) \cap Elements(s.queues[k]) = {}
    BY <1>1, <1>3, Zenon DEF Filed
  <2> QED
    BY <1>2, <2>1, <2>2, DrainedFacts, Zenon
<1>5. Len(all) <= MaxTasks /\ Len(all) \in Nat
  BY <1>4, QueueFits, QueueFacts, Zenon
<1>6. \A slot \in Slots : slot \in moved <=>
        s.tasks[slot].state = "Ready" /\ s.tasks[slot].priority # 0
  <2>1. \A slot \in Slots : slot \in moved <=>
          \E level \in Levels \ {0} : slot \in Elements(s.queues[level])
    BY Zenon DEF Queued, Elements
  <2>2. \A slot \in Slots : s.tasks[slot].state = "Ready" => s.tasks[slot].priority \in Levels
    BY <1>1, TaskFacts, Zenon DEF TaskType
  <2> HIDE DEF moved
  <2> QED
    BY <1>1, <2>1, <2>2 DEF Filed
<1> DEFINE T == [slot \in Slots |->
                   IF slot \in moved /\ Exists(s, slot)
                   THEN [s.tasks[slot] EXCEPT !.priority = 0, !.ticks_used = 0]
                   ELSE s.tasks[slot]]
           Q == [level \in Levels |->
                    IF level # 0 THEN <<>>
                    ELSE IF Len(all) > MaxTasks THEN SubSeq(all, 1, MaxTasks)
                    ELSE all]
<1>7. t = [s EXCEPT !.tasks = T, !.queues = Q]
  BY Zenon DEF boost_all
<1> HIDE DEF all, moved
<1>8. 0 \in Levels
  BY SchedulerAssumption DEF Levels
<1>9. ASSUME NEW slot \in Slots
      PROVE  /\ T[slot] \in TaskType \cup {EmptySlot}
             /\ T[slot].state = s.tasks[slot].state
             /\ T[slot].id = s.tasks[slot].id
             /\ T[slot].user = s.tasks[slot].user
             /\ T[slot].state = "Ready" => T[slot].priority = 0
             /\ T[slot].priority \in {s.tasks[slot].priority, 0}
  <2>1. CASE slot \in moved
    <3>1. s.tasks[slot] \in TaskType /\ Exists(s, slot) /\ s.tasks[slot].state = "Ready"
      BY <1>1, <1>6, <2>1, TaskFacts, Zenon DEF Exists
    <3>2. T[slot] = [s.tasks[slot] EXCEPT !.priority = 0, !.ticks_used = 0]
      BY <2>1, <3>1, Zenon
    <3> QED
      BY <1>8, <3>1, <3>2, Zenon DEF TaskType
  <2>2. CASE slot \notin moved
    <3>1. T[slot] = s.tasks[slot]
      BY <2>2, Zenon
    <3> HIDE DEF T
    <3> QED
      BY <1>2, <1>6, <2>2, <3>1, Zenon
  <2> QED
    BY <2>1, <2>2, Zenon
<1>10. Q[0] = all /\ \A level \in Levels : level # 0 => Q[level] = <<>>
  BY <1>5, <1>8, MaxTasksAssumption
<1>11. Q \in [Levels -> Seq(Slots)]
  <2>1. \A level \in Levels : Q[level] \in Seq(Slots)
    <3> HIDE DEF Q
    <3>1. <<>> \in Seq(Slots)
      OBVIOUS
    <3> QED
      BY <1>4, <1>10, <3>1, Zenon
  <2> QED
    BY <2>1, Zenon
<1>12. /\ t.tasks = T /\ t.queues = Q /\ t.current = s.current
       /\ t \in SchedulerType /\ t.next_id = s.next_id
  <2>1. T \in [Slots -> TaskType \cup {EmptySlot}]
    BY <1>9, Zenon
  <2> HIDE DEF T, Q
  <2> QED
    BY <1>1, <1>7, <1>11, <2>1, Zenon DEF SchedulerType
<1> HIDE DEF T, Q, t
<1>13. Kept(s, t)
  BY <1>9, <1>12, Zenon DEF Kept
<1>14. Filed(t)
  <2>1. ASSUME NEW level \in Levels PROVE Distinct(t.queues[level])
    BY <1>4, <1>10, <1>12 DEF Distinct
  <2>2. ASSUME NEW slot \in Slots
        PROVE  slot \in Elements(all) <=> s.tasks[slot].state = "Ready"
    <3>1. s.tasks[slot].state = "Ready" => s.tasks[slot].priority \in Levels
      BY <1>1, TaskFacts, Zenon DEF TaskType
    <3> QED
      BY <1>1, <1>4, <3>1 DEF Filed
  <2>3. Elements(<<>>) = {}
    BY DEF Elements
  <2>4. ASSUME NEW level \in Levels, NEW slot \in Slots
        PROVE  slot \in Elements(t.queues[level]) <=>
                 t.tasks[slot].state = "Ready" /\ t.tasks[slot].priority = level
    <3>1. CASE level = 0
      BY <1>9, <1>10, <1>12, <2>2, <3>1, Zenon
    <3>2. CASE level # 0
      BY <1>9, <1>10, <1>12, <2>3, <3>2, Zenon
    <3> QED
      BY <3>1, <3>2, Zenon
  <2> QED
    BY <2>1, <2>4, Zenon DEF Filed
<1> QED
  BY <1>12, <1>13, <1>14, KeptSound, Zenon DEF t

\* The countdown is reloaded when it would reach zero.
LEMMA CountDownSound ==
  ASSUME NEW s, Sound(s)
  PROVE  Sound(CountDown(s)) /\ Kept(s, CountDown(s))
<1> DEFINE b == IF s.boost_countdown = 1 THEN boost_all(s) ELSE s
           n == IF s.boost_countdown = 1 THEN BoostInterval ELSE s.boost_countdown - 1
           t == CountDown(s)
<1>1. Sound(b) /\ Kept(s, b)
  <2>1. Kept(s, s)
    BY Zenon DEF Kept
  <2> QED
    BY <2>1, BoostAllSound, Zenon
<1>2. n \in 1..BoostInterval
  BY SchedulerAssumption DEF Sound, SchedulerType
<1>3. t = [b EXCEPT !.boost_countdown = n]
  BY Zenon DEF CountDown
<1> HIDE DEF b, n, t
<1>4. b \in SchedulerType /\ Filed(b)
  BY <1>1, Zenon DEF Sound
<1>5. /\ t \in SchedulerType /\ t.tasks = b.tasks /\ t.queues = b.queues
      /\ t.current = b.current /\ t.next_id = b.next_id
  BY <1>2, <1>3, <1>4, Zenon DEF SchedulerType
<1>6. Kept(s, t) /\ Filed(t)
  BY <1>1, <1>4, <1>5 DEF Kept, Filed
<1> QED
  BY <1>5, <1>6, KeptSound, Zenon DEF t

\* The tick charged to the current task.
LEMMA ChargeSound ==
  ASSUME NEW s, Sound(s), Switched(s)
  PROVE  Sound(Charge(s)) /\ Kept(s, Charge(s))
<1> DEFINE c == s.current
           task == [s.tasks[c] EXCEPT !.ticks_used = @ + 1]
<1>1. s \in SchedulerType /\ c \in Slots
  BY Zenon DEF Sound, Switched
<1>2. s.tasks[c] \in TaskType /\ s.tasks[c].state \notin {"Ready", "None"}
  BY <1>1, TaskFacts, Zenon DEF Switched
<1>3. /\ task \in TaskType /\ task.state = s.tasks[c].state
      /\ task.id = s.tasks[c].id /\ task.user = s.tasks[c].user
  BY <1>2 DEF TaskType
<1>4. Charge(s) = [s EXCEPT !.tasks[c] = task] /\ c = s.current
  BY Zenon DEF Charge
<1> HIDE DEF task, c
<1> QED
  BY <1>1, <1>2, <1>3, <1>4, TouchSound

\* demote_current: the current task is in no queue, so its level is free to
\* change.
LEMMA DemoteSound ==
  ASSUME NEW s, Sound(s), Switched(s)
  PROVE  Sound(demote_current(s)) /\ Kept(s, demote_current(s))
<1> DEFINE c == s.current
           prio == s.tasks[c].priority
           lower == IF prio < PriorityLevels - 1 THEN prio + 1 ELSE prio
           task == [s.tasks[c] EXCEPT !.ticks_used = 0, !.priority = lower]
<1>1. s \in SchedulerType /\ c \in Slots
  BY Zenon DEF Sound, Switched
<1>2. s.tasks[c] \in TaskType /\ s.tasks[c].state \notin {"Ready", "None"}
  BY <1>1, TaskFacts, Zenon DEF Switched
<1>3. lower \in Levels
  BY <1>2, SchedulerAssumption DEF TaskType, Levels
<1>4. demote_current(s) = [s EXCEPT !.tasks[c] = task] /\ c = s.current
  BY <1>1, Zenon DEF demote_current, SchedulerType
<1> HIDE DEF lower
<1>5. /\ task \in TaskType /\ task.state = s.tasks[c].state
      /\ task.id = s.tasks[c].id /\ task.user = s.tasks[c].user
  BY <1>2, <1>3, Zenon DEF TaskType
<1> HIDE DEF task, c
<1> QED
  BY <1>1, <1>2, <1>4, <1>5, TouchSound

\* t is r after the task that pick_next found there, p.slot, is made current.
Dispatched(r, p, t) ==
  /\ p = pick_next(r)
  /\ t = [r EXCEPT !.queues = p.queues, !.current = p.slot, !.tasks[p.slot].state = "Running"]

\* The switch itself: with no task running and test_kernel_task ready, the
\* picked task becomes the running one.
LEMMA SwitchSound ==
  ASSUME NEW r \in SchedulerType, Filed(r), IdleTask(r), r.tasks[0].state = "Ready",
         \A slot \in Slots : r.tasks[slot].state # "Running",
         NEW p, NEW t, Dispatched(r, p, t)
  PROVE  /\ p.slot \in Slots
         /\ r.tasks[p.slot].state = "Ready"
         /\ Sound(t) /\ t.current = p.slot /\ t.next_id = r.next_id
         /\ t.tasks = [r.tasks EXCEPT ![p.slot] = [r.tasks[p.slot] EXCEPT !.state = "Running"]]
         /\ \A slot \in Slots : r.tasks[slot].state = "Ready" =>
              r.tasks[p.slot].priority <= r.tasks[slot].priority
<1> DEFINE new == p.slot
           task == [r.tasks[new] EXCEPT !.state = "Running"]
<1>1. 0 \in Slots
  BY MaxTasksAssumption DEF Slots
<1>2. /\ new \in Slots /\ r.tasks[new].state = "Ready"
      /\ p.queues \in [Levels -> Seq(Slots)]
      /\ \A level \in Levels :
           /\ Distinct(p.queues[level])
           /\ Elements(p.queues[level]) = Elements(r.queues[level]) \ {new}
      /\ \A slot \in Slots : r.tasks[slot].state = "Ready" =>
           r.tasks[new].priority <= r.tasks[slot].priority
  BY <1>1, PickNextFacts, Zenon DEF Dispatched
<1>3. r.tasks[new] \in TaskType
  BY <1>2, TaskFacts, Zenon
<1>4. /\ task \in TaskType /\ task.state = "Running"
      /\ task.id = r.tasks[new].id /\ task.user = r.tasks[new].user
  BY <1>3, Zenon DEF TaskType
<1>5. /\ t.tasks = [r.tasks EXCEPT ![new] = task]
      /\ t.queues = p.queues /\ t.current = new
      /\ t.boost_countdown = r.boost_countdown /\ t.next_id = r.next_id
  BY Zenon DEF SchedulerType, Dispatched
<1>6. t \in SchedulerType
  BY <1>2, <1>4, Zenon DEF SchedulerType, Dispatched
<1> HIDE DEF task, new
<1>7. \A slot \in Slots : t.tasks[slot] = IF slot = new THEN task ELSE r.tasks[slot]
  BY <1>5, Zenon DEF SchedulerType
<1>8. Filed(t)
  <2>1. ASSUME NEW level \in Levels, NEW slot \in Slots
        PROVE  slot \in Elements(t.queues[level]) <=>
                 t.tasks[slot].state = "Ready" /\ t.tasks[slot].priority = level
    <3>1. slot \in Elements(r.queues[level]) <=>
            r.tasks[slot].state = "Ready" /\ r.tasks[slot].priority = level
      BY Zenon DEF Filed
    <3>2. slot \in Elements(t.queues[level]) <=>
            slot \in Elements(r.queues[level]) /\ slot # new
      BY <1>2, <1>5, Zenon
    <3>3. t.tasks[slot] = IF slot = new THEN task ELSE r.tasks[slot]
      BY <1>7, Zenon
    <3> QED
      BY <1>4, <3>1, <3>2, <3>3, Zenon
  <2>2. \A level \in Levels : Distinct(t.queues[level])
    BY <1>2, <1>5, Zenon
  <2> QED
    BY <2>1, <2>2, Zenon DEF Filed
<1>9. IdleTask(t)
  BY <1>1, <1>4, <1>7, Zenon DEF IdleTask
<1>10. Alone(t)
  BY <1>5, <1>7, Zenon DEF Alone
<1> QED
  BY <1>2, <1>5, <1>6, <1>8, <1>9, <1>10, Zenon DEF Sound, new, task

\* What reschedule does to a sound state: the highest ready task runs, the one
\* that was running is ready, and nobody else changes.
LEMMA RescheduleSound ==
  ASSUME NEW s, Sound(s), Switched(s), NEW t, t = reschedule(s)
  PROVE  /\ Sound(t) /\ Switched(t)
         /\ t.tasks[t.current].state = "Running"
         /\ SameTasks(s, t)
         /\ \A slot \in Slots :
              /\ t.tasks[slot].priority = s.tasks[slot].priority
              /\ s.tasks[slot].state \notin {"Ready", "Running"} =>
                   t.tasks[slot].state = s.tasks[slot].state
              /\ s.tasks[slot].state \in {"Ready", "Running"} =>
                   t.tasks[slot].state \in {"Ready", "Running"}
              /\ t.tasks[slot].state = "Ready" =>
                   t.tasks[t.current].priority <= t.tasks[slot].priority
<1> DEFINE old == s.current
           prio == s.tasks[old].priority
           ready == [s.tasks[old] EXCEPT !.state = "Ready"]
           r == IF s.tasks[old].state = "Running"
                THEN [s EXCEPT !.tasks[old].state = "Ready",
                               !.queues[prio] = push_back(@, old)]
                ELSE s
           p == pick_next(r)
<1>1. s \in SchedulerType /\ Filed(s) /\ old \in Slots /\ 0 \in Slots
  BY MaxTasksAssumption DEF Sound, Switched, Slots
<1>2. s.tasks[old] \in TaskType /\ s.tasks[old].state # "Ready"
  BY <1>1, TaskFacts, Zenon DEF Switched
<1>3. /\ ready \in TaskType /\ ready.state = "Ready" /\ ready.priority = prio
      /\ ready.id = s.tasks[old].id /\ ready.user = s.tasks[old].user
  BY <1>2, Zenon DEF TaskType
<1>4. /\ r \in SchedulerType /\ Filed(r)
      /\ r.current = old /\ r.next_id = s.next_id
      /\ \A slot \in Slots : r.tasks[slot] =
           IF slot = old /\ s.tasks[old].state = "Running" THEN ready ELSE s.tasks[slot]
  <2>1. CASE s.tasks[old].state = "Running"
    <3>1. /\ r.tasks = [s.tasks EXCEPT ![old] = ready]
          /\ r.queues = [s.queues EXCEPT ![prio] = push_back(s.queues[prio], old)]
          /\ r = [s EXCEPT !.tasks = r.tasks, !.queues = r.queues]
      BY <1>1, <2>1, Zenon DEF SchedulerType
    <3>a. Pushed(s, old, ready, r)
      BY <1>3, <3>1, Zenon DEF Pushed
    <3> HIDE DEF ready, r, prio, old
    <3>2. /\ r.tasks \in [Slots -> TaskType \cup {EmptySlot}]
          /\ r.queues \in [Levels -> Seq(Slots)]
          /\ Filed(r)
      BY <1>1, <1>2, <1>3, <3>a, FiledByPush, Zenon
    <3> QED
      BY <1>1, <2>1, <3>1, <3>2, Zenon DEF SchedulerType, old
  <2>2. CASE s.tasks[old].state # "Running"
    BY <1>1, <2>2, Zenon
  <2> QED
    BY <2>1, <2>2, Zenon
<1> HIDE DEF ready, r
<1>5. \A slot \in Slots : r.tasks[slot].state # "Running"
  BY <1>3, <1>4, Zenon DEF Sound, Alone
<1>6. IdleTask(r) /\ r.tasks[0].state = "Ready"
  BY <1>1, <1>3, <1>4, <1>5, Zenon DEF Sound, IdleTask, Alone
<1>7. t = [r EXCEPT !.queues = p.queues, !.current = p.slot, !.tasks[p.slot].state = "Running"]
  <2>1. p.slot \in Slots
    <3> HIDE DEF p
    <3> QED
      BY <1>1, <1>4, <1>6, PickNextFacts, Zenon DEF p
  <2>2. p.slot # NoTask
    BY <2>1, SchedulerAssumption DEF Slots
  <2> QED
    BY <2>2, Zenon DEF reschedule, r
<1>8. /\ p.slot \in Slots
      /\ r.tasks[p.slot].state = "Ready"
      /\ Sound(t) /\ t.current = p.slot /\ t.next_id = r.next_id
      /\ t.tasks = [r.tasks EXCEPT ![p.slot] = [r.tasks[p.slot] EXCEPT !.state = "Running"]]
      /\ \A slot \in Slots : r.tasks[slot].state = "Ready" =>
           r.tasks[p.slot].priority <= r.tasks[slot].priority
  <2>1. Dispatched(r, p, t)
    BY <1>7, Zenon DEF Dispatched
  <2>2. r \in SchedulerType /\ Filed(r)
    BY <1>4, Zenon
  <2> HIDE DEF p, old, prio
  <2> QED
    BY <1>5, <1>6, <2>1, <2>2, SwitchSound
<1> DEFINE new == p.slot
<1> HIDE DEF p
<1>9. r.tasks[new] \in TaskType
  BY <1>4, <1>8, TaskFacts, Zenon
<1>10. ASSUME NEW slot \in Slots
       PROVE  /\ t.tasks[slot].priority = r.tasks[slot].priority
              /\ t.tasks[slot].id = r.tasks[slot].id
              /\ t.tasks[slot].user = r.tasks[slot].user
              /\ t.tasks[slot].state = IF slot = new THEN "Running" ELSE r.tasks[slot].state
  BY <1>4, <1>8, <1>9 DEF SchedulerType, TaskType
<1>11. ASSUME NEW slot \in Slots
       PROVE  /\ r.tasks[slot].priority = s.tasks[slot].priority
              /\ r.tasks[slot].id = s.tasks[slot].id
              /\ r.tasks[slot].user = s.tasks[slot].user
              /\ s.tasks[slot].state \notin {"Ready", "Running"} =>
                   r.tasks[slot].state = s.tasks[slot].state
              /\ r.tasks[slot].state \in {s.tasks[slot].state, "Ready"}
              /\ r.tasks[slot].state # s.tasks[slot].state =>
                   s.tasks[slot].state = "Running"
  BY <1>3, <1>4, Zenon
<1>12. Switched(t) /\ t.tasks[t.current].state = "Running"
  BY <1>8, <1>10, Zenon DEF Switched
<1>13. SameTasks(s, t)
  BY <1>4, <1>8, <1>10, <1>11 DEF SameTasks, Exists
<1> QED
  BY <1>8, <1>10, <1>11, <1>12, <1>13

\* The peer of a ring moves, if it waits in a queue, to the front of level 0.
LEMMA BoostPeerSound ==
  ASSUME NEW s, Sound(s), NEW peer \in Slots
  PROVE  Sound(BoostPeer(s, peer)) /\ Kept(s, BoostPeer(s, peer))
<1> DEFINE old == s.tasks[peer].priority
           task == [s.tasks[peer] EXCEPT !.priority = 0, !.ticks_used = 0]
           boosted == [s EXCEPT !.tasks[peer].priority = 0, !.tasks[peer].ticks_used = 0]
           t == BoostPeer(s, peer)
<1>1. s \in SchedulerType /\ Filed(s) /\ 0 \in Levels
  BY SchedulerAssumption DEF Sound, Levels
<1>2. CASE ~Exists(s, peer)
  BY <1>2, Zenon DEF BoostPeer, Kept
<1>3. CASE Exists(s, peer)
  <2>1. s.tasks[peer] \in TaskType /\ s.tasks[peer].state # "None"
    BY <1>1, <1>3, TaskFacts, Zenon DEF Exists
  <2>2. /\ task \in TaskType /\ task.state = s.tasks[peer].state /\ task.priority = 0
        /\ task.id = s.tasks[peer].id /\ task.user = s.tasks[peer].user
        /\ old \in Levels
    BY <1>1, <2>1, Zenon DEF TaskType
  <2>3. boosted = [s EXCEPT !.tasks[peer] = task]
    BY <1>1, Zenon DEF SchedulerType
  <2>4. CASE s.tasks[peer].state # "Ready"
    <3>1. t = boosted
      BY <1>3, <2>4, Zenon DEF BoostPeer
    <3>2. s.tasks[peer].state \notin {"Ready", "None"}
      BY <2>1, <2>4, Zenon
    <3> HIDE DEF task, boosted
    <3> QED
      BY <2>2, <2>3, <3>1, <3>2, TouchSound
  <2>5. CASE s.tasks[peer].state = "Ready"
    <3> DEFINE Q == IF old = 0 THEN s.queues
                    ELSE [s.queues EXCEPT ![old] = remove(@, peer),
                                          ![0] = push_front(@, peer)]
    <3>1. t = [s EXCEPT !.tasks = [s.tasks EXCEPT ![peer] = task], !.queues = Q]
      <4>1. CASE old = 0
        BY <1>1, <1>3, <2>3, <2>5, <4>1, Zenon DEF BoostPeer, SchedulerType
      <4>2. CASE old # 0
        BY <1>1, <1>3, <2>3, <2>5, <4>2, Zenon DEF BoostPeer, SchedulerType
      <4> QED
        BY <4>1, <4>2, Zenon
    <3>2. s.queues \in [Levels -> Seq(Slots)] /\ \A level \in Levels : Distinct(s.queues[level])
      BY <1>1, Zenon DEF SchedulerType, Filed
    <3>3. \A level \in Levels : peer \in Elements(s.queues[level]) <=> level = old
      BY <1>1, <2>5, Zenon DEF Filed
    <3>4. ASSUME NEW level \in Levels
          PROVE  /\ Q[level] \in Seq(Slots) /\ Distinct(Q[level])
                 /\ Elements(Q[level]) = IF level = 0 THEN Elements(s.queues[0]) \cup {peer}
                                         ELSE Elements(s.queues[level]) \ {peer}
      <4>1. CASE old = 0
        BY <2>2, <3>2, <3>3, <4>1, Zenon
      <4>2. CASE old # 0
        <5>1. Q[level] = IF level = 0 THEN push_front(s.queues[0], peer)
                         ELSE IF level = old THEN remove(s.queues[old], peer)
                         ELSE s.queues[level]
          BY <1>1, <2>2, <3>2, <4>2, Zenon
        <5>2. /\ push_front(s.queues[0], peer) \in Seq(Slots)
              /\ Distinct(push_front(s.queues[0], peer))
              /\ Elements(push_front(s.queues[0], peer)) = Elements(s.queues[0]) \cup {peer}
          BY <1>1, <3>2, <3>3, <4>2, PushFrontFacts, Zenon
        <5>3. /\ remove(s.queues[old], peer) \in Seq(Slots)
              /\ Distinct(remove(s.queues[old], peer))
              /\ Elements(remove(s.queues[old], peer)) = Elements(s.queues[old]) \ {peer}
          BY <2>2, <3>2, RemoveFacts, Zenon
        <5> HIDE DEF Q, old
        <5>4. CASE level = 0
          BY <5>1, <5>2, <5>4, Zenon
        <5>5. CASE level # 0 /\ level = old
          BY <5>1, <5>3, <5>5, Zenon
        <5>6. CASE level # 0 /\ level # old
          BY <3>2, <3>3, <5>1, <5>6, Zenon
        <5> QED
          BY <5>4, <5>5, <5>6, Zenon
      <4> QED
        BY <4>1, <4>2, Zenon
    <3>5. Q \in [Levels -> Seq(Slots)]
      <4>1. DOMAIN Q = Levels /\ Q = [level \in Levels |-> Q[level]]
        BY <3>2, Zenon
      <4> HIDE DEF Q
      <4> QED
        BY <3>4, <4>1, Zenon
    <3>6. /\ t \in SchedulerType /\ t.queues = Q
          /\ t.current = s.current /\ t.next_id = s.next_id
          /\ \A slot \in Slots : t.tasks[slot] = IF slot = peer THEN task ELSE s.tasks[slot]
      <4> HIDE DEF Q, task, t
      <4> QED
        BY <1>1, <2>2, <3>1, <3>5, Zenon DEF SchedulerType
    <3> HIDE DEF Q, task, t
    <3>7. Kept(s, t)
      BY <2>2, <3>6, Zenon DEF Kept
    <3>8. ASSUME NEW level \in Levels, NEW slot \in Slots
          PROVE  slot \in Elements(t.queues[level]) <=>
                   t.tasks[slot].state = "Ready" /\ t.tasks[slot].priority = level
      <4>1. slot \in Elements(s.queues[level]) <=>
              s.tasks[slot].state = "Ready" /\ s.tasks[slot].priority = level
        BY <1>1, Zenon DEF Filed
      <4>2. CASE slot = peer
        BY <2>2, <2>5, <3>4, <3>6, <4>2, Zenon
      <4>3. CASE slot # peer
        BY <3>4, <3>6, <4>1, <4>3, Zenon
      <4> QED
        BY <4>2, <4>3, Zenon
    <3>9. Filed(t)
      BY <3>4, <3>6, <3>8, Zenon DEF Filed
    <3> QED
      BY <3>6, <3>7, <3>9, KeptSound, Zenon DEF t
  <2> QED
    BY <2>4, <2>5, Zenon
<1> QED
  BY <1>2, <1>3, Zenon

\* The current task stops running, whatever it becomes.
LEMMA LeaveSound ==
  ASSUME NEW s, Sound(s), Switched(s), s.current # 0, NEW task \in TaskType,
         task.state \in {"Running", "Blocked", "Dead"},
         NEW t, Touched(s, s.current, task, t)
  PROVE  /\ Sound(t) /\ Switched(t) /\ t.current = s.current
         /\ \A slot \in Slots : t.tasks[slot] = IF slot = s.current THEN task ELSE s.tasks[slot]
         /\ task.id = s.tasks[s.current].id /\ task.user = s.tasks[s.current].user =>
              SameTasks(s, t)
<1> DEFINE c == s.current
<1>1. s \in SchedulerType /\ Filed(s) /\ c \in Slots /\ 0 \in Slots
  BY MaxTasksAssumption DEF Sound, Switched, Slots
<1>2. s.tasks[c].state # "Ready"
  BY Zenon DEF Switched
<1>3. /\ t \in SchedulerType /\ Filed(t) /\ t.current = c /\ t.next_id = s.next_id
      /\ \A slot \in Slots : t.tasks[slot] = IF slot = c THEN task ELSE s.tasks[slot]
  BY <1>1, <1>2, FiledByTouch
<1>4. IdleTask(t) /\ Alone(t) /\ Switched(t)
  BY <1>1, <1>3, Zenon DEF Sound, IdleTask, Alone, Switched
<1>5. task.id = s.tasks[c].id /\ task.user = s.tasks[c].user => SameTasks(s, t)
  BY <1>1, <1>3, Zenon DEF SameTasks, Exists, Switched
<1> QED
  BY <1>3, <1>4, <1>5, Zenon DEF Sound

\* exit_current finds the task in no queue.
LEMMA KillSound ==
  ASSUME NEW s, Sound(s), Switched(s), s.current # 0,
         NEW t, t = kill(s, s.current)
  PROVE  /\ Sound(t) /\ Switched(t) /\ t.current = s.current
         /\ SameTasks(s, t)
         /\ \A slot \in Slots : t.tasks[slot].state =
              IF slot = s.current THEN "Dead" ELSE s.tasks[slot].state
<1> DEFINE c == s.current
           prio == s.tasks[c].priority
           task == [s.tasks[c] EXCEPT !.state = "Dead"]
           Q == [s.queues EXCEPT ![prio] = remove(@, c)]
<1>1. s \in SchedulerType /\ Filed(s) /\ c \in Slots
  BY Zenon DEF Sound, Switched
<1>2. s.tasks[c] \in TaskType /\ s.tasks[c].state # "Ready"
  BY <1>1, TaskFacts, Zenon DEF Switched
<1>3. /\ task \in TaskType /\ task.state = "Dead" /\ prio \in Levels
      /\ task.id = s.tasks[c].id /\ task.user = s.tasks[c].user
  BY <1>2, Zenon DEF TaskType
<1>4. s.queues \in [Levels -> Seq(Slots)] /\ Distinct(s.queues[prio]) /\ c \notin Elements(s.queues[prio])
  BY <1>1, <1>2, <1>3 DEF SchedulerType, Filed
<1>5. /\ remove(s.queues[prio], c) \in Seq(Slots)
      /\ Distinct(remove(s.queues[prio], c))
      /\ Elements(remove(s.queues[prio], c)) = Elements(s.queues[prio])
  <2>1. s.queues[prio] \in Seq(Slots)
    BY <1>3, <1>4, Zenon
  <2> DEFINE q == s.queues[prio]
  <2> HIDE DEF q, c
  <2>2. /\ remove(q, c) \in Seq(Slots) /\ Distinct(remove(q, c))
        /\ Elements(remove(q, c)) = Elements(q) \ {c}
    BY <1>1, <1>4, <2>1, RemoveFacts, Zenon DEF q
  <2> QED
    BY <1>4, <2>2, Zenon DEF q
<1>6. /\ Q \in [Levels -> Seq(Slots)]
      /\ \A level \in Levels : /\ Distinct(Q[level])
                               /\ Elements(Q[level]) = Elements(s.queues[level])
  <2>1. \A level \in Levels : Distinct(s.queues[level])
    BY <1>1, Zenon DEF Filed
  <2>2. \A level \in Levels :
          Q[level] = IF level = prio THEN remove(s.queues[prio], c) ELSE s.queues[level]
    BY <1>4, Zenon
  <2>3. Q \in [Levels -> Seq(Slots)]
    BY <1>3, <1>4, <1>5, Zenon
  <2> HIDE DEF Q, c, prio
  <2> QED
    BY <1>5, <2>1, <2>2, <2>3, Zenon
<1>7. t = [s EXCEPT !.tasks = [s.tasks EXCEPT ![c] = task], !.queues = Q]
  BY <1>1, Zenon DEF kill, SchedulerType
<1>a. Touched(s, c, task, t)
  <2> HIDE DEF Q, task, c
  <2>1. t.queues = Q
    BY <1>1, <1>7, Zenon DEF SchedulerType
  <2> QED
    BY <1>6, <1>7, <2>1, Zenon DEF Touched
<1> HIDE DEF Q, task
<1>8. /\ Sound(t) /\ Switched(t) /\ t.current = c /\ SameTasks(s, t)
      /\ \A slot \in Slots : t.tasks[slot] = IF slot = c THEN task ELSE s.tasks[slot]
  BY <1>3, <1>a, LeaveSound
<1> QED
  BY <1>3, <1>8, Zenon

\* The fields of the task structure spawn stores.
LEMMA NewTaskFacts ==
  ASSUME NEW id \in 0..MaxIds, NEW prio \in Levels, NEW user \in BOOLEAN
  PROVE  /\ NewTask(id, prio, user) \in TaskType
         /\ NewTask(id, prio, user).state = "Ready"
         /\ NewTask(id, prio, user).priority = prio
         /\ NewTask(id, prio, user).id = id
         /\ NewTask(id, prio, user).user = user
  BY Zenon DEF NewTask, TaskType

\* replace_current_task: level 1 of the running task matters to no queue.
LEMMA ReplaceSound ==
  ASSUME NEW s, Sound(s), Switched(s), s.current # 0, NEW t, t = replace_current_task(s)
  PROVE  /\ Sound(t) /\ Switched(t) /\ t.current = s.current
         /\ t.tasks[s.current].state = "Running"
         /\ s.tasks[s.current].user => SameTasks(s, t)
         /\ \A slot \in Slots : slot # s.current => t.tasks[slot] = s.tasks[slot]
<1> DEFINE c == s.current
           task == [NewTask(s.tasks[c].id, 1, TRUE) EXCEPT !.state = "Running"]
<1>1. s \in SchedulerType /\ Filed(s) /\ c \in Slots
  BY Zenon DEF Sound, Switched
<1>2. s.tasks[c] \in TaskType
  BY <1>1, TaskFacts, Zenon DEF Switched
<1>3. /\ task \in TaskType /\ task.state = "Running"
      /\ task.id = s.tasks[c].id /\ (s.tasks[c].user => task.user = s.tasks[c].user)
  <2>1. s.tasks[c].id \in 0..MaxIds /\ 1 \in Levels /\ TRUE \in BOOLEAN
    BY <1>2, SchedulerAssumption DEF TaskType, Levels
  <2>2. /\ NewTask(s.tasks[c].id, 1, TRUE) \in TaskType
        /\ NewTask(s.tasks[c].id, 1, TRUE).id = s.tasks[c].id
        /\ NewTask(s.tasks[c].id, 1, TRUE).user = TRUE
    BY <2>1, NewTaskFacts, Zenon
  <2> QED
    BY <2>2, Zenon DEF TaskType
<1>4. t = [s EXCEPT !.tasks[c] = task]
  BY <1>1, Zenon DEF replace_current_task, SchedulerType
<1>5. Touched(s, c, task, t)
  <2> HIDE DEF task, c
  <2>1. t = [s EXCEPT !.tasks = [s.tasks EXCEPT ![c] = task], !.queues = t.queues] /\ t.queues = s.queues
    BY <1>1, <1>4, Zenon DEF SchedulerType
  <2>2. s.queues \in [Levels -> Seq(Slots)] /\ \A level \in Levels : Distinct(s.queues[level])
    BY <1>1, Zenon DEF SchedulerType, Filed
  <2> QED
    BY <2>1, <2>2, Zenon DEF Touched
<1> HIDE DEF task
<1>6. /\ Sound(t) /\ Switched(t) /\ t.current = c
      /\ s.tasks[c].user => SameTasks(s, t)
      /\ \A slot \in Slots : t.tasks[slot] = IF slot = c THEN task ELSE s.tasks[slot]
  BY <1>3, <1>5, LeaveSound
<1> QED
  BY <1>1, <1>3, <1>6, Zenon

\* block_current, whatever the reason.
LEMMA BlockSound ==
  ASSUME NEW s, Sound(s), Switched(s), s.current # 0, NEW reason,
         reason.kind \in {"SpscRingEmpty", "SpscRingFull", "FileRead", "Waiting"},
         reason.kind \in {"SpscRingEmpty", "SpscRingFull"} => reason.peer \in Slots \ {s.current},
         NEW t, t = block(s, reason)
  PROVE  /\ Sound(t) /\ Switched(t) /\ t.current = s.current
         /\ SameTasks(s, t)
         /\ \A slot \in Slots :
              t.tasks[slot].state = IF slot = s.current THEN "Blocked" ELSE s.tasks[slot].state
         /\ \A slot \in Slots \ {s.current} :
              t.tasks[slot].priority \in {s.tasks[slot].priority, 0}
         /\ reason.kind = "SpscRingEmpty" => t.tasks[s.current].priority = 0
<1> DEFINE c == s.current
           task == [s.tasks[c] EXCEPT !.state = "Blocked"]
           b == [s EXCEPT !.tasks[c].state = "Blocked"]
<1>1. s \in SchedulerType /\ Filed(s) /\ c \in Slots
  BY Zenon DEF Sound, Switched
<1>2. s.tasks[c] \in TaskType
  BY <1>1, TaskFacts, Zenon DEF Switched
<1>3. /\ task \in TaskType /\ task.state = "Blocked"
      /\ task.id = s.tasks[c].id /\ task.user = s.tasks[c].user
  BY <1>2, Zenon DEF TaskType
<1>4. Touched(s, c, task, b)
  <2>1. b = [s EXCEPT !.tasks = [s.tasks EXCEPT ![c] = task], !.queues = b.queues] /\ b.queues = s.queues
    BY <1>1, Zenon DEF SchedulerType
  <2>2. s.queues \in [Levels -> Seq(Slots)] /\ \A level \in Levels : Distinct(s.queues[level])
    BY <1>1, Zenon DEF SchedulerType, Filed
  <2> HIDE DEF task, c, b
  <2> QED
    BY <2>1, <2>2, Zenon DEF Touched
<1>5. t = boost_for_reason(b, c, reason)
  BY Zenon DEF block
<1> HIDE DEF task, b
<1>6. /\ Sound(b) /\ Switched(b) /\ b.current = c /\ SameTasks(s, b)
      /\ \A slot \in Slots : b.tasks[slot] = IF slot = c THEN task ELSE s.tasks[slot]
  BY <1>3, <1>4, LeaveSound
<1> DEFINE Boosted(u) == Sound(u) /\ Kept(b, u)
<1>7. ASSUME NEW u, Boosted(u), NEW prio \in Levels
      PROVE  Boosted([u EXCEPT !.tasks[c].ticks_used = 0, !.tasks[c].priority = prio])
  <2> DEFINE idle == [u.tasks[c] EXCEPT !.ticks_used = 0, !.priority = prio]
  <2>1. u.tasks[c].state = "Blocked" /\ u \in SchedulerType /\ c = u.current
    BY <1>1, <1>3, <1>6, <1>7, Zenon DEF Kept, Sound
  <2>2. u.tasks[c] \in TaskType
    BY <1>1, <2>1, TaskFacts, Zenon
  <2>3. /\ idle \in TaskType /\ idle.state = u.tasks[c].state
        /\ idle.id = u.tasks[c].id /\ idle.user = u.tasks[c].user
    BY <2>2, Zenon DEF TaskType
  <2>4. [u EXCEPT !.tasks[c].ticks_used = 0, !.tasks[c].priority = prio]
          = [u EXCEPT !.tasks[c] = idle]
    BY <1>1, <2>1, Zenon DEF SchedulerType
  <2> HIDE DEF idle, c
  <2>5. Sound([u EXCEPT !.tasks[c] = idle]) /\ Kept(u, [u EXCEPT !.tasks[c] = idle])
    BY <1>1, <1>7, <2>1, <2>3, TouchSound, Zenon
  <2> QED
    BY <1>7, <2>4, <2>5, KeptTransitive, Zenon
<1>8. Boosted(b)
  BY <1>6, Zenon DEF Kept
<1>9. ASSUME reason.kind \in {"SpscRingEmpty", "SpscRingFull"} PROVE Boosted(BoostPeer(b, reason.peer))
  BY <1>6, <1>9, BoostPeerSound, Zenon
<1>10. 0 \in Levels
  BY SchedulerAssumption DEF Levels
<1>11. Boosted(t) /\ (reason.kind = "SpscRingEmpty" => t.tasks[c].priority = 0)
  <2>1. CASE reason.kind = "Waiting"
    <3>1. t = b
      BY <1>5, <2>1, Zenon DEF boost_for_reason
    <3> QED
      BY <1>8, <2>1, <3>1, Zenon
  <2>2. CASE reason.kind = "SpscRingFull"
    <3>1. t = BoostPeer(b, reason.peer)
      BY <1>5, <2>2, Zenon DEF boost_for_reason
    <3> QED
      BY <1>9, <2>2, <3>1, Zenon
  <2>3. CASE reason.kind = "SpscRingEmpty"
    <3> DEFINE u == BoostPeer(b, reason.peer)
    <3>1. t = [u EXCEPT !.tasks[c].priority = 0, !.tasks[c].ticks_used = 0]
      BY <1>5, <2>3, Zenon DEF boost_for_reason
    <3>2. Boosted(u)
      BY <1>9, <2>3, Zenon
    <3> HIDE DEF u
    <3>3. [u EXCEPT !.tasks[c].priority = 0, !.tasks[c].ticks_used = 0]
            = [u EXCEPT !.tasks[c].ticks_used = 0, !.tasks[c].priority = 0]
      BY <1>1, <3>2, ZenonT(40) DEF Sound, SchedulerType
    <3> HIDE DEF Boosted
    <3>4. Boosted([u EXCEPT !.tasks[c].ticks_used = 0, !.tasks[c].priority = 0])
      BY <1>7, <1>10, <3>2, Zenon
    <3>5. t.tasks[c].priority = 0
      <4>1. u \in SchedulerType /\ u.tasks[c] \in TaskType
        <5>1. u \in SchedulerType /\ u.tasks[c].state = "Blocked"
          BY <1>1, <1>3, <1>6, <3>2, Zenon DEF Kept, Sound, Boosted
        <5> QED
          BY <1>1, <5>1, TaskFacts, Zenon
      <4> QED
        BY <1>1, <3>1, <4>1 DEF SchedulerType, TaskType
    <3> QED
      BY <3>1, <3>3, <3>4, <3>5, Zenon
  <2>4. CASE reason.kind = "FileRead"
    <3> DEFINE prio == IF b.tasks[c].priority > 0 THEN b.tasks[c].priority - 1 ELSE 0
    <3>1. t = [b EXCEPT !.tasks[c].ticks_used = 0, !.tasks[c].priority = prio]
      BY <1>1, <1>5, <1>6, <2>4, Zenon DEF boost_for_reason, Sound, SchedulerType
    <3>2. prio \in Levels
      BY <1>1, <1>3, <1>6, <1>10, SchedulerAssumption DEF TaskType, Levels
    <3>3. reason.kind # "SpscRingEmpty"
      BY <2>4, Zenon
    <3> HIDE DEF prio, Boosted
    <3> QED
      BY <1>7, <1>8, <3>1, <3>2, <3>3, Zenon
  <2> QED
    BY <2>1, <2>2, <2>3, <2>4, Zenon
<1>12. t \in SchedulerType /\ Filed(t) /\ Switched(t) /\ SameTasks(b, t)
  BY <1>6, <1>11, KeptSound, Zenon DEF Sound
<1>13. SameTasks(s, t)
  BY <1>6, <1>12 DEF SameTasks
<1> QED
  BY <1>3, <1>6, <1>11, <1>12, <1>13 DEF Kept

\* wake_task files the blocked task it finds and leaves every other alone.
LEMMA WakeSound ==
  ASSUME NEW s, Sound(s), NEW id, NEW t, t = wake_task(s, id)
  PROVE  /\ Sound(t) /\ t.current = s.current
         /\ SameTasks(s, t)
         /\ \A slot \in Slots : SlotsOf(s, id) = {slot} => t.tasks[slot].state # "Blocked"
         /\ \A slot \in Slots : t.tasks[slot].priority = s.tasks[slot].priority
         /\ \A slot \in Slots :
              \/ t.tasks[slot] = s.tasks[slot]
              \/ /\ slot \in SlotsOf(s, id)
                 /\ s.tasks[slot].state = "Blocked" /\ t.tasks[slot].state = "Ready"
<1> DEFINE slot == Least(SlotsOf(s, id))
<1>1. s \in SchedulerType /\ Filed(s) /\ 0 \in Slots
  BY MaxTasksAssumption DEF Sound, Slots
<1>2. CASE ~(SlotsOf(s, id) # {} /\ s.tasks[slot].state = "Blocked")
  <2>1. t = s
    BY <1>2, Zenon DEF wake_task
  <2>2. ASSUME NEW other \in Slots, SlotsOf(s, id) = {other}
        PROVE  s.tasks[other].state # "Blocked"
    <3>1. Least({other}) = other
      BY DEF Least, Slots
    <3> QED
      BY <1>2, <2>2, <3>1, Zenon
  <2> QED
    BY <2>1, <2>2, Zenon DEF SameTasks
<1>3. CASE SlotsOf(s, id) # {} /\ s.tasks[slot].state = "Blocked"
  <2> DEFINE task == [s.tasks[slot] EXCEPT !.state = "Ready"]
             prio == s.tasks[slot].priority
  <2>1. slot \in SlotsOf(s, id)
    <3>1. SlotsOf(s, id) \in SUBSET Nat
      BY DEF SlotsOf, Slots
    <3> QED
      BY <1>3, <3>1, LeastFacts, Zenon
  <2>2. slot \in Slots
    BY <2>1, Zenon DEF SlotsOf
  <2>3. t = [s EXCEPT !.tasks[slot].state = "Ready", !.queues[prio] = push_back(@, slot)]
    BY <1>3, Zenon DEF wake_task
  <2> HIDE DEF slot
  <2>4. s.tasks[slot] \in TaskType
    BY <1>1, <1>3, <2>2, TaskFacts, Zenon
  <2>5. /\ task \in TaskType /\ task.state = "Ready" /\ task.priority = prio
        /\ task.id = s.tasks[slot].id /\ task.user = s.tasks[slot].user
    BY <2>4, Zenon DEF TaskType
  <2>6. /\ t.tasks = [s.tasks EXCEPT ![slot] = task]
        /\ t.queues = [s.queues EXCEPT ![prio] = push_back(s.queues[prio], slot)]
        /\ t = [s EXCEPT !.tasks = t.tasks, !.queues = t.queues]
    BY <1>1, <2>2, <2>3, Zenon DEF SchedulerType
  <2>7. Pushed(s, slot, task, t)
    BY <2>5, <2>6, Zenon DEF Pushed
  <2> HIDE DEF task, prio
  <2>8. /\ t.tasks \in [Slots -> TaskType \cup {EmptySlot}]
        /\ t.queues \in [Levels -> Seq(Slots)] /\ Filed(t)
    BY <1>1, <1>3, <2>2, <2>5, <2>7, FiledByPush, Zenon
  <2>9. t \in SchedulerType /\ t.current = s.current /\ t.next_id = s.next_id
    BY <1>1, <2>6, <2>8, Zenon DEF SchedulerType
  <2>10. \A other \in Slots : t.tasks[other] = IF other = slot THEN task ELSE s.tasks[other]
    BY <1>1, <2>6, Zenon DEF SchedulerType
  <2>11. IdleTask(t) /\ Alone(t)
    BY <1>1, <1>3, <2>5, <2>9, <2>10, Zenon DEF Sound, IdleTask, Alone
  <2>12. SameTasks(s, t)
    BY <1>3, <2>5, <2>9, <2>10, Zenon DEF SameTasks, Exists
  <2>13. \A other \in Slots :
           /\ t.tasks[other].priority = s.tasks[other].priority
           /\ SlotsOf(s, id) = {other} => t.tasks[other].state # "Blocked"
    BY <2>1, <2>5, <2>10, Zenon DEF prio
  <2> QED
    BY <1>3, <2>1, <2>5, <2>8, <2>9, <2>10, <2>11, <2>12, <2>13, Zenon DEF Sound
<1> QED
  BY <1>2, <1>3, Zenon

\* t has a new task in the first empty slot of s.
Filled(s, user, t) ==
  \E slot \in Slots, task \in TaskType :
    /\ slot = Least(FreeSlots(s)) /\ s.tasks[slot].state = "None"
    /\ task.id = s.next_id /\ task.state = "Ready" /\ task.user = user
    /\ t.tasks = [s.tasks EXCEPT ![slot] = task]

\* What spawn leaves: there may be no slot, or no memory.
Spawned(s, user, ok, t) ==
  /\ t \in SchedulerType /\ Filed(t) /\ t.current = s.current
  /\ t.next_id = IF FreeSlots(s) = {} THEN s.next_id ELSE s.next_id + 1
  /\ FreeSlots(s) = {} \/ ~ok => t.tasks = s.tasks
  /\ FreeSlots(s) # {} /\ ok => Filled(s, user, t)

\* spawn fills the first empty slot or changes no task.
LEMMA SpawnFacts ==
  ASSUME NEW s \in SchedulerType, Filed(s), s.next_id <= MaxIds,
         NEW priority \in Nat, NEW user \in BOOLEAN, NEW ok \in BOOLEAN,
         user => priority = 1,
         NEW t, t = spawn(s, priority, user, ok)
  PROVE  Spawned(s, user, ok, t)
<1> USE DEF Spawned
<1> DEFINE slot == Least(FreeSlots(s))
           prio == IF user \/ priority < PriorityLevels THEN priority ELSE PriorityLevels - 1
           task == NewTask(s.next_id, prio, user)
<1>1. CASE FreeSlots(s) = {}
  BY <1>1, Zenon DEF spawn
<1>2. CASE FreeSlots(s) # {} /\ ~ok
  <2>1. t = [s EXCEPT !.next_id = @ + 1]
    BY <1>2, Zenon DEF spawn
  <2>2. s.next_id + 1 \in 0..(MaxIds + 1)
    BY SchedulerAssumption DEF SchedulerType
  <2>3. /\ t \in SchedulerType /\ t.tasks = s.tasks /\ t.queues = s.queues
        /\ t.current = s.current /\ t.next_id = s.next_id + 1
    BY <2>1, <2>2, Zenon DEF SchedulerType
  <2> QED
    BY <1>2, <2>3 DEF Filed
<1>3. CASE FreeSlots(s) # {} /\ ok
  <2>1. slot \in FreeSlots(s)
    <3>1. FreeSlots(s) \in SUBSET Nat
      BY DEF FreeSlots, Slots
    <3> QED
      BY <1>3, <3>1, LeastFacts, Zenon
  <2>2. slot \in Slots /\ s.tasks[slot].state = "None"
    BY <2>1, Zenon DEF FreeSlots, Exists
  <2>3. prio \in Levels
    <3>1. CASE user
      BY <3>1, SchedulerAssumption DEF Levels
    <3>2. CASE ~user
      BY <3>2, SchedulerAssumption DEF Levels
    <3> QED
      BY <3>1, <3>2, Zenon
  <2>4. t = [[s EXCEPT !.next_id = @ + 1] EXCEPT !.tasks[slot] = task,
                                                 !.queues[prio] = push_back(@, slot)]
    BY <1>3, Zenon DEF spawn
  <2>5. s.next_id \in 0..MaxIds /\ s.next_id + 1 \in 0..(MaxIds + 1)
    BY SchedulerAssumption DEF SchedulerType
  <2> HIDE DEF prio, slot
  <2>6. /\ task \in TaskType /\ task.state = "Ready" /\ task.priority = prio
        /\ task.id = s.next_id /\ task.user = user
    BY <2>3, <2>5, NewTaskFacts
  <2> HIDE DEF task
  <2>7. /\ t.tasks = [s.tasks EXCEPT ![slot] = task]
        /\ t.queues = [s.queues EXCEPT ![prio] = push_back(s.queues[prio], slot)]
        /\ t = [s EXCEPT !.tasks = t.tasks, !.queues = t.queues, !.next_id = s.next_id + 1]
    BY <2>4, Zenon DEF SchedulerType
  <2>8. Pushed(s, slot, task, t)
    BY <2>6, <2>7, Zenon DEF Pushed
  <2>9. /\ t.tasks \in [Slots -> TaskType \cup {EmptySlot}]
        /\ t.queues \in [Levels -> Seq(Slots)] /\ Filed(t)
    BY <2>2, <2>6, <2>8, FiledByPush, Zenon
  <2>10. t \in SchedulerType /\ t.current = s.current /\ t.next_id = s.next_id + 1
    BY <2>5, <2>7, <2>9, Zenon DEF SchedulerType
  <2>11. slot = Least(FreeSlots(s))
    BY Zenon DEF slot
  <2>12. Filled(s, user, t)
    <3> USE DEF Filled
    <3> slot \in Slots /\ task \in TaskType
      BY <2>2, <2>6, Zenon
    <3> WITNESS slot \in Slots, task \in TaskType
    <3> QED
      BY <2>2, <2>6, <2>7, <2>11, Zenon
  <2> QED
    BY <1>3, <2>9, <2>10, <2>12, Zenon
<1> QED
  BY <1>1, <1>2, <1>3, Zenon

-----------------------------------------------------------------------------
(* The scheduler *)

\* The inductive invariant.
IInv ==
  /\ TypeOK
  /\ Sound(sched)
  /\ pc[0] = "run"
  /\ started => Switched(sched)
  /\ ~started => sched.current = NoTask /\ pc = [slot \in Slots |-> "run"]
  /\ OneRunning

-----------------------------------------------------------------------------
(* Before run: the tasks main and kernel_main spawn *)

\* Before run: n tasks have been spawned and are in the first n slots, each
\* with its slot for an id.
Boot(s, n) ==
  /\ s \in SchedulerType /\ Filed(s) /\ s.current = NoTask /\ s.next_id = n
  /\ \A slot \in Slots :
       /\ slot < n => s.tasks[slot].state = "Ready" /\ s.tasks[slot].id = slot
       /\ slot >= n => s.tasks[slot].state = "None"

\* Scheduler::new has no task.
LEMMA BootEmpty == Boot(NewScheduler, 0)
<1> DEFINE n == NewScheduler
<1>1. n \in SchedulerType
  BY SchedulerAssumption DEF NewScheduler, SchedulerType
<1>2. \A slot \in Slots : n.tasks[slot].state = "None" /\ slot >= 0
  BY DEF NewScheduler, EmptySlot, Slots
<1>3. \A level \in Levels : n.queues[level] = <<>>
  BY Zenon DEF NewScheduler
<1>4. Distinct(<<>>) /\ Elements(<<>>) = {}
  BY DEF Distinct, Elements
<1>5. n.next_id = 0 /\ n.current = NoTask
  BY Zenon DEF NewScheduler
<1> HIDE DEF n
<1>6. Filed(n)
  BY <1>2, <1>3, <1>4, Zenon DEF Filed
<1>7. \A slot \in Slots : ~(slot < 0)
  BY DEF Slots
<1> QED
  BY <1>1, <1>2, <1>5, <1>6, <1>7, Zenon DEF Boot, n

\* The next spawn that gets its memory takes the next slot.
LEMMA BootSpawn ==
  ASSUME NEW n \in Nat, n < MaxTasks, n <= MaxIds, NEW s, Boot(s, n),
         NEW user, NEW t, t \in SchedulerType, Filed(t), t.current = s.current,
         FreeSlots(s) # {} => Filled(s, user, t) /\ t.next_id = s.next_id + 1
  PROVE  /\ Boot(t, n + 1) /\ t.tasks[n].user = user
         /\ \A slot \in Slots : slot # n => t.tasks[slot] = s.tasks[slot]
<1>1. s \in SchedulerType /\ Filed(s) /\ s.next_id <= MaxIds /\ n \in Slots
  BY MaxTasksAssumption DEF Boot, Slots
<1>2. FreeSlots(s) = {slot \in Slots : slot >= n}
  <2>1. \A slot \in Slots : s.tasks[slot].state = "None" <=> slot >= n
    BY DEF Boot, Slots
  <2> QED
    BY <2>1, Zenon DEF FreeSlots, Exists
<1>3. Least(FreeSlots(s)) = n
  <2> DEFINE S == FreeSlots(s)
  <2>1. S \in SUBSET Nat /\ n \in S /\ \A y \in S : n <= y
    BY <1>1, <1>2 DEF Slots
  <2> HIDE DEF S
  <2>2. Least(S) \in S /\ \A y \in S : Least(S) <= y
    BY <2>1, LeastFacts, Zenon
  <2>3. Least(S) <= n /\ n <= Least(S) /\ Least(S) \in Nat
    BY <2>1, <2>2, Zenon
  <2> QED
    BY <2>3 DEF S
<1>6. FreeSlots(s) # {}
  BY <1>1, <1>2
<1>7. PICK slot \in Slots, task \in TaskType :
         /\ slot = Least(FreeSlots(s)) /\ s.tasks[slot].state = "None"
         /\ task.id = s.next_id /\ task.state = "Ready" /\ task.user = user
         /\ t.tasks = [s.tasks EXCEPT ![slot] = task]
  BY <1>6, Zenon DEF Filled
<1>8. \A other \in Slots : t.tasks[other] = IF other = n THEN task ELSE s.tasks[other]
  BY <1>1, <1>3, <1>7, Zenon DEF SchedulerType
<1>9. /\ t \in SchedulerType /\ Filed(t) /\ t.current = NoTask /\ t.next_id = n + 1
      /\ s.next_id = n
  BY <1>6, Zenon DEF Boot
<1>10. ASSUME NEW other \in Slots
       PROVE  /\ other < n + 1 => t.tasks[other].state = "Ready" /\ t.tasks[other].id = other
              /\ other >= n + 1 => t.tasks[other].state = "None"
  <2>1. other \in Nat
    BY DEF Slots
  <2>2. /\ other < n => s.tasks[other].state = "Ready" /\ s.tasks[other].id = other
        /\ other >= n => s.tasks[other].state = "None"
    BY Zenon DEF Boot
  <2>3. t.tasks[other] = IF other = n THEN task ELSE s.tasks[other]
    BY <1>8, Zenon
  <2>4. CASE other = n
    BY <1>7, <1>9, <2>1, <2>3, <2>4
  <2>5. CASE other < n
    BY <2>1, <2>2, <2>3, <2>5
  <2>6. CASE other > n
    BY <2>1, <2>2, <2>3, <2>6
  <2> QED
    BY <2>1, <2>4, <2>5, <2>6
<1> QED
  BY <1>1, <1>7, <1>8, <1>9, <1>10, Zenon DEF Boot

\* With test_kernel_task, which is no user task, in slot 0 that is sound.
LEMMA BootSound ==
  ASSUME NEW n \in Nat \ {0}, NEW s, Boot(s, n), s.tasks[0].user = FALSE
  PROVE  Sound(s) /\ \A slot \in Slots : s.tasks[slot].state # "Running"
<1>1. 0 \in Slots /\ 0 < n
  BY MaxTasksAssumption DEF Slots
<1>2. s \in SchedulerType /\ Filed(s)
  BY Zenon DEF Boot
<1>3. s.tasks[0].id = 0 /\ s.tasks[0].state = "Ready"
  BY <1>1, Zenon DEF Boot
<1>4. \A slot \in Slots : s.tasks[slot].state # "Running"
  BY DEF Boot, Slots
<1> QED
  BY <1>2, <1>3, <1>4, Zenon DEF Sound, IdleTask, Alone

Unstarted ==
  /\ pc = [slot \in Slots |-> "run"] /\ joining = [slot \in Slots |-> NoTask]
  /\ started = FALSE

\* The state of the scheduler is all there is to show of the initial state.
LEMMA StartIInv ==
  ASSUME NEW n \in Nat \ {0}, Boot(sched, n), sched.tasks[0].user = FALSE,
         Unstarted
  PROVE  IInv
<1>1. Sound(sched) /\ \A slot \in Slots : sched.tasks[slot].state # "Running"
  BY BootSound, Zenon
<1>2. sched \in SchedulerType /\ sched.current = NoTask
  BY Zenon DEF Boot
<1>3. TypeOK
  BY <1>2, Zenon DEF TypeOK, SchedulerType, Unstarted
<1>4. OneRunning
  BY <1>1, Zenon DEF OneRunning, StateOf, Unstarted
<1>5. pc[0] = "run"
  BY MaxTasksAssumption DEF Slots, Unstarted
<1> QED
  BY <1>1, <1>2, <1>3, <1>4, <1>5, Zenon DEF IInv, Unstarted

\* t has one task more than s, the last of n.
Added(s, n, user, t) ==
  /\ Boot(t, n) /\ t.tasks[n - 1].user = user
  /\ \A slot \in Slots : slot # n - 1 => t.tasks[slot] = s.tasks[slot]

\* spawn called so, once the allocation has succeeded.
LEMMA NextSpawn ==
  ASSUME NEW n \in Nat, n < MaxTasks, n <= MaxIds, NEW s, Boot(s, n), NEW user \in BOOLEAN
  PROVE  Added(s, n + 1, user, spawn(s, 1, user, TRUE))
<1>1. PICK ok \in BOOLEAN : ok = TRUE
  BY Zenon
<1> DEFINE t == spawn(s, 1, user, ok)
<1>2. s \in SchedulerType /\ Filed(s) /\ s.next_id <= MaxIds
  BY Zenon DEF Boot
<1>3. Spawned(s, user, ok, t)
  BY <1>2, SpawnFacts, Zenon
<1> HIDE DEF t
<1>4. /\ t \in SchedulerType /\ Filed(t) /\ t.current = s.current
      /\ FreeSlots(s) # {} => Filled(s, user, t) /\ t.next_id = s.next_id + 1
  BY <1>1, <1>3, Zenon DEF Spawned
<1>5. /\ Boot(t, n + 1) /\ t.tasks[n].user = user
      /\ \A slot \in Slots : slot # n => t.tasks[slot] = s.tasks[slot]
  BY <1>4, BootSpawn
<1>6. (n + 1) - 1 = n
  OBVIOUS
<1>7. Added(s, n + 1, user, t)
  BY <1>5, <1>6, Zenon DEF Added
<1> QED
  BY <1>1, <1>7, Zenon DEF t

\* test_kernel_task takes slot 0 of the empty scheduler.
LEMMA FirstSpawn ==
  LET t == spawn(NewScheduler, 1, FALSE, TRUE)
  IN Boot(t, 1) /\ t.tasks[0].user = FALSE
<1>1. PICK zero \in Nat, user \in BOOLEAN : zero = 0 /\ user = FALSE
  BY Zenon
<1> DEFINE s == NewScheduler
           t == spawn(s, 1, user, TRUE)
<1>2. zero < MaxTasks /\ zero <= MaxIds /\ Boot(s, zero)
  BY <1>1, BootEmpty, MaxTasksAssumption, SchedulerAssumption
<1> HIDE DEF s
<1>3. Added(s, zero + 1, user, t)
  BY <1>2, NextSpawn, Zenon
<1>4. zero + 1 = 1 /\ 1 - 1 = 0
  BY <1>1
<1> QED
  BY <1>1, <1>3, <1>4, Zenon DEF s, Added

\* The scheduler main starts, with the test task in slot 0.
LEMMA InitIInv == Init => IInv
<1> SUFFICES ASSUME Init PROVE IInv
  BY Zenon
<1>1. Boot(sched, 1) /\ sched.tasks[0].user = FALSE
  BY FirstSpawn, Zenon DEF Init
<1>2. Unstarted
  BY Zenon DEF Init, Unstarted
<1>3. PICK n \in Nat \ {0} : n = 1
  OBVIOUS
<1>4. Boot(sched, n)
  BY <1>1, <1>3, Zenon
<1> QED
  BY <1>1, <1>2, <1>4, StartIInv, Zenon

-----------------------------------------------------------------------------
(* The actions *)

\* What there is to show of a step.
LEMMA StepIInv ==
  ASSUME IInv, Sound(sched'),
         pc' \in [Slots -> {"run", "blocking", "exiting", "halted", "joining"}], pc'[0] = "run",
         joining' \in [Slots -> 0..MaxIds \cup {NoTask}],
         started', Switched(sched'),
         \/ sched'.tasks[sched'.current].state = "Running"
         \/ pc'[sched'.current] \in {"blocking", "exiting"}
  PROVE  IInv'
<1>1. sched' \in SchedulerType /\ Alone(sched')
  BY Zenon DEF Sound
<1>2. TypeOK'
  BY <1>1, Zenon DEF TypeOK, SchedulerType
<1>3. OneRunning'
  BY <1>1, Zenon DEF Alone, OneRunning, StateOf, current
<1> QED
  BY <1>2, <1>3, Zenon DEF IInv

\* What the action properties say of one step.
Unrevived ==
  \A slot \in Slots :
       /\ StateOf(slot) = "Dead" => StateOf(slot)' = "Dead"
       /\ StateOf(slot) = "Blocked" => StateOf(slot)' \in {"Blocked", "Ready"}

Highest ==
  current' # current =>
       \A slot \in Slots : StateOf(slot)' = "Ready" =>
         sched.tasks[current].priority' <= sched.tasks[slot].priority'

\* What a step that only switches keeps.
Carried ==
  /\ SameTasks(sched, sched')
  /\ \A slot \in Slots :
       /\ StateOf(slot)' = "Blocked" <=> StateOf(slot) = "Blocked"
       /\ slot # current => sched'.tasks[slot].priority \in {sched.tasks[slot].priority, 0}

\* Only before run are tasks added; none is ever taken away.
Settled == started => SameTasks(sched, sched')

\* A task that makes a call runs and is not test_kernel_task.
LEMMA CallerFacts ==
  ASSUME IInv, started, pc[current] \notin {"blocking", "exiting"}
  PROVE  /\ Sound(sched) /\ Switched(sched) /\ current \in Slots
         /\ sched.tasks[current].state = "Running"
         /\ (Me.id # 0 \/ pc[current] # "run") => current # 0
  BY Zenon DEF IInv, OneRunning, StateOf, current, Switched, Me, Sound, IdleTask

\* The switch: reschedule on a state that agrees with sched on every task's
\* state.
LEMMA SwitchStep ==
  ASSUME IInv, started, NEW s, Sound(s), Switched(s), Kept(sched, s), sched' = reschedule(s)
  PROVE  /\ Sound(sched') /\ Switched(sched') /\ sched'.tasks[sched'.current].state = "Running"
         /\ Unrevived /\ Highest /\ Carried
         /\ \A slot \in Slots : sched'.tasks[slot].priority = s.tasks[slot].priority
<1>1. /\ Sound(sched') /\ Switched(sched') /\ SameTasks(s, sched')
      /\ sched'.tasks[sched'.current].state = "Running"
      /\ \A slot \in Slots :
           /\ sched'.tasks[slot].priority = s.tasks[slot].priority
           /\ s.tasks[slot].state \notin {"Ready", "Running"} =>
                sched'.tasks[slot].state = s.tasks[slot].state
           /\ s.tasks[slot].state \in {"Ready", "Running"} =>
                sched'.tasks[slot].state \in {"Ready", "Running"}
           /\ sched'.tasks[slot].state = "Ready" =>
                sched'.tasks[sched'.current].priority <= sched'.tasks[slot].priority
  BY RescheduleSound
<1>2. Unrevived
  BY <1>1, Zenon DEF Unrevived, StateOf, Kept
<1>3. Highest
  BY <1>1, Zenon DEF Highest, StateOf, current
<1>4. Carried
  BY <1>1 DEF Carried, SameTasks, Exists, Kept, StateOf, current
<1> QED
  BY <1>1, <1>2, <1>3, <1>4, Zenon

\* Doing nothing is such a change.
LEMMA KeptSelf ==
  ASSUME NEW s
  PROVE  Kept(s, s)
  BY Zenon DEF Kept

\* Spawn fills a free slot and files it; before run nothing is current.
LEMMA SpawnStep ==
  ASSUME IInv, NEW p \in SpawnPriorities, NEW user \in BOOLEAN, NEW ok \in BOOLEAN,
         Spawn(p, user, ok)
  PROVE  IInv' /\ Unrevived /\ Highest /\ Settled
<1>1. Sound(sched) /\ sched \in SchedulerType /\ Filed(sched) /\ sched.current = NoTask
  BY Zenon DEF IInv, Sound, Spawn
<1>2. Spawned(sched, user, ok, sched')
  <2>1. sched.next_id <= MaxIds /\ p \in Nat
    BY <1>1, SchedulerAssumption DEF Spawn, SchedulerType
  <2>2. user => p = 1
    BY Zenon DEF Spawn
  <2>3. sched' = spawn(sched, p, user, ok)
    BY Zenon DEF Spawn
  <2> QED
    BY <1>1, <2>1, <2>2, <2>3, SpawnFacts, Zenon
<1>3. sched' \in SchedulerType /\ Filed(sched') /\ sched'.current = NoTask
  BY <1>1, <1>2, Zenon DEF Spawned
<1>4. \A slot \in Slots : \/ sched'.tasks[slot] = sched.tasks[slot]
                          \/ sched.tasks[slot].state = "None" /\ sched'.tasks[slot].state = "Ready"
  <2>1. CASE FreeSlots(sched) = {} \/ ~ok
    BY <1>2, <2>1, Zenon DEF Spawned
  <2>2. CASE FreeSlots(sched) # {} /\ ok
    <3>1. PICK slot \in Slots, task \in TaskType :
            /\ sched.tasks[slot].state = "None" /\ task.state = "Ready"
            /\ sched'.tasks = [sched.tasks EXCEPT ![slot] = task]
      BY <1>2, <2>2, Zenon DEF Spawned, Filled
    <3> QED
      BY <1>1, <3>1, Zenon DEF SchedulerType
  <2> QED
    BY <2>1, <2>2, Zenon
<1>5. 0 \in Slots
  BY MaxTasksAssumption DEF Slots
<1>6. IdleTask(sched') /\ Alone(sched')
  BY <1>1, <1>3, <1>4, <1>5, Zenon DEF Sound, IdleTask, Alone
<1>7. Sound(sched')
  BY <1>3, <1>6, Zenon DEF Sound
<1>8. TypeOK'
  BY <1>3, Zenon DEF IInv, TypeOK, SchedulerType, Spawn
<1>9. OneRunning'
  BY <1>6, Zenon DEF Alone, OneRunning, StateOf, current, Spawn
<1>10. IInv'
  BY <1>3, <1>7, <1>8, <1>9, Zenon DEF IInv, Spawn
<1>11. Unrevived
  BY <1>4, Zenon DEF Unrevived, StateOf
<1>12. Highest
  BY <1>1, <1>3, Zenon DEF Highest, current
<1> QED
  BY <1>10, <1>11, <1>12, Zenon DEF Settled, Spawn

\* run makes the highest ready task current; test_kernel_task is ready.
LEMMA RunStep ==
  ASSUME IInv, Run
  PROVE  IInv' /\ Unrevived /\ Highest /\ Carried
<1> DEFINE p == pick_next(sched)
<1>1. /\ Sound(sched) /\ sched \in SchedulerType /\ Filed(sched) /\ sched.current = NoTask
      /\ 0 \in Slots
  BY MaxTasksAssumption DEF IInv, Sound, Run, Slots
<1>2. \A slot \in Slots : sched.tasks[slot].state # "Running"
  BY <1>1, SchedulerAssumption DEF Sound, Alone, Slots
<1>3. IdleTask(sched) /\ sched.tasks[0].state = "Ready"
  BY <1>1, <1>2, Zenon DEF Sound, IdleTask
<1>4. sched' = [sched EXCEPT !.queues = p.queues, !.current = p.slot,
                             !.tasks[p.slot].state = "Running"]
  BY Zenon DEF Run
<1>5. /\ p.slot \in Slots
      /\ sched.tasks[p.slot].state = "Ready"
      /\ Sound(sched') /\ sched'.current = p.slot /\ sched'.next_id = sched.next_id
      /\ sched'.tasks = [sched.tasks EXCEPT ![p.slot] = [sched.tasks[p.slot] EXCEPT !.state = "Running"]]
      /\ \A slot \in Slots : sched.tasks[slot].state = "Ready" =>
           sched.tasks[p.slot].priority <= sched.tasks[slot].priority
  <2>1. Dispatched(sched, p, sched')
    BY <1>4, Zenon DEF Dispatched
  <2> HIDE DEF p
  <2> QED
    BY <1>1, <1>2, <1>3, <2>1, SwitchSound, Zenon
<1> DEFINE new == p.slot
<1> HIDE DEF p
<1>6. sched.tasks[new] \in TaskType
  BY <1>1, <1>5, TaskFacts, Zenon
<1>7. ASSUME NEW slot \in Slots
      PROVE  /\ sched'.tasks[slot].priority = sched.tasks[slot].priority
             /\ sched'.tasks[slot].id = sched.tasks[slot].id
             /\ sched'.tasks[slot].user = sched.tasks[slot].user
             /\ sched'.tasks[slot].state = IF slot = new THEN "Running" ELSE sched.tasks[slot].state
  BY <1>1, <1>5, <1>6 DEF SchedulerType, TaskType
<1>8. Switched(sched') /\ sched'.tasks[sched'.current].state = "Running"
  BY <1>5, <1>7, Zenon DEF Switched
<1>9. IInv'
  <2>1. /\ pc' = pc /\ joining' = joining /\ started'
        /\ pc[0] = "run" /\ TypeOK
    BY Zenon DEF Run, IInv
  <2> QED
    BY <1>5, <1>8, <2>1, StepIInv, Zenon DEF TypeOK
<1>10. Unrevived
  BY <1>5, <1>7, Zenon DEF Unrevived, StateOf
<1>11. Highest
  BY <1>5, <1>7, Zenon DEF Highest, StateOf, current
<1>12. Carried
  BY <1>5, <1>7, Zenon DEF Carried, SameTasks, Exists, StateOf
<1> QED
  BY <1>9, <1>10, <1>11, <1>12, Zenon

\* The timer interrupt: boost, charge, and, when the quantum is used up,
\* demote and switch.
LEMMA TickStep ==
  ASSUME IInv, Tick
  PROVE  IInv' /\ Unrevived /\ Highest /\ Carried
<1> DEFINE counted == CountDown(sched)
           charged == Charge(counted)
           demoted == demote_current(charged)
<1>1. started /\ Sound(sched) /\ Switched(sched)
  BY Zenon DEF Tick, InterruptsOn, IInv
<1>2. Sound(counted) /\ Kept(sched, counted) /\ Switched(counted)
  BY <1>1, CountDownSound, KeptSound, Zenon DEF Sound
<1> HIDE DEF counted
<1>3. Sound(charged) /\ Kept(sched, charged) /\ Switched(charged)
  BY <1>2, ChargeSound, KeptSound, KeptTransitive, Zenon DEF Sound
<1> HIDE DEF charged
<1>4. Sound(demoted) /\ Kept(sched, demoted) /\ Switched(demoted)
  BY <1>3, DemoteSound, KeptSound, KeptTransitive, Zenon DEF Sound
<1> HIDE DEF demoted
<1>5. /\ sched' = IF expired(charged) THEN reschedule(demoted) ELSE charged
      /\ pc' = pc /\ joining' = joining /\ started' = started
  BY Zenon DEF Tick, counted, charged, demoted
<1>6. pc[0] = "run" /\ TypeOK /\ OneRunning
  BY Zenon DEF IInv
<1>7. CASE expired(charged)
  <2>1. /\ Sound(sched') /\ Switched(sched') /\ sched'.tasks[sched'.current].state = "Running"
        /\ Unrevived /\ Highest /\ Carried
    BY <1>1, <1>4, <1>5, <1>7, SwitchStep, Zenon
  <2>2. IInv'
    BY <1>1, <1>5, <1>6, <2>1, StepIInv, Zenon DEF TypeOK
  <2> QED
    BY <2>1, <2>2, Zenon
<1>8. CASE ~expired(charged)
  <2>1. sched' = charged
    BY <1>5, <1>8, Zenon
  <2>2. /\ sched'.current = sched.current
        /\ \A slot \in Slots : sched'.tasks[slot].state = sched.tasks[slot].state
    BY <1>3, <2>1, Zenon DEF Kept
  <2>3. \/ sched'.tasks[sched'.current].state = "Running"
        \/ pc'[sched'.current] \in {"blocking", "exiting"}
    BY <1>1, <1>5, <1>6, <2>2, Zenon DEF OneRunning, StateOf, current, Switched
  <2>4. IInv'
    BY <1>1, <1>3, <1>5, <1>6, <2>1, <2>3, StepIInv, Zenon DEF TypeOK
  <2>5. Unrevived /\ Highest
    BY <2>2, Zenon DEF Unrevived, Highest, StateOf, current
  <2>6. Carried
    BY <1>3, <2>1, Zenon DEF Kept, Carried, SameTasks, Exists, StateOf, current
  <2> QED
    BY <2>4, <2>5, <2>6, Zenon
<1> QED
  BY <1>7, <1>8, Zenon

\* A call of reschedule that changes nothing else: yield_now.
LEMMA YieldStep ==
  ASSUME IInv, started, sched' = reschedule(sched), started' = started,
         pc' \in [Slots -> {"run", "blocking", "exiting", "halted", "joining"}],
         pc'[0] = "run", joining' = joining
  PROVE  /\ IInv' /\ Unrevived /\ Highest /\ Carried
         /\ \A slot \in Slots : sched'.tasks[slot].priority = sched.tasks[slot].priority
<1>1. Sound(sched) /\ Switched(sched) /\ TypeOK
  BY Zenon DEF IInv
<1>2. /\ Sound(sched') /\ Switched(sched') /\ sched'.tasks[sched'.current].state = "Running"
      /\ Unrevived /\ Highest /\ Carried
      /\ \A slot \in Slots : sched'.tasks[slot].priority = sched.tasks[slot].priority
  BY <1>1, KeptSelf, SwitchStep, Zenon
<1>3. IInv'
  BY <1>1, <1>2, StepIInv, Zenon DEF TypeOK
<1> QED
  BY <1>2, <1>3, Zenon

\* int 49 after block_current or exit_current has marked the current task.
LEMMA CheckRescheduleStep ==
  ASSUME IInv, CheckReschedule
  PROVE  /\ IInv' /\ Unrevived /\ Highest /\ Carried
         /\ \A slot \in Slots : sched'.tasks[slot].priority = sched.tasks[slot].priority
<1>1. /\ started /\ pc[current] \in {"blocking", "exiting"} /\ pc[0] = "run" /\ TypeOK
      /\ current \in Slots
  BY Zenon DEF CheckReschedule, IInv, Switched, current
<1>2. pc' = [pc EXCEPT ![current] = IF @ = "blocking" THEN "run" ELSE "halted"]
  BY Zenon DEF CheckReschedule
<1>3. /\ pc' \in [Slots -> {"run", "blocking", "exiting", "halted", "joining"}]
      /\ pc'[0] = "run"
  BY <1>1, <1>2, MaxTasksAssumption DEF TypeOK, Slots
<1> QED
  BY <1>1, <1>3, YieldStep, Zenon DEF CheckReschedule

\* block_current marks the running task; its slot is not that of
\* test_kernel_task.
LEMMA BlockStep ==
  ASSUME IInv, started, NEW reason \in Reasons, BlockCurrent(reason)
  PROVE  IInv' /\ Unrevived /\ Highest /\ Settled
<1>1. /\ pc[current] = "run" /\ Me.id # 0 /\ TypeOK /\ pc[0] = "run"
      /\ sched' = block(sched, reason) /\ started' = started /\ joining' = joining
      /\ pc' = [pc EXCEPT ![current] = "blocking"]
  BY Zenon DEF BlockCurrent, MayCall, IInv
<1>2. /\ Sound(sched) /\ Switched(sched) /\ current \in Slots /\ current # 0
      /\ sched.tasks[current].state = "Running"
  BY <1>1, CallerFacts, Zenon
<1>3. /\ reason.kind \in {"SpscRingEmpty", "SpscRingFull", "FileRead", "Waiting"}
      /\ reason.kind \in {"SpscRingEmpty", "SpscRingFull"} => reason.peer \in Slots \ {current}
  BY DEF Reasons
<1>4. /\ Sound(sched') /\ Switched(sched') /\ sched'.current = sched.current
      /\ SameTasks(sched, sched')
      /\ \A slot \in Slots :
           sched'.tasks[slot].state = IF slot = current THEN "Blocked" ELSE sched.tasks[slot].state
  BY <1>1, <1>2, <1>3, BlockSound DEF current
<1>5. /\ pc' \in [Slots -> {"run", "blocking", "exiting", "halted", "joining"}]
      /\ pc'[0] = "run" /\ pc'[sched'.current] = "blocking"
  BY <1>1, <1>2, <1>4, MaxTasksAssumption DEF TypeOK, Slots, current
<1>6. IInv'
  BY <1>1, <1>4, <1>5, StepIInv, Zenon DEF TypeOK
<1>7. Unrevived /\ Highest
  BY <1>2, <1>4, Zenon DEF Unrevived, Highest, StateOf, current
<1> QED
  BY <1>4, <1>6, <1>7, Zenon DEF Settled

\* exit_current, likewise.
LEMMA ExitStep ==
  ASSUME IInv, ExitCurrent
  PROVE  IInv' /\ Unrevived /\ Highest /\ Settled
<1>1. /\ started /\ pc[current] = "run" /\ Me.id # 0 /\ TypeOK /\ pc[0] = "run"
      /\ sched' = kill(sched, current) /\ started' = started /\ joining' = joining
      /\ pc' = [pc EXCEPT ![current] = "exiting"]
  BY Zenon DEF ExitCurrent, MayCall, IInv
<1>2. /\ Sound(sched) /\ Switched(sched) /\ current \in Slots /\ current # 0
      /\ sched.tasks[current].state = "Running"
  BY <1>1, CallerFacts, Zenon
<1>3. /\ Sound(sched') /\ Switched(sched') /\ sched'.current = sched.current
      /\ SameTasks(sched, sched')
      /\ \A slot \in Slots :
           sched'.tasks[slot].state = IF slot = current THEN "Dead" ELSE sched.tasks[slot].state
  BY <1>1, <1>2, KillSound, Zenon DEF current
<1>4. /\ pc' \in [Slots -> {"run", "blocking", "exiting", "halted", "joining"}]
      /\ pc'[0] = "run" /\ pc'[sched'.current] = "exiting"
  BY <1>1, <1>2, <1>3, MaxTasksAssumption DEF TypeOK, Slots, current
<1>5. IInv'
  BY <1>1, <1>3, <1>4, StepIInv, Zenon DEF TypeOK
<1>6. Unrevived /\ Highest
  BY <1>2, <1>3, Zenon DEF Unrevived, Highest, StateOf, current
<1> QED
  BY <1>3, <1>5, <1>6, Zenon DEF Settled

\* wake_task never hits the current task: a task that calls it is Running, and
\* an interrupt handler that comes between block_current and int 49 wakes user
\* tasks only, while the interrupted one is a kernel thread.
LEMMA WakeStep ==
  ASSUME IInv, NEW id \in 0..MaxIds, WakeTask(id)
  PROVE  IInv' /\ Unrevived /\ Highest /\ Settled
<1>1. /\ started /\ TypeOK /\ pc[0] = "run" /\ Sound(sched) /\ Switched(sched)
      /\ sched' = wake_task(sched, id) /\ started' = started /\ joining' = joining /\ pc' = pc
      /\ current \in Slots
  BY Zenon DEF WakeTask, InterruptsOn, IInv, Switched, current
<1>2. /\ Sound(sched') /\ sched'.current = sched.current /\ SameTasks(sched, sched')
      /\ \A slot \in Slots :
           \/ sched'.tasks[slot] = sched.tasks[slot]
           \/ /\ slot \in SlotsOf(sched, id)
              /\ sched.tasks[slot].state = "Blocked" /\ sched'.tasks[slot].state = "Ready"
  BY <1>1, WakeSound
<1>3. sched'.tasks[current] = sched.tasks[current]
  <2>1. CASE pc[current] = "run"
    BY <1>1, <1>2, <2>1, CallerFacts, Zenon
  <2>2. CASE pc[current] # "run"
    <3>1. ~sched.tasks[current].user
      BY <2>2, Zenon DEF WakeTask, InterruptsOn, Me
    <3>2. current \notin SlotsOf(sched, id)
      BY <2>2, <3>1, Zenon DEF WakeTask
    <3> QED
      BY <1>1, <1>2, <3>2, Zenon
  <2> QED
    BY <2>1, <2>2, Zenon
<1>4. /\ Switched(sched')
      /\ \/ sched'.tasks[sched'.current].state = "Running"
         \/ pc'[sched'.current] \in {"blocking", "exiting"}
  BY <1>1, <1>2, <1>3, Zenon DEF IInv, OneRunning, StateOf, Switched, current
<1>5. IInv'
  BY <1>1, <1>2, <1>4, StepIInv, Zenon DEF TypeOK
<1>6. Unrevived /\ Highest
  BY <1>2, Zenon DEF Unrevived, Highest, StateOf, current
<1> QED
  BY <1>2, <1>5, <1>6, Zenon DEF Settled

\* replace_current_task stores a fresh Running task in the current slot.
LEMMA ExecStep ==
  ASSUME IInv, ExecReplace
  PROVE  IInv' /\ Unrevived /\ Highest /\ Settled
<1>1. /\ started /\ pc[current] = "run" /\ Me.id # 0 /\ TypeOK /\ pc[0] = "run"
      /\ sched' = replace_current_task(sched) /\ started' = started /\ joining' = joining
      /\ pc' = pc /\ sched.tasks[current].user
  BY Zenon DEF ExecReplace, MayCall, IInv, Me
<1>2. /\ Sound(sched) /\ Switched(sched) /\ current \in Slots /\ current # 0
      /\ sched.tasks[current].state = "Running"
  BY <1>1, CallerFacts, Zenon
<1>3. /\ Sound(sched') /\ Switched(sched') /\ sched'.current = sched.current
      /\ sched'.tasks[current].state = "Running" /\ SameTasks(sched, sched')
      /\ \A slot \in Slots : slot # current => sched'.tasks[slot] = sched.tasks[slot]
  BY <1>1, <1>2, ReplaceSound, Zenon DEF current
<1>4. IInv'
  BY <1>1, <1>3, StepIInv, Zenon DEF TypeOK, current
<1>5. Unrevived /\ Highest
  BY <1>2, <1>3, Zenon DEF Unrevived, Highest, StateOf, current
<1> QED
  BY <1>3, <1>4, <1>5, Zenon DEF Settled

\* A step that leaves the scheduler alone and moves the current task, which
\* runs, to another place in its code.
LEMMA CallerMoves ==
  ASSUME IInv, started, pc[current] \in {"run", "joining"}, current # 0,
         NEW where \in {"run", "joining"}, NEW whom \in 0..MaxIds \cup {NoTask},
         sched' = sched, started' = started,
         pc' = [pc EXCEPT ![current] = where], joining' = [joining EXCEPT ![current] = whom]
  PROVE  IInv' /\ Unrevived /\ Highest /\ Settled
<1>1. /\ Sound(sched) /\ Switched(sched) /\ current \in Slots /\ TypeOK /\ pc[0] = "run"
      /\ sched.tasks[current].state = "Running"
  BY CallerFacts, Zenon DEF IInv
<1>2. /\ pc' \in [Slots -> {"run", "blocking", "exiting", "halted", "joining"}]
      /\ joining' \in [Slots -> 0..MaxIds \cup {NoTask}]
      /\ pc'[0] = "run"
  BY <1>1, MaxTasksAssumption DEF TypeOK, Slots
<1>3. IInv'
  BY <1>1, <1>2, StepIInv, Zenon DEF current
<1>4. Unrevived /\ Highest /\ Settled
  BY Zenon DEF Unrevived, Highest, StateOf, current, Settled, SameTasks, Exists
<1> QED
  BY <1>3, <1>4, Zenon

\* wait_task starts to poll.
LEMMA WaitTaskStep ==
  ASSUME IInv, NEW id \in 0..MaxIds, WaitTask(id)
  PROVE  IInv' /\ Unrevived /\ Highest /\ Settled
<1>1. /\ started /\ pc[current] = "run" /\ Me.id # 0
      /\ pc' = [pc EXCEPT ![current] = "joining"] /\ joining' = [joining EXCEPT ![current] = id]
      /\ sched' = sched /\ started' = started
  BY Zenon DEF WaitTask, MayCall
<1>2. current # 0
  BY <1>1, CallerFacts, Zenon
<1> QED
  BY <1>1, <1>2, CallerMoves, Zenon

\* One turn of wait_task's loop: it returns, or yields.
LEMMA WaitPollStep ==
  ASSUME IInv, WaitPoll
  PROVE  IInv' /\ Unrevived /\ Highest /\ Settled
<1>1. started /\ pc[current] = "joining" /\ started' = started /\ TypeOK /\ pc[0] = "run"
  BY Zenon DEF WaitPoll, IInv
<1>2. current # 0
  BY <1>1, CallerFacts, Zenon
<1>3. CASE SlotsOf(sched, joining[current]) = {}
  BY <1>1, <1>2, <1>3, CallerMoves, Zenon DEF WaitPoll
<1>4. CASE SlotsOf(sched, joining[current]) # {}
  BY <1>1, <1>4, YieldStep, Zenon DEF WaitPoll, TypeOK, Settled, Carried
<1> QED
  BY <1>3, <1>4, Zenon

\* Every step, stuttering included, keeps the inductive invariant, revives no
\* task, switches to none but the highest and, after run, adds or removes none.
LEMMA NextStep ==
  ASSUME IInv, [Next]_vars
  PROVE  IInv' /\ Unrevived /\ Highest /\ Settled
<1>1. ASSUME NEW p \in SpawnPriorities, NEW user \in BOOLEAN, NEW ok \in BOOLEAN,
             Spawn(p, user, ok)
      PROVE  IInv' /\ Unrevived /\ Highest /\ Settled
  BY <1>1, SpawnStep, Zenon
<1>2. CASE Run
  BY <1>2, RunStep, Zenon DEF Settled, Carried
<1>3. CASE Tick
  BY <1>3, TickStep, Zenon DEF Settled, Carried
<1>4. CASE Yield
  BY <1>4, YieldStep, Zenon DEF Yield, MayCall, IInv, TypeOK, Settled, Carried
<1>5. CASE ExitCurrent
  BY <1>5, ExitStep, Zenon
<1>6. CASE CheckReschedule
  BY <1>6, CheckRescheduleStep, Zenon DEF Settled, Carried
<1>7. ASSUME started, NEW reason \in Reasons, BlockCurrent(reason)
      PROVE  IInv' /\ Unrevived /\ Highest /\ Settled
  BY <1>7, BlockStep, Zenon
<1>8. ASSUME NEW id \in 0..MaxIds, WakeTask(id)
      PROVE  IInv' /\ Unrevived /\ Highest /\ Settled
  BY <1>8, WakeStep, Zenon
<1>9. CASE ExecReplace
  BY <1>9, ExecStep, Zenon
<1>10. ASSUME NEW id \in 0..MaxIds, WaitTask(id)
       PROVE  IInv' /\ Unrevived /\ Highest /\ Settled
  BY <1>10, WaitTaskStep, Zenon
<1>11. CASE WaitPoll
  BY <1>11, WaitPollStep, Zenon
<1>12. CASE UNCHANGED vars
  <2>1. IInv'
    BY <1>12, Zenon DEF vars, IInv, TypeOK, OneRunning, StateOf, current
  <2> QED
    BY <1>12, <2>1, Zenon DEF vars, Unrevived, Highest, StateOf, current, Settled, SameTasks, Exists
<1> QED
  BY <1>1, <1>2, <1>3, <1>4, <1>5, <1>6, <1>7, <1>8, <1>9, <1>10, <1>11, <1>12, Zenon DEF Next

\* IInv holds in every reachable state.
LEMMA Inductive == Spec => []IInv
<1>1. IInv /\ [Next]_vars => IInv'
  BY NextStep, Zenon
<1> QED
  BY InitIInv, <1>1, PTL DEF Spec

\* What the inductive invariant says of one queue: the entries of a slot.
LEMMA FiledEntries ==
  ASSUME IInv, NEW slot \in Slots
  PROVE  /\ StateOf(slot) # "Ready" => Entries(slot) = {}
         /\ StateOf(slot) = "Ready" =>
              \E i \in 1..MaxTasks : Entries(slot) = {<<sched.tasks[slot].priority, i>>}
<1> DEFINE q(level) == sched.queues[level]
<1>1. sched \in SchedulerType /\ Filed(sched)
  BY Zenon DEF IInv, Sound
<1>2. \A level \in Levels : q(level) \in Seq(Slots) /\ Distinct(q(level))
  BY <1>1, Zenon DEF SchedulerType, Filed
<1>3. \A level \in Levels : slot \in Elements(q(level)) <=>
        StateOf(slot) = "Ready" /\ sched.tasks[slot].priority = level
  BY <1>1, Zenon DEF Filed, StateOf
<1>4. \A level \in Levels : DOMAIN q(level) = 1..Len(q(level)) /\ Len(q(level)) \in Nat
                            /\ Len(q(level)) <= MaxTasks
  BY <1>2, QueueFacts, QueueFits, Zenon
<1>5. \A e : e \in Entries(slot) <=>
        /\ e \in Levels \X (1..MaxTasks)
        /\ e[2] \in DOMAIN q(e[1]) /\ q(e[1])[e[2]] = slot
  BY Zenon DEF Entries
<1>6. CASE StateOf(slot) # "Ready"
  <2>1. \A e : e \notin Entries(slot)
    BY <1>3, <1>5, <1>6 DEF Elements
  <2> QED
    BY <1>6, <2>1, Zenon
<1>7. CASE StateOf(slot) = "Ready"
  <2> DEFINE prio == sched.tasks[slot].priority
  <2>1. prio \in Levels
    BY <1>1, <1>7, TaskFacts, Zenon DEF StateOf, TaskType
  <2>2. PICK i \in DOMAIN q(prio) : q(prio)[i] = slot
    BY <1>3, <1>7, <2>1, Zenon DEF Elements
  <2>3. i \in 1..MaxTasks
    BY <1>4, <2>1, <2>2, MaxTasksAssumption
  <2>4. <<prio, i>> \in Entries(slot)
    BY <1>5, <2>1, <2>2, <2>3, Zenon
  <2>5. ASSUME NEW e \in Entries(slot)
        PROVE  e = <<prio, i>>
    <3>1. /\ e \in Levels \X (1..MaxTasks) /\ e[1] \in Levels
          /\ e[2] \in DOMAIN q(e[1]) /\ q(e[1])[e[2]] = slot
      BY <1>5
    <3>2. e[1] = prio
      BY <1>3, <3>1, Zenon DEF Elements
    <3>3. e[2] = i
      BY <1>2, <2>1, <2>2, <3>1, <3>2, Zenon DEF Distinct
    <3> QED
      BY <3>1, <3>2, <3>3
  <2>6. Entries(slot) = {<<prio, i>>}
    BY <2>4, <2>5, Zenon
  <2> QED
    BY <1>7, <2>3, <2>6, Zenon
<1> QED
  BY <1>6, <1>7, Zenon

-----------------------------------------------------------------------------
(* What they keep *)

\* The Scheduler structure stays well formed, for any number of slots, levels,
\* spawns and any boost interval: no queue holds anything but slots, and
\* boost_countdown never reaches the zero at which its decrement underflows.
THEOREM SchedulerTypeCorrect == Spec => []TypeOK
<1>1. IInv => TypeOK
  BY Zenon DEF IInv
<1> QED
  BY <1>1, Inductive, PTL

\* At most one task is Running, the current one; and the current one is
\* Running unless block_current or exit_current is about to switch it out.
THEOREM OneRunningHolds == Spec => []OneRunning
<1>1. IInv => OneRunning
  BY Zenon DEF IInv
<1> QED
  BY <1>1, Inductive, PTL

\* A ready task has exactly one queue entry, at its own level: spawn,
\* reschedule, wake_task, boost_all and boost_for_reason neither lose nor
\* duplicate one.
THEOREM ReadyIsFiledHolds == Spec => []ReadyIsFiled
<1>1. IInv => ReadyIsFiled
  BY FiledEntries, Zenon DEF ReadyIsFiled
<1> QED
  BY <1>1, Inductive, PTL

\* Only ready tasks are in a queue, as boost_for_reason's comment says; so
\* pick_next never has to skip an entry.
THEOREM OnlyReadyQueuedHolds == Spec => []OnlyReadyQueued
<1>1. IInv => OnlyReadyQueued
  BY FiledEntries, Zenon DEF OnlyReadyQueued
<1> QED
  BY <1>1, Inductive, PTL

\* reschedule's fallback, which would make a Blocked or Dead old task Running,
\* is never taken: test_kernel_task is always ready when another task leaves.
THEOREM NoRevivalHolds == Spec => NoRevival
<1>1. IInv /\ [Next]_vars => [Unrevived]_vars
  BY NextStep, Zenon
<1> QED
  BY <1>1, Inductive, PTL DEF Spec, NoRevival, Unrevived

\* Every switch is to a task of the highest level that has a ready one.
THEOREM SwitchToHighestHolds == Spec => SwitchToHighest
<1>1. IInv /\ [Next]_vars => [Highest]_vars
  BY NextStep, Zenon
<1> QED
  BY <1>1, Inductive, PTL DEF Spec, SwitchToHighest, Highest
=============================================================================
