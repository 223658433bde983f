------------------------------ MODULE ModArith ------------------------------
(* Facts about natural numbers: about %, for the circular buffers and the
   alignments; about the least of a set, for the first-fit searches; and
   induction and recursion up to a bound, for the loops.  And about sequences,
   for the queues: the ones the proofs use of SequenceTheorems, under the same
   names.  That module is not extended, since every fact in scope, used or not,
   slows down every step of a proof. *)
EXTENDS Integers, Sequences, WellFoundedInduction, TLAPS

\* Division with remainder, the form in which the other lemmas use %.
LEMMA DivMod ==
  ASSUME NEW n \in Nat \ {0}, NEW a \in Int
  PROVE  /\ a \div n \in Int
         /\ (a % n) \in 0..(n - 1)
         /\ a = (n * (a \div n)) + (a % n)
  OBVIOUS

\* A quotient and a remainder are determined by the number they add up to.
LEMMA ModDetermined ==
  ASSUME NEW n \in Nat \ {0}, NEW q \in Int, NEW r \in 0..(n - 1)
  PROVE  ((n * q) + r) % n = r
  OBVIOUS

\* A number already in range is its own remainder.
LEMMA ModSmall ==
  ASSUME NEW n \in Nat \ {0}, NEW a \in 0..(n - 1)
  PROVE  a % n = a
  OBVIOUS

\* Adding a multiple of the modulus changes nothing.
LEMMA ModShift ==
  ASSUME NEW n \in Nat \ {0}, NEW a \in Int, NEW k \in Int
  PROVE  (a + (n * k)) % n = a % n
<1> DEFINE q == a \div n
           r == a % n
<1>1. q \in Int /\ r \in 0..(n - 1) /\ a = (n * q) + r
  BY DivMod
<1>2. a + (n * k) = (n * (q + k)) + r
  BY <1>1
<1>3. q + k \in Int
  BY <1>1
<1> HIDE DEF q, r
<1>4. ((n * (q + k)) + r) % n = r
  BY <1>1, <1>3, ModDetermined
<1> QED
  BY <1>2, <1>4 DEF r

\* Adding the modulus changes nothing.
LEMMA ModPlus ==
  ASSUME NEW n \in Nat \ {0}, NEW a \in Int
  PROVE  (a + n) % n = a % n
<1> DEFINE q == a \div n
           r == a % n
<1>1. q \in Int /\ r \in 0..(n - 1) /\ a = (n * q) + r
  BY DivMod
<1>2. a + n = (n * (q + 1)) + r
  BY <1>1
<1>3. q + 1 \in Int
  BY <1>1
<1> HIDE DEF q, r
<1>4. ((n * (q + 1)) + r) % n = r
  BY <1>1, <1>3, ModDetermined
<1> QED
  BY <1>2, <1>4 DEF r

\* Numbers less than the modulus apart have different remainders.
LEMMA ModApart ==
  ASSUME NEW n \in Nat \ {0}, NEW a \in Int, NEW b \in Int,
         a < b, b - a < n
  PROVE  a % n # b % n
<1> DEFINE qa == a \div n
           qb == b \div n
<1> SUFFICES ASSUME a % n = b % n PROVE FALSE
  OBVIOUS
<1>1. qa \in Int /\ qb \in Int
  BY DivMod
<1>2. a = (n * qa) + (a % n) /\ b = (n * qb) + (b % n)
  BY DivMod
<1>3. (a % n) \in Int /\ (b % n) \in Int
  BY DivMod
<1> HIDE DEF qa, qb
<1>4. b - a = n * (qb - qa)
  BY <1>1, <1>2, <1>3
<1>5. CASE qb - qa <= 0
  BY <1>1, <1>4, <1>5
<1>6. CASE qb - qa >= 1
  BY <1>1, <1>4, <1>6
<1> QED
  BY <1>1, <1>5, <1>6

\* The difference of two wrapping counters, without %.
LEMMA WrapDiff ==
  ASSUME NEW w \in Nat \ {0}, NEW a \in 0..(w - 1), NEW b \in 0..(w - 1)
  PROVE  (a - b) % w = IF a >= b THEN a - b ELSE a - b + w
<1>1. CASE a >= b
  BY <1>1, ModSmall
<1>2. CASE a < b
  <2> DEFINE d == a - b
  <2>1. d \in Int /\ d + w \in 0..(w - 1)
    BY <1>2
  <2> HIDE DEF d
  <2>2. (d + w) % w = d % w
    BY <2>1, ModPlus, Zenon
  <2>3. (d + w) % w = d + w
    BY <2>1, ModSmall
  <2>4. d % w = d + w
    BY <2>2, <2>3
  <2> QED
    BY <1>2, <2>4 DEF d
<1> QED
  BY <1>1, <1>2

\* The successor of a wrapping counter, without %.
LEMMA WrapNext ==
  ASSUME NEW w \in Nat \ {0}, NEW a \in 0..(w - 1)
  PROVE  (a + 1) % w = IF a + 1 = w THEN 0 ELSE a + 1
<1>1. CASE a + 1 = w
  <2>1. (0 + w) % w = 0 % w
    BY ModPlus
  <2> QED
    BY <1>1, <2>1, ModSmall
<1>2. CASE a + 1 # w
  BY <1>2, ModSmall
<1> QED
  BY <1>1, <1>2
\* A set of natural numbers that is not empty has a least: what a search from
\* the bottom up stops at.
LEMMA LeastExists ==
  ASSUME NEW S \in SUBSET Nat, S # {}
  PROVE  \E p \in S : \A q \in S : p <= q
<1> DEFINE R == OpToRel(<, Nat)
<1>1. \A q, p \in Nat : q < p => <<q, p>> \in R
  BY DEF OpToRel
<1>2. IsWellFoundedOn(R, Nat)
  BY NatLessThanWellFounded, Zenon
<1> HIDE DEF R
<1>3. \E p \in S : \A q \in S : ~(<<q, p>> \in R)
  BY <1>2, WFMin, Zenon
<1>4. PICK p \in S : \A q \in S : ~(<<q, p>> \in R)
  BY <1>3
<1>5. \A q \in S : ~(q < p)
  BY <1>1, <1>4, Zenon
<1>6. \A q \in S : p <= q
  BY <1>5
<1> QED
  BY <1>6

\* Induction, with the statement as the set of numbers it holds of.
LEMMA SetInduction ==
  ASSUME NEW N \in Nat, NEW P, 0 \in P, \A n \in 1..N : n - 1 \in P => n \in P
  PROVE  \A n \in 0..N : n \in P
<1> DEFINE Failing == (0..N) \ P
<1>1. Failing \in SUBSET Nat
  OBVIOUS
<1>2. ASSUME Failing # {} PROVE FALSE
  <2> HIDE DEF Failing
  <2>1. PICK m \in Failing : \A k \in Failing : m <= k
    BY <1>1, <1>2, LeastExists
  <2>2. m \in Nat /\ m - 1 \notin Failing
    BY <1>1, <2>1
  <2> QED
    BY <2>1, <2>2 DEF Failing
<1> QED
  BY <1>2

\* f is defined by recursion on 0..N: step[n] says how its value at n is made
\* from its value at n - 1.
IsRecursion(N, S, base, step, f) ==
  /\ f \in [0..N -> S]
  /\ f[0] = base
  /\ \A n \in 1..N : f[n] = step[n][f[n - 1]]

\* There is such a function.  The prover sees a recursive definition as the
\* choice of a function that satisfies its equation, so this is what it takes
\* to unfold one.
LEMMA RecursionExists ==
  ASSUME NEW N \in Nat, NEW S, NEW base \in S, NEW step \in [1..N -> [S -> S]]
  PROVE  \E f : IsRecursion(N, S, base, step, f)
<1> DEFINE Upto(m, f) == f[0] = base /\ \A n \in 1..m : f[n] = step[n][f[n - 1]]
           P == {m \in 0..N : \E f \in [0..m -> S] : Upto(m, f)}
<1>1. 0 \in P
  <2> DEFINE f0 == [n \in 0..0 |-> base]
  <2>1. f0 \in [0..0 -> S] /\ Upto(0, f0)
    OBVIOUS
  <2> HIDE DEF f0
  <2> QED
    BY <2>1
<1>2. ASSUME NEW m \in 1..N, m - 1 \in P PROVE m \in P
  <2>1. PICK g \in [0..(m - 1) -> S] : Upto(m - 1, g)
    BY <1>2
  <2> DEFINE h == [n \in 0..m |-> IF n = m THEN step[m][g[m - 1]] ELSE g[n]]
  <2>2. h \in [0..m -> S]
    <3>1. step[m] \in [S -> S] /\ g[m - 1] \in S
      OBVIOUS
    <3>2. step[m][g[m - 1]] \in S
      BY <3>1
    <3>3. \A n \in 0..m : n # m => g[n] \in S
      OBVIOUS
    <3> QED
      BY <3>2, <3>3
  <2>3. h[0] = base
    BY <2>1
  <2>4. ASSUME NEW n \in 1..m PROVE h[n] = step[n][h[n - 1]]
    BY <2>1
  <2> HIDE DEF h
  <2>5. Upto(m, h)
    BY <2>3, <2>4
  <2>6. \E f \in [0..m -> S] : Upto(m, f)
    BY <2>2, <2>5
  <2>7. m \in 0..N
    OBVIOUS
  <2> HIDE DEF Upto
  <2> QED
    BY <2>6, <2>7
<1>3. \A n \in 0..N : n \in P
  <2> HIDE DEF P
  <2> QED
    BY <1>1, <1>2, SetInduction, Zenon
<1>4. N \in P
  BY <1>3
<1> QED
  BY <1>4 DEF IsRecursion
-----------------------------------------------------------------------------
\* The empty sequence is a sequence of anything, and the only one of length 0.
LEMMA EmptySeq ==
  ASSUME NEW S
  PROVE  /\ <<>> \in Seq(S) /\ Len(<<>>) = 0
         /\ \A s \in Seq(S) : s # <<>> => Len(s) \in Nat \ {0}
  OBVIOUS

\* A sequence is a function on the numbers up to its length.
LEMMA LenProperties ==
  ASSUME NEW S, NEW s \in Seq(S)
  PROVE  Len(s) \in Nat /\ s \in [1..Len(s) -> S] /\ DOMAIN s = 1..Len(s)
  OBVIOUS

\* Its entries are what it is a sequence of.
LEMMA ElementOfSeq ==
  ASSUME NEW S, NEW s \in Seq(S), NEW i \in 1..Len(s)
  PROVE  s[i] \in S
  OBVIOUS

\* Sequences of one length with the same entries are one.
LEMMA SeqEqual ==
  ASSUME NEW S, NEW a \in Seq(S), NEW b \in Seq(S),
         Len(a) = Len(b), \A i \in 1..Len(a) : a[i] = b[i]
  PROVE  a = b
  OBVIOUS

\* One sequence after another.
LEMMA ConcatProperties ==
  ASSUME NEW S, NEW a \in Seq(S), NEW b \in Seq(S)
  PROVE  /\ a \o b \in Seq(S) /\ Len(a \o b) = Len(a) + Len(b)
         /\ \A i \in 1..(Len(a) + Len(b)) :
              (a \o b)[i] = IF i <= Len(a) THEN a[i] ELSE b[i - Len(a)]
  OBVIOUS

\* And a third.
LEMMA ConcatAssociative ==
  ASSUME NEW S, NEW a \in Seq(S), NEW b \in Seq(S), NEW c \in Seq(S)
  PROVE  (a \o b) \o c = a \o (b \o c)
  OBVIOUS

\* A part of a sequence, or of anything with entries at these places.
LEMMA SubSeqProperties ==
  ASSUME NEW S, NEW s, NEW m \in Int, NEW n \in Int, \A i \in m..n : s[i] \in S
  PROVE  /\ SubSeq(s, m, n) \in Seq(S)
         /\ Len(SubSeq(s, m, n)) = IF m <= n THEN n - m + 1 ELSE 0
         /\ \A i \in 1..(n - m + 1) : SubSeq(s, m, n)[i] = s[m + i - 1]
  OBVIOUS

\* A sequence without its first entry.
LEMMA HeadTailProperties ==
  ASSUME NEW S, NEW s \in Seq(S), s # <<>>
  PROVE  /\ Head(s) \in S /\ Tail(s) \in Seq(S) /\ Len(Tail(s)) = Len(s) - 1
         /\ \A i \in 1..Len(Tail(s)) : Tail(s)[i] = s[i + 1]
  OBVIOUS

\* A sequence with one more entry.
LEMMA AppendProperties ==
  ASSUME NEW S, NEW s \in Seq(S), NEW x \in S
  PROVE  /\ Append(s, x) \in Seq(S) /\ Append(s, x) # <<>>
         /\ Len(Append(s, x)) = Len(s) + 1
         /\ \A i \in 1..Len(s) : Append(s, x)[i] = s[i]
         /\ Append(s, x)[Len(s) + 1] = x
  OBVIOUS

\* That is the sequence followed by one of one entry.
LEMMA AppendIsConcat ==
  ASSUME NEW S, NEW s \in Seq(S), NEW x \in S
  PROVE  Append(s, x) = s \o <<x>>
  OBVIOUS
=============================================================================
