---------------------------- MODULE UringProofs -----------------------------
(***************************************************************************)
(* One io_uring ring, for every size that divides the modulus of the       *)
(* indices, every set of requests and any number of pushes: no request     *)
(* runs twice, and the completions come in the order the requests ran in.  *)
(*                                                                         *)
(* The inductive invariant is UringInv. It counts the indices without      *)
(* wrapping (SqAt, CqAt), so that a request pushed as number i is known by *)
(* its user_data i; it says which of them a call that waits for the        *)
(* keyboard has still to run (Lock); and of the completions that wait that *)
(* they are those of requests that ran, in that order (Sound).             *)
(***************************************************************************)
EXTENDS IoUring, ModArith, TLAPS

-----------------------------------------------------------------------------
(* io_uring: requests run once and are answered in order *)

\* The size of the ring is in range, whatever setup was asked for.
LEMMA RingFacts ==
  /\ Entries \in Nat \ {0} /\ Entries =< MaxEntries
  /\ IdxMod \in Nat \ {0} /\ IdxMod > Entries
<1>1. Entries \in 1 .. MaxEntries
  <2>1. 1 \in 1 .. MaxEntries /\ MaxEntries \in 1 .. MaxEntries
    BY RingAssumption
  <2> QED
    BY <2>1, Zenon DEF Entries
<1> QED
  BY <1>1, RingAssumption

\* A wrapping index moved on by k.
LEMMA IndexPlus ==
  ASSUME NEW i \in Nat, NEW k \in Nat
  PROVE  ((i % IdxMod) + k) % IdxMod = (i + k) % IdxMod
<1>0. IdxMod \in Nat \ {0}
  BY RingFacts
<1>1. PICK q, r : q = i \div IdxMod /\ r = i % IdxMod
  BY Zenon
<1>2. q \in Int /\ r \in 0..(IdxMod - 1) /\ i = (IdxMod * q) + r
  BY <1>0, <1>1, DivMod
<1>3. ((r + k) + (IdxMod * q)) % IdxMod = (r + k) % IdxMod
  <2>1. PICK c : c = r + k
    BY Zenon
  <2>2. c \in Int /\ q \in Int
    BY <1>2, <2>1
  <2>3. (c + (IdxMod * q)) % IdxMod = c % IdxMod
    BY <1>0, <2>2, ModShift, Zenon
  <2> QED
    BY <2>1, <2>3, Zenon
<1>4. (r + k) + (IdxMod * q) = i + k
  <2>1. PICK p \in Int : p = IdxMod * q
    BY <1>0, <1>2
  <2> QED
    BY <1>2, <2>1
<1> QED
  BY <1>1, <1>3, <1>4, Zenon

\* The slot of a wrapping index is that of the index that does not wrap.
LEMMA IndexSlot ==
  ASSUME Regular, NEW i \in Nat
  PROVE  Slot(i % IdxMod) = i % Entries /\ i % Entries \in 0 .. Entries - 1
         /\ i % IdxMod \in 0 .. IdxMod - 1
<1>0. IdxMod \in Nat \ {0} /\ Entries \in Nat \ {0} /\ IdxMod % Entries = 0
  BY RingFacts, Zenon DEF Regular
<1>1. PICK q, r, e : q = i \div IdxMod /\ r = i % IdxMod /\ e = IdxMod \div Entries
  BY Zenon
<1>2. q \in Int /\ r \in 0..(IdxMod - 1) /\ i = (IdxMod * q) + r
  BY <1>0, <1>1, DivMod
<1>3. e \in Int /\ IdxMod = Entries * e
  <2>1. e \in Int /\ IdxMod = (Entries * e) + (IdxMod % Entries)
    BY <1>0, <1>1, DivMod
  <2> QED
    BY <1>0, <2>1
<1>4. PICK p \in Int : p = e * q
  BY <1>2, <1>3
<1>5. IdxMod * q = Entries * p
  <2>1. (Entries * e) * q = Entries * (e * q)
    BY <1>0, <1>2, <1>3
  <2> QED
    BY <1>3, <1>4, <2>1, Zenon
<1>6. (r + (Entries * p)) % Entries = r % Entries
  <2>1. r \in Int /\ Entries \in Nat \ {0}
    BY <1>0, <1>2
  <2> QED
    BY <2>1, ModShift, Zenon
<1>7. r + (Entries * p) = i
  <2>1. PICK z \in Int : z = Entries * p
    BY <1>0
  <2>2. r \in Int /\ i = z + r
    BY <1>2, <1>5, <2>1
  <2> QED
    BY <2>1, <2>2
<1>8. i % Entries \in 0 .. Entries - 1
  BY <1>0, DivMod
<1> QED
  BY <1>1, <1>2, <1>6, <1>7, <1>8, Zenon DEF Slot

\* The distance of two wrapping indices is that of the indices.
LEMMA IndexDistance ==
  ASSUME NEW a \in Nat, NEW b \in Nat, a =< b, b < a + IdxMod
  PROVE  Distance(a % IdxMod, b % IdxMod) = b - a
<1>0. IdxMod \in Nat \ {0}
  BY RingFacts
<1>1. PICK q, r, p, s : q = a \div IdxMod /\ r = a % IdxMod /\ p = b \div IdxMod /\ s = b % IdxMod
  BY Zenon
<1>2. q \in Int /\ r \in 0..(IdxMod - 1) /\ a = (IdxMod * q) + r
  BY <1>0, <1>1, DivMod
<1>3. p \in Int /\ s \in 0..(IdxMod - 1) /\ b = (IdxMod * p) + s
  BY <1>0, <1>1, DivMod
<1>4. PICK k \in Int : k = q - p + 1
  BY <1>2, <1>3
<1>5. ((b - a) + (IdxMod * k)) % IdxMod = (b - a) % IdxMod
  <2>1. b - a \in Int
    OBVIOUS
  <2> QED
    BY <1>0, <2>1, ModShift, Zenon
<1>6. (b - a) + (IdxMod * k) = s - r + IdxMod
  <2>1. IdxMod * (q - p + 1) = (IdxMod * q) - (IdxMod * p) + IdxMod
    BY <1>0, <1>2, <1>3
  <2>2. PICK x \in Int, y \in Int : x = IdxMod * q /\ y = IdxMod * p
    BY <1>0, <1>2, <1>3
  <2>3. IdxMod * k = x - y + IdxMod
    BY <1>4, <2>1, <2>2, Zenon
  <2> QED
    BY <1>0, <1>2, <1>3, <2>2, <2>3
<1>7. (b - a) % IdxMod = b - a
  <2>1. b - a \in 0 .. (IdxMod - 1)
    BY <1>0
  <2> QED
    BY <1>0, <2>1, ModSmall, Zenon
<1> QED
  BY <1>1, <1>5, <1>6, <1>7, Zenon DEF Distance

-----------------------------------------------------------------------------
\* No entry twice.
Once(s) == \A j, k \in DOMAIN s : s[j] = s[k] => j = k

\* The entries of del are entries of order, and come in the same order.
InOrder(del, order) ==
  /\ \A k \in DOMAIN del : \E a \in DOMAIN order : order[a] = del[k]
  /\ \A j, k \in DOMAIN del : \A a, b \in DOMAIN order :
       j < k /\ order[a] = del[j] /\ order[b] = del[k] => a < b

\* A new entry run.
LEMMA RunMore ==
  ASSUME NEW s \in Seq(Nat), Once(s), NEW x \in Nat, \A k \in DOMAIN s : s[k] # x,
         NEW del \in Seq(Nat), InOrder(del, s), NEW t, t = Append(s, x)
  PROVE  t \in Seq(Nat) /\ Once(t) /\ InOrder(del, t)
<1>1. /\ t \in Seq(Nat) /\ Len(t) = Len(s) + 1 /\ Len(s) \in Nat
      /\ \A k \in 1 .. Len(s) : t[k] = s[k]
      /\ t[Len(s) + 1] = x
  BY AppendProperties, LenProperties
<1>2. DOMAIN s = 1 .. Len(s) /\ DOMAIN t = 1 .. Len(s) + 1
  BY <1>1, LenProperties, Zenon
<1>3. Once(t)
  BY <1>1, <1>2 DEF Once
<1>4. \A k \in DOMAIN del : \E a \in DOMAIN t : t[a] = del[k]
  BY <1>1, <1>2 DEF InOrder
<1>5. ASSUME NEW k \in DOMAIN del, NEW a \in DOMAIN t, t[a] = del[k]
      PROVE  a \in DOMAIN s /\ s[a] = del[k]
  <2>1. PICK b \in DOMAIN s : s[b] = del[k]
    BY Zenon DEF InOrder
  <2>2. a # Len(s) + 1
    BY <1>1, <1>5, <2>1, Zenon
  <2> QED
    BY <1>1, <1>2, <1>5, <2>2
<1>6. ASSUME NEW j \in DOMAIN del, NEW k \in DOMAIN del, NEW a \in DOMAIN t, NEW b \in DOMAIN t,
             j < k, t[a] = del[j], t[b] = del[k]
      PROVE  a < b
  <2>1. a \in DOMAIN s /\ s[a] = del[j] /\ b \in DOMAIN s /\ s[b] = del[k]
    BY <1>5, <1>6, Zenon
  <2> QED
    BY <1>6, <2>1, Zenon DEF InOrder
<1>7. InOrder(del, t)
  BY <1>4, <1>6, Zenon DEF InOrder
<1> QED
  BY <1>1, <1>3, <1>7, Zenon

\* And answered.
LEMMA AnswerMore ==
  ASSUME NEW s \in Seq(Nat), Once(s), NEW x \in Nat, \A k \in DOMAIN s : s[k] # x,
         NEW del \in Seq(Nat), InOrder(del, s), NEW t, t = Append(s, x),
         NEW del2, del2 = Append(del, x)
  PROVE  InOrder(del2, t)
<1>1. InOrder(del, t) /\ Once(t)
  BY RunMore, Zenon
<1>2. /\ Len(t) = Len(s) + 1 /\ Len(s) \in Nat /\ t[Len(s) + 1] = x /\ t \in Seq(Nat)
      /\ \A k \in 1 .. Len(s) : t[k] = s[k]
  BY AppendProperties, LenProperties
<1>3. /\ Len(del2) = Len(del) + 1 /\ Len(del) \in Nat /\ del2[Len(del) + 1] = x /\ del2 \in Seq(Nat)
      /\ \A k \in 1 .. Len(del) : del2[k] = del[k]
  BY AppendProperties, LenProperties
<1>4. DOMAIN s = 1 .. Len(s) /\ DOMAIN t = 1 .. Len(s) + 1
      /\ DOMAIN del = 1 .. Len(del) /\ DOMAIN del2 = 1 .. Len(del) + 1
  BY <1>2, <1>3, LenProperties, Zenon
<1>5. \A k \in DOMAIN del2 : \E a \in DOMAIN t : t[a] = del2[k]
  <2> TAKE k \in DOMAIN del2
  <2>1. CASE k = Len(del) + 1
    <3>1. Len(s) + 1 \in DOMAIN t
      BY <1>2, <1>4
    <3> QED
      BY <1>2, <1>3, <2>1, <3>1, Zenon
  <2>2. CASE k # Len(del) + 1
    <3>1. k \in DOMAIN del /\ del2[k] = del[k]
      BY <1>3, <1>4, <2>2
    <3> QED
      BY <1>1, <3>1, Zenon DEF InOrder
  <2> QED
    BY <2>1, <2>2, Zenon
<1>6. \A j, k \in DOMAIN del2 : \A a, b \in DOMAIN t :
        j < k /\ t[a] = del2[j] /\ t[b] = del2[k] => a < b
  <2> SUFFICES ASSUME NEW j \in DOMAIN del2, NEW k \in DOMAIN del2,
                      NEW a \in DOMAIN t, NEW b \in DOMAIN t,
                      j < k, t[a] = del2[j], t[b] = del2[k]
               PROVE  a < b
    BY Zenon
  <2>1. j \in DOMAIN del /\ del2[j] = del[j]
    BY <1>3, <1>4
  <2>2. CASE k \in DOMAIN del
    <3>1. del2[k] = del[k]
      BY <1>3, <1>4, <2>2, Zenon
    <3>2. t[a] = del[j] /\ t[b] = del[k]
      BY <2>1, <3>1, Zenon
    <3> QED
      BY <1>1, <2>1, <2>2, <3>2, Zenon DEF InOrder
  <2>3. CASE k = Len(del) + 1
    <3>1. t[b] = x
      BY <1>3, <2>3, Zenon
    <3>2. b = Len(s) + 1
      BY <1>2, <1>4, <3>1
    <3>3. PICK c \in DOMAIN s : s[c] = del[j]
      BY <2>1, Zenon DEF InOrder
    <3>4. t[a] # x
      BY <2>1, <3>3, Zenon
    <3>5. a # Len(s) + 1
      BY <1>2, <3>4, Zenon
    <3> QED
      BY <1>2, <1>4, <3>2, <3>5
  <2> QED
    BY <1>3, <1>4, <2>2, <2>3
<1> QED
  BY <1>5, <1>6, Zenon DEF InOrder

\* The ring has its fields.
RingShape(r) ==
  r = [sq |-> r.sq, sq_head |-> r.sq_head, sq_tail |-> r.sq_tail,
       cq |-> r.cq, cq_head |-> r.cq_head, cq_tail |-> r.cq_tail,
       chain_result |-> r.chain_result, fixed_files |-> r.fixed_files,
       bufs |-> r.bufs, locked |-> r.locked]

\* The completion ring's indices are G and Q, counted without wrapping.
CqAt(r, G, Q) ==
  /\ G \in Nat /\ Q \in Nat /\ G =< Q /\ Q =< G + Entries
  /\ r.cq_head = G % IdxMod /\ r.cq_tail = Q % IdxMod
  /\ DOMAIN r.cq = 0 .. Entries - 1
  /\ \A i \in 0 .. Entries - 1 : r.cq[i].data \in Nat

\* The submission side is the same.
SameSq(r, e) ==
  e.sq = r.sq /\ e.sq_head = r.sq_head /\ e.sq_tail = r.sq_tail /\ e.locked = r.locked

\* The completions that wait, by the indices that do not wrap.
CqView(r, G, Q) ==
  /\ Distance(r.cq_head, r.cq_tail) = Q - G /\ Q - G \in Nat
  /\ Completions(r) \in Seq(Nat) /\ Len(Completions(r)) = Q - G
  /\ \A k \in 1 .. Q - G : Completions(r)[k] = r.cq[(G + (k - 1)) % Entries].data

\* So they are.
LEMMA CompletionsAre ==
  ASSUME Regular, NEW r, NEW G, NEW Q, CqAt(r, G, Q)
  PROVE  CqView(r, G, Q)
<1>0. Entries \in Nat \ {0} /\ IdxMod \in Nat /\ IdxMod > Entries
  BY RingFacts, Zenon
<1>1. /\ G \in Nat /\ Q \in Nat /\ G =< Q /\ Q =< G + Entries
      /\ r.cq_head = G % IdxMod /\ r.cq_tail = Q % IdxMod
      /\ \A i \in 0 .. Entries - 1 : r.cq[i].data \in Nat
  BY Zenon DEF CqAt
<1>2. Distance(r.cq_head, r.cq_tail) = Q - G /\ Q - G \in Nat
  <2>1. Q < G + IdxMod
    BY <1>0, <1>1
  <2>2. Distance(G % IdxMod, Q % IdxMod) = Q - G
    BY <1>1, <2>1, IndexDistance, Zenon
  <2> QED
    BY <1>1, <2>2
<1>3. ASSUME NEW k \in 1 .. Q - G
      PROVE  /\ Slot((r.cq_head + k - 1) % IdxMod) = (G + (k - 1)) % Entries
             /\ (G + (k - 1)) % Entries \in 0 .. Entries - 1
  <2>1. PICK h, m : h = G % IdxMod /\ m = k - 1
    BY Zenon
  <2>2. m \in Nat /\ G \in Nat /\ h \in Nat
    BY <1>1, <2>1, IndexSlot
  <2>3. (h + m) % IdxMod = (G + m) % IdxMod
    BY <2>1, <2>2, IndexPlus, Zenon
  <2>4. h + m \in Nat /\ G + m \in Nat
    BY <2>2
  <2>6. Slot((G + m) % IdxMod) = (G + m) % Entries /\ (G + m) % Entries \in 0 .. Entries - 1
    BY <2>4, IndexSlot, Zenon
  <2>7. r.cq_head + k - 1 = h + m
    BY <1>1, <2>1, <2>2, Zenon
  <2> QED
    BY <2>1, <2>3, <2>6, <2>7, Zenon
<1>4. PICK n \in Nat : n = Q - G
  BY <1>2, Zenon
<1>5. Completions(r) = [k \in 1 .. n |-> r.cq[Slot((r.cq_head + k - 1) % IdxMod)].data]
  BY <1>2, <1>4, Zenon DEF Completions
<1>6. \A k \in 1 .. n : Completions(r)[k] = r.cq[(G + (k - 1)) % Entries].data
  BY <1>3, <1>4, <1>5, Zenon
<1>7. \A k \in 1 .. n : Completions(r)[k] \in Nat
  BY <1>1, <1>3, <1>4, <1>6, Zenon
<1>8. Completions(r) \in [1 .. n -> Nat]
  BY <1>5, <1>7, Zenon
<1>9. Completions(r) \in Seq(Nat) /\ Len(Completions(r)) = n
  <2> HIDE DEF Completions
  <2>1. PICK c : c = Completions(r)
    BY Zenon
  <2>2. c \in [1 .. n -> Nat]
    BY <1>8, <2>1, Zenon
  <2>3. c \in Seq(Nat) /\ Len(c) = n
    BY <2>2
  <2> QED
    BY <2>1, <2>3, Zenon
<1> QED
  BY <1>2, <1>4, <1>6, <1>9, Zenon DEF CqView

\* What a completion pushed leaves alone, and where it goes.
Pushed(r, e, G, Q, data) ==
  /\ RingShape(e) /\ SameSq(r, e) /\ e.cq_head = r.cq_head
  /\ \/ CqAt(e, G, Q) /\ Completions(e) = Completions(r)
     \/ CqAt(e, G, Q + 1) /\ Completions(e) = Append(Completions(r), data)

\* A completion goes behind those that wait, or is dropped.
LEMMA PushCqe ==
  ASSUME Regular, NEW r, RingShape(r), NEW G, NEW Q, CqAt(r, G, Q), NEW data \in Nat, NEW result,
         NEW e, e = push_cqe(r, data, result)
  PROVE  Pushed(r, e, G, Q, data)
<1>0. Entries \in Nat \ {0} /\ IdxMod \in Nat /\ IdxMod > Entries
  BY RingFacts, Zenon
<1>1. /\ Distance(r.cq_head, r.cq_tail) = Q - G /\ Q - G \in Nat
      /\ Completions(r) \in Seq(Nat) /\ Len(Completions(r)) = Q - G
      /\ \A k \in 1 .. Q - G : Completions(r)[k] = r.cq[(G + (k - 1)) % Entries].data
  <2>1. CqView(r, G, Q)
    BY CompletionsAre, Zenon
  <2> QED
    BY <2>1, Zenon DEF CqView
<1>2. /\ G \in Nat /\ Q \in Nat /\ G =< Q /\ Q =< G + Entries
      /\ r.cq_head = G % IdxMod /\ r.cq_tail = Q % IdxMod
      /\ DOMAIN r.cq = 0 .. Entries - 1
      /\ \A i \in 0 .. Entries - 1 : r.cq[i].data \in Nat
  BY Zenon DEF CqAt
<1>3. CASE Q - G >= Entries
  <2>1. e = r
    BY <1>1, <1>3, Zenon DEF push_cqe
  <2> QED
    BY <2>1, Zenon DEF Pushed, SameSq
<1>4. CASE ~(Q - G >= Entries)
  <2>1. PICK slot, new, cq : /\ slot = Slot(r.cq_tail) /\ new = [data |-> data, result |-> result]
                             /\ cq = [r.cq EXCEPT ![slot] = new]
    BY Zenon
  <2>2. e = [r EXCEPT !.cq[slot] = new, !.cq_tail = Advance(@)]
    BY <1>1, <1>4, <2>1, Zenon DEF push_cqe
  <2>3. slot = Q % Entries /\ slot \in 0 .. Entries - 1
    BY <1>2, <2>1, IndexSlot, Zenon
  <2>4. Advance(r.cq_tail) = (Q + 1) % IdxMod
    <3>1. ((Q % IdxMod) + 1) % IdxMod = (Q + 1) % IdxMod
      BY <1>2, IndexPlus, Zenon
    <3> QED
      BY <1>2, <3>1, Zenon DEF Advance
  <2>5. e = [sq |-> r.sq, sq_head |-> r.sq_head, sq_tail |-> r.sq_tail,
             cq |-> cq, cq_head |-> r.cq_head, cq_tail |-> (Q + 1) % IdxMod,
             chain_result |-> r.chain_result, fixed_files |-> r.fixed_files,
             bufs |-> r.bufs, locked |-> r.locked]
    BY <2>1, <2>2, <2>4, Zenon DEF RingShape
  <2>6. RingShape(e) /\ SameSq(r, e) /\ e.cq_head = r.cq_head /\ e.cq_tail = (Q + 1) % IdxMod /\ e.cq = cq
    BY <2>5 DEF RingShape, SameSq
  <2>7. /\ DOMAIN cq = 0 .. Entries - 1 /\ cq[slot].data = data
        /\ \A i \in 0 .. Entries - 1 : i # slot => cq[i] = r.cq[i]
    BY <1>2, <2>1, <2>3, Zenon
  <2>8. CqAt(e, G, Q + 1)
    <3>1. Q + 1 \in Nat /\ G =< Q + 1 /\ Q + 1 =< G + Entries
      BY <1>0, <1>2, <1>4
    <3>2. \A i \in 0 .. Entries - 1 : cq[i].data \in Nat
      BY <1>2, <2>7, Zenon
    <3> QED
      BY <1>2, <2>6, <2>7, <3>1, <3>2, Zenon DEF CqAt
  <2>9. PICK n \in Nat : n = Q - G
    BY <1>1, Zenon
  <2>10. (Q + 1) - G = n + 1
    BY <1>2, <2>9
  <2>11. /\ Completions(e) \in Seq(Nat) /\ Len(Completions(e)) = n + 1
         /\ \A k \in 1 .. n + 1 : Completions(e)[k] = cq[(G + (k - 1)) % Entries].data
    <3>1. /\ Completions(e) \in Seq(Nat) /\ Len(Completions(e)) = (Q + 1) - G
          /\ \A k \in 1 .. (Q + 1) - G : Completions(e)[k] = e.cq[(G + (k - 1)) % Entries].data
      <4>1. CqView(e, G, Q + 1)
        BY <2>8, CompletionsAre, Zenon
      <4> QED
        BY <4>1, Zenon DEF CqView
    <3> QED
      BY <2>6, <2>10, <3>1, Zenon
  <2>12. PICK c, a : c = Completions(r) /\ a = Append(c, data)
    BY Zenon
  <2>13. /\ a \in Seq(Nat) /\ Len(a) = n + 1 /\ a[n + 1] = data
         /\ \A k \in 1 .. n : a[k] = r.cq[(G + (k - 1)) % Entries].data
    <3>1. c \in Seq(Nat) /\ Len(c) = n
      BY <1>1, <2>9, <2>12, Zenon
    <3>2. /\ a \in Seq(Nat) /\ Len(a) = Len(c) + 1 /\ a[Len(c) + 1] = data
          /\ \A k \in 1 .. Len(c) : a[k] = c[k]
      BY <2>12, <3>1, AppendProperties
    <3> QED
      BY <1>1, <2>9, <2>12, <3>1, <3>2, Zenon
  <2>14. ASSUME NEW k \in 1 .. n + 1 PROVE Completions(e)[k] = a[k]
    <3>1. CASE k = n + 1
      <4>1. G + (k - 1) = Q
        BY <1>2, <2>9, <3>1
      <4> QED
        BY <2>3, <2>7, <2>11, <2>13, <3>1, <4>1, Zenon
    <3>2. CASE k # n + 1
      <4>1. k \in 1 .. n
        BY <3>2
      <4>2. PICK i : i = G + (k - 1)
        BY Zenon
      <4>3. i \in Nat /\ i < Q /\ Q - i < Entries
        BY <1>0, <1>2, <1>4, <2>9, <4>1, <4>2
      <4>4. i % Entries # Q % Entries
        <5>1. i \in Int /\ Q \in Int /\ Entries \in Nat \ {0}
          BY <1>0, <1>2, <4>3
        <5> QED
          BY <4>3, <5>1, ModApart, Zenon
      <4>5. i % Entries \in 0 .. Entries - 1
        BY <4>3, IndexSlot, Zenon
      <4>6. cq[i % Entries] = r.cq[i % Entries]
        BY <2>3, <2>7, <4>4, <4>5, Zenon
      <4>7. Completions(e)[k] = cq[i % Entries].data /\ a[k] = r.cq[i % Entries].data
        BY <2>11, <2>13, <4>1, <4>2, Zenon
      <4> QED
        BY <4>6, <4>7, Zenon
    <3> QED
      BY <3>1, <3>2, Zenon
  <2>15. Completions(e) = a
    BY <2>11, <2>13, <2>14, SeqEqual, Zenon
  <2> QED
    BY <2>6, <2>8, <2>12, <2>15, Zenon DEF Pushed
<1> QED
  BY <1>3, <1>4, Zenon

\* The head moved on by one: the first of those that wait is gone.
LEMMA PopCqe ==
  ASSUME Regular, NEW r, RingShape(r), NEW G, NEW Q, CqAt(r, G, Q), G < Q,
         NEW e, e = [r EXCEPT !.cq_head = Advance(@)]
  PROVE  RingShape(e) /\ SameSq(r, e) /\ CqAt(e, G + 1, Q) /\ Completions(e) = Tail(Completions(r))
<1>0. Entries \in Nat \ {0} /\ IdxMod \in Nat /\ IdxMod > Entries
  BY RingFacts, Zenon
<1>1. /\ Completions(r) \in Seq(Nat) /\ Len(Completions(r)) = Q - G
      /\ \A k \in 1 .. Q - G : Completions(r)[k] = r.cq[(G + (k - 1)) % Entries].data
  <2>1. CqView(r, G, Q)
    BY CompletionsAre, Zenon
  <2> QED
    BY <2>1, Zenon DEF CqView
<1>2. /\ G \in Nat /\ Q \in Nat /\ G =< Q /\ Q =< G + Entries
      /\ r.cq_head = G % IdxMod /\ r.cq_tail = Q % IdxMod
      /\ DOMAIN r.cq = 0 .. Entries - 1
      /\ \A i \in 0 .. Entries - 1 : r.cq[i].data \in Nat
  BY Zenon DEF CqAt
<1>3. Advance(r.cq_head) = (G + 1) % IdxMod
  <2>1. ((G % IdxMod) + 1) % IdxMod = (G + 1) % IdxMod
    BY <1>2, IndexPlus, Zenon
  <2> QED
    BY <1>2, <2>1, Zenon DEF Advance
<1>4. e = [sq |-> r.sq, sq_head |-> r.sq_head, sq_tail |-> r.sq_tail,
           cq |-> r.cq, cq_head |-> (G + 1) % IdxMod, cq_tail |-> r.cq_tail,
           chain_result |-> r.chain_result, fixed_files |-> r.fixed_files,
           bufs |-> r.bufs, locked |-> r.locked]
  BY <1>3, Zenon DEF RingShape
<1>5. RingShape(e) /\ SameSq(r, e) /\ e.cq_head = (G + 1) % IdxMod /\ e.cq_tail = r.cq_tail /\ e.cq = r.cq
  BY <1>4 DEF RingShape, SameSq
<1>6. CqAt(e, G + 1, Q)
  <2>1. G + 1 \in Nat /\ G + 1 =< Q /\ Q =< (G + 1) + Entries
    BY <1>0, <1>2
  <2> QED
    BY <1>2, <1>5, <2>1, Zenon DEF CqAt
<1>7. PICK n \in Nat : n = Q - (G + 1) /\ Q - G = n + 1
  BY <1>2
<1>8. /\ Completions(e) \in Seq(Nat) /\ Len(Completions(e)) = n
      /\ \A k \in 1 .. n : Completions(e)[k] = r.cq[((G + 1) + (k - 1)) % Entries].data
  <2>1. /\ Completions(e) \in Seq(Nat) /\ Len(Completions(e)) = Q - (G + 1)
        /\ \A k \in 1 .. Q - (G + 1) : Completions(e)[k] = e.cq[((G + 1) + (k - 1)) % Entries].data
    <3>1. PICK g : g = G + 1
      BY Zenon
    <3>2. CqAt(e, g, Q)
      BY <1>6, <3>1, Zenon
    <3>3. /\ Completions(e) \in Seq(Nat) /\ Len(Completions(e)) = Q - g
          /\ \A k \in 1 .. Q - g : Completions(e)[k] = e.cq[(g + (k - 1)) % Entries].data
      <4>1. CqView(e, g, Q)
        BY <3>2, CompletionsAre, Zenon
      <4> QED
        BY <4>1, Zenon DEF CqView
    <3> QED
      BY <3>1, <3>3, Zenon
  <2> QED
    BY <1>5, <1>7, <2>1, Zenon
<1>9. PICK c, t : c = Completions(r) /\ t = Tail(c)
  BY Zenon
<1>10. c \in Seq(Nat) /\ Len(c) = n + 1 /\ c # <<>>
  BY <1>1, <1>7, <1>9
<1>11. t \in Seq(Nat) /\ Len(t) = n /\ \A k \in 1 .. n : t[k] = c[k + 1]
  <2>1. t \in Seq(Nat) /\ Len(t) = Len(c) - 1 /\ \A k \in 1 .. Len(t) : t[k] = c[k + 1]
    BY <1>9, <1>10, HeadTailProperties, Zenon
  <2> QED
    BY <1>10, <2>1
<1>12. ASSUME NEW k \in 1 .. n PROVE Completions(e)[k] = t[k]
  <2>1. k + 1 \in 1 .. Q - G /\ G + ((k + 1) - 1) = (G + 1) + (k - 1)
    BY <1>2, <1>7
  <2>2. c[k + 1] = r.cq[(G + ((k + 1) - 1)) % Entries].data
    BY <1>1, <1>9, <2>1, Zenon
  <2> QED
    BY <1>8, <1>11, <2>1, <2>2, Zenon
<1>13. Completions(e) = t
  BY <1>8, <1>11, <1>12, SeqEqual, Zenon
<1> QED
  BY <1>5, <1>6, <1>9, <1>13, Zenon

\* What the program has popped or can still pop, of a ring r.
Deliv(r, pc, ans) ==
  ans \o (IF pc = "popping" THEN Tail(Completions(r)) ELSE Completions(r))

\* The user_data of the request at an index.
Dat(r, i) == r.sq[Slot(i)].data

\* The completion ring has an entry for a pop that is under way.
CqRoom(r, pc, G, Q) == CqAt(r, G, Q) /\ (pc = "popping" => G < Q)

\* The state of a batch: each request ran once, and the completions are in the
\* order the requests ran in.
Sound(st, pc, ans) ==
  /\ st = [fs |-> st.fs, ring |-> st.ring, ran |-> st.ran, rest |-> st.rest]
  /\ RingShape(st.ring)
  /\ \E G, Q : CqRoom(st.ring, pc, G, Q)
  /\ st.ran \in Seq(Nat) /\ Once(st.ran)
  /\ ans \in Seq(Nat) /\ InOrder(Deliv(st.ring, pc, ans), st.ran)

\* Append under Tail and under concatenation.
LEMMA TailAppend ==
  ASSUME NEW w \in Seq(Nat), w # <<>>, NEW x \in Nat
  PROVE  Tail(w) \in Seq(Nat) /\ Tail(Append(w, x)) = Append(Tail(w), x)
<1>1. PICK t, a, b, c : t = Tail(w) /\ a = Append(w, x) /\ b = Tail(a) /\ c = Append(t, x)
  BY Zenon
<1>2. Len(w) \in Nat \ {0}
  BY EmptySeq, LenProperties, Zenon
<1>3. t \in Seq(Nat) /\ Len(t) = Len(w) - 1 /\ \A k \in 1 .. Len(t) : t[k] = w[k + 1]
  BY <1>1, HeadTailProperties, Zenon
<1>4. a \in Seq(Nat) /\ Len(a) = Len(w) + 1 /\ a[Len(w) + 1] = x /\ \A k \in 1 .. Len(w) : a[k] = w[k]
  BY <1>1, AppendProperties
<1>5. a # <<>>
  BY <1>2, <1>4
<1>6. b \in Seq(Nat) /\ Len(b) = Len(a) - 1 /\ \A k \in 1 .. Len(b) : b[k] = a[k + 1]
  BY <1>1, <1>4, <1>5, HeadTailProperties, Zenon
<1>7. c \in Seq(Nat) /\ Len(c) = Len(t) + 1 /\ c[Len(t) + 1] = x /\ \A k \in 1 .. Len(t) : c[k] = t[k]
  BY <1>1, <1>3, AppendProperties
<1>8. PICK n : n = Len(w)
  BY Zenon
<1>9. Len(b) = n /\ Len(c) = n /\ Len(t) = n - 1 /\ n \in Nat \ {0} /\ Len(a) = n + 1
  BY <1>2, <1>3, <1>4, <1>6, <1>7, <1>8
<1>10. ASSUME NEW k \in 1 .. n PROVE b[k] = c[k]
  <2>1. CASE k = n
    BY <1>4, <1>6, <1>7, <1>8, <1>9, <2>1, Zenon
  <2>2. CASE k # n
    <3>1. k \in 1 .. Len(t) /\ k \in 1 .. Len(b) /\ k + 1 \in 1 .. Len(w)
      BY <1>8, <1>9, <2>2
    <3> QED
      BY <1>3, <1>4, <1>6, <1>7, <3>1, Zenon
  <2> QED
    BY <2>1, <2>2, Zenon
<1>11. b = c
  BY <1>6, <1>7, <1>9, <1>10, SeqEqual, Zenon
<1> QED
  BY <1>1, <1>3, <1>11, Zenon

\* Appending to the second of two sequences.
LEMMA ConcatAppend ==
  ASSUME NEW S, NEW a \in Seq(S), NEW w \in Seq(S), NEW x \in S
  PROVE  a \o Append(w, x) = Append(a \o w, x)
<1>1. PICK one : one = <<x>>
  BY Zenon
<1>2. one \in Seq(S) /\ a \o w \in Seq(S)
  BY <1>1, ConcatProperties
<1>3. Append(w, x) = w \o one
  BY <1>1, AppendIsConcat, Zenon
<1>4. Append(a \o w, x) = (a \o w) \o one
  BY <1>1, <1>2, AppendIsConcat, Zenon
<1>5. \A u \in Seq(S) : (a \o w) \o u = a \o (w \o u)
  BY ConcatAssociative
<1>6. (a \o w) \o one = a \o (w \o one)
  BY <1>2, <1>5, Zenon
<1> QED
  BY <1>3, <1>4, <1>6, Zenon

\* What is delivered is a sequence of user_data.
LEMMA DelivType ==
  ASSUME Regular, NEW r, NEW pc, NEW G, NEW Q, CqRoom(r, pc, G, Q), NEW ans \in Seq(Nat)
  PROVE  /\ Deliv(r, pc, ans) \in Seq(Nat) /\ Completions(r) \in Seq(Nat)
         /\ pc = "popping" => Completions(r) # <<>>
<1>0. CqAt(r, G, Q) /\ (pc = "popping" => G < Q)
  BY Zenon DEF CqRoom
<1>1. Completions(r) \in Seq(Nat) /\ Len(Completions(r)) = Q - G
  <2>1. CqView(r, G, Q)
    BY <1>0, CompletionsAre, Zenon
  <2> QED
    BY <2>1, Zenon DEF CqView
<1>2. G \in Nat /\ Q \in Nat
  BY <1>0, Zenon DEF CqAt
<1>3. pc = "popping" => Completions(r) # <<>>
  BY <1>0, <1>1, <1>2
<1>4. pc = "popping" => Tail(Completions(r)) \in Seq(Nat)
  BY <1>1, <1>3, HeadTailProperties, Zenon
<1>5. PICK w : w = IF pc = "popping" THEN Tail(Completions(r)) ELSE Completions(r)
  BY Zenon
<1>6. w \in Seq(Nat)
  BY <1>1, <1>4, <1>5, Zenon
<1>7. ans \o w \in Seq(Nat)
  BY <1>6, ConcatProperties, Zenon
<1> QED
  BY <1>1, <1>3, <1>5, <1>7, Zenon DEF Deliv

\* A completion pushed is delivered last, or dropped.
LEMMA DelivPush ==
  ASSUME Regular, NEW r, NEW e, NEW pc, NEW G, NEW Q, NEW data \in Nat,
         CqRoom(r, pc, G, Q), Pushed(r, e, G, Q, data), NEW ans \in Seq(Nat)
  PROVE  /\ Deliv(e, pc, ans) = Deliv(r, pc, ans) \/ Deliv(e, pc, ans) = Append(Deliv(r, pc, ans), data)
         /\ \E G2, Q2 : CqRoom(e, pc, G2, Q2)
<1>1. PICK w : w = Completions(r)
  BY Zenon
<1>2. w \in Seq(Nat) /\ (pc = "popping" => w # <<>>)
  <2>1. Completions(r) \in Seq(Nat) /\ (pc = "popping" => Completions(r) # <<>>)
    BY DelivType, Zenon
  <2> QED
    BY <1>1, <2>1, Zenon
<1>3. CASE CqAt(e, G, Q) /\ Completions(e) = Completions(r)
  BY <1>3, Zenon DEF Deliv, CqRoom
<1>4. CASE CqAt(e, G, Q + 1) /\ Completions(e) = Append(Completions(r), data)
  <2>1. CASE pc = "popping"
    <3>1. Tail(Append(w, data)) = Append(Tail(w), data) /\ Tail(w) \in Seq(Nat)
      BY <1>2, <2>1, TailAppend, Zenon
    <3>2. ans \o Append(Tail(w), data) = Append(ans \o Tail(w), data)
      BY <3>1, ConcatAppend
    <3>3. Deliv(e, pc, ans) = Append(Deliv(r, pc, ans), data)
      BY <1>1, <1>4, <2>1, <3>1, <3>2, Zenon DEF Deliv
    <3>4. G < Q + 1
      BY <2>1 DEF CqAt, CqRoom
    <3> QED
      BY <1>4, <3>3, <3>4, Zenon DEF CqRoom
  <2>2. CASE pc # "popping"
    <3>1. ans \o Append(w, data) = Append(ans \o w, data)
      BY <1>2, ConcatAppend
    <3>2. Deliv(e, pc, ans) = Append(Deliv(r, pc, ans), data)
      BY <1>1, <1>4, <2>2, <3>1, Zenon DEF Deliv
    <3> QED
      BY <1>4, <2>2, <3>2, Zenon DEF CqRoom
  <2> QED
    BY <2>1, <2>2, Zenon
<1> QED
  BY <1>3, <1>4, Zenon DEF Pushed

\* A request answered: it ran, and the submission side is the same.
Answered(st, e, i, pc, ans) ==
  /\ Sound(e, pc, ans) /\ e.ran = Append(st.ran, Dat(st.ring, i))
  /\ SameSq(st.ring, e.ring) /\ e.rest = st.rest

\* The result of chained requests is no part of either queue.
LEMMA ChainKept ==
  ASSUME NEW r, RingShape(r), NEW c, NEW e, e = [r EXCEPT !.chain_result = c]
  PROVE  /\ RingShape(e) /\ SameSq(r, e) /\ Completions(e) = Completions(r)
         /\ \A G, Q : CqAt(r, G, Q) => CqAt(e, G, Q)
<1>1. e = [sq |-> r.sq, sq_head |-> r.sq_head, sq_tail |-> r.sq_tail,
           cq |-> r.cq, cq_head |-> r.cq_head, cq_tail |-> r.cq_tail,
           chain_result |-> c, fixed_files |-> r.fixed_files,
           bufs |-> r.bufs, locked |-> r.locked]
  BY Zenon DEF RingShape
<1>2. RingShape(e) /\ SameSq(r, e)
  BY <1>1, Zenon DEF RingShape, SameSq
<1>3. e.cq = r.cq /\ e.cq_head = r.cq_head /\ e.cq_tail = r.cq_tail
  BY <1>1, Zenon
<1>4. Completions(e) = Completions(r)
  BY <1>3 DEF Completions
<1>5. \A G, Q : CqAt(r, G, Q) => CqAt(e, G, Q)
  BY <1>3, Zenon DEF CqAt
<1> QED
  BY <1>2, <1>4, <1>5, Zenon

\* What submit_sqes does with a result.
LEMMA AnswerSound ==
  ASSUME Regular, NEW st, NEW pc, NEW ans, Sound(st, pc, ans), NEW i, Dat(st.ring, i) \in Nat,
         \A k \in DOMAIN st.ran : st.ran[k] # Dat(st.ring, i),
         NEW ret, NEW e, e = Answer(st, i, ret)
  PROVE  Answered(st, e, i, pc, ans)
<1>1. /\ st = [fs |-> st.fs, ring |-> st.ring, ran |-> st.ran, rest |-> st.rest]
      /\ RingShape(st.ring) /\ st.ran \in Seq(Nat) /\ Once(st.ran) /\ ans \in Seq(Nat)
      /\ InOrder(Deliv(st.ring, pc, ans), st.ran)
  BY Zenon DEF Sound
<1>2. PICK G, Q : CqRoom(st.ring, pc, G, Q)
  BY Zenon DEF Sound
<1>3. PICK r, x, s, t, del : /\ r = st.ring /\ x = Dat(st.ring, i) /\ s = st.ran /\ t = Append(s, x)
                             /\ del = Deliv(st.ring, pc, ans)
  BY Zenon
<1>4. /\ x \in Nat /\ RingShape(r) /\ CqAt(r, G, Q) /\ s \in Seq(Nat) /\ Once(s) /\ InOrder(del, s)
      /\ \A k \in DOMAIN s : s[k] # x
  BY <1>1, <1>2, <1>3, Zenon DEF CqRoom
<1>5. del \in Seq(Nat)
  <2>1. Deliv(st.ring, pc, ans) \in Seq(Nat)
    BY <1>1, <1>2, DelivType, Zenon
  <2> QED
    BY <1>3, <2>1, Zenon
<1>6. t \in Seq(Nat) /\ Once(t) /\ InOrder(del, t)
  BY <1>3, <1>4, <1>5, RunMore, Zenon
<1>7. InOrder(Append(del, x), t)
  BY <1>3, <1>4, <1>5, AnswerMore, Zenon
<1>8. PICK sqe, c, kept, new : /\ sqe = r.sq[Slot(i)] /\ c = (IF sqe.request.chain THEN ret ELSE 0)
                               /\ kept = [r EXCEPT !.chain_result = c]
                               /\ new = (IF sqe.request.chain THEN kept ELSE push_cqe(kept, x, ret))
  BY Zenon
<1>9. e = [fs |-> st.fs, ring |-> new, ran |-> t, rest |-> st.rest]
  <2>1. sqe.data = x
    BY <1>3, <1>8, Zenon DEF Dat
  <2>2. e = [st EXCEPT !.ran = Append(@, sqe.data),
                       !.ring = IF sqe.request.chain THEN [@ EXCEPT !.chain_result = ret]
                                ELSE push_cqe([@ EXCEPT !.chain_result = 0], sqe.data, ret)]
    BY <1>3, <1>8, Zenon DEF Answer
  <2>3. CASE sqe.request.chain
    BY <1>1, <1>3, <1>8, <2>1, <2>2, <2>3, Zenon
  <2>4. CASE ~sqe.request.chain
    BY <1>1, <1>3, <1>8, <2>1, <2>2, <2>4, Zenon
  <2> QED
    BY <2>3, <2>4, Zenon
<1>10. RingShape(kept) /\ SameSq(r, kept) /\ Completions(kept) = Completions(r) /\ CqAt(kept, G, Q)
  BY <1>4, <1>8, ChainKept, Zenon
<1>10a. CqRoom(kept, pc, G, Q)
  BY <1>2, <1>10, Zenon DEF CqRoom
<1>11. Deliv(kept, pc, ans) = del
  BY <1>3, <1>10, Zenon DEF Deliv
<1>12. /\ RingShape(new) /\ SameSq(r, new)
       /\ Deliv(new, pc, ans) = del \/ Deliv(new, pc, ans) = Append(del, x)
       /\ \E G2, Q2 : CqRoom(new, pc, G2, Q2)
  <2>1. CASE sqe.request.chain
    <3>1. new = kept
      BY <1>8, <2>1, Zenon
    <3> QED
      BY <1>10, <1>10a, <1>11, <3>1, Zenon
  <2>2. CASE ~sqe.request.chain
    <3>1. new = push_cqe(kept, x, ret)
      BY <1>8, <2>2, Zenon
    <3>2. Pushed(kept, new, G, Q, x)
      BY <1>4, <1>10, <3>1, PushCqe, Zenon
    <3>3. /\ Deliv(new, pc, ans) = Deliv(kept, pc, ans) \/ Deliv(new, pc, ans) = Append(Deliv(kept, pc, ans), x)
          /\ \E G2, Q2 : CqRoom(new, pc, G2, Q2)
      BY <1>1, <1>4, <1>10a, <3>2, DelivPush, Zenon
    <3>4. RingShape(new) /\ SameSq(kept, new)
      BY <3>2, Zenon DEF Pushed
    <3> QED
      BY <1>10, <1>11, <3>3, <3>4, Zenon DEF SameSq
  <2> QED
    BY <2>1, <2>2, Zenon
<1>13. InOrder(Deliv(new, pc, ans), t)
  BY <1>6, <1>7, <1>12, Zenon
<1>14. e.fs = st.fs /\ e.ring = new /\ e.ran = t /\ e.rest = st.rest
  BY <1>9
<1>15. Sound(e, pc, ans)
  BY <1>1, <1>6, <1>9, <1>12, <1>13, <1>14, Zenon DEF Sound
<1> QED
  BY <1>3, <1>12, <1>14, <1>15, Zenon DEF Answered

\* The requests of order are different ones, and none of them has run.
Fresh(st, order) ==
  /\ \A j \in 1 .. Len(order) :
       /\ Dat(st.ring, order[j]) \in Nat
       /\ \A b \in DOMAIN st.ran : st.ran[b] # Dat(st.ring, order[j])
  /\ \A i, j \in 1 .. Len(order) : Dat(st.ring, order[i]) = Dat(st.ring, order[j]) => i = j

\* A value that had run at the start or is one of the first m of order.
Known(start, order, m, x) ==
  \/ \E b \in DOMAIN start.ran : x = start.ran[b]
  \/ \E j \in 1 .. m : x = Dat(start.ring, order[j])

\* After k requests of order: the first of them have run, the others wait.
FoldAt(start, order, pc, ans, st, k) ==
  /\ Sound(st, pc, ans) /\ SameSq(start.ring, st.ring)
  /\ st.rest \in Seq(Nat) /\ Len(st.rest) =< k
  /\ \A j \in 1 .. Len(st.rest) : st.rest[j] = order[(k - Len(st.rest)) + j]
  /\ \A a \in DOMAIN st.ran : Known(start, order, k - Len(st.rest), st.ran[a])

\* The body of the loop keeps that.
LEMMA FoldStep ==
  ASSUME Regular, NEW start, NEW order \in Seq(Nat), NEW pc, NEW ans, Fresh(start, order),
         NEW k \in 0 .. Len(order) - 1, NEW st, FoldAt(start, order, pc, ans, st, k),
         NEW task, NEW e, e = RunOne(st, task, order[k + 1])
  PROVE  FoldAt(start, order, pc, ans, e, k + 1)
<1>0. Len(order) \in Nat /\ k \in Nat /\ k + 1 \in 1 .. Len(order)
  BY LenProperties
<1>1. PICK i, p, L, x : i = order[k + 1] /\ p = st.rest /\ L = Len(p) /\ x = Dat(start.ring, i)
  BY Zenon
<1>2. i \in Nat
  BY <1>0, <1>1, ElementOfSeq, Zenon
<1>3. /\ Sound(st, pc, ans) /\ SameSq(start.ring, st.ring)
      /\ p \in Seq(Nat) /\ L =< k /\ L \in Nat
      /\ \A j \in 1 .. L : p[j] = order[(k - L) + j]
      /\ \A a \in DOMAIN st.ran : Known(start, order, k - L, st.ran[a])
  BY <1>1, LenProperties, Zenon DEF FoldAt
<1>4. st = [fs |-> st.fs, ring |-> st.ring, ran |-> st.ran, rest |-> p]
  BY <1>1, <1>3, Zenon DEF Sound
<1>5. x = Dat(st.ring, i)
  BY <1>1, <1>3, Zenon DEF SameSq, Dat
<1>6. PICK request, done : request = st.ring.sq[Slot(i)].request /\ done = exec_sqe(st, task, request)
  BY Zenon
<1>7. e = IF p # <<>> \/ WaitsForKey(st, request)
          THEN [st EXCEPT !.rest = Append(@, i)]
          ELSE Answer([st EXCEPT !.fs = done.fs], i, done.ret)
  BY <1>1, <1>6, Zenon DEF RunOne
<1>8. CASE p # <<>> \/ WaitsForKey(st, request)
  <2>1. PICK q : q = Append(p, i)
    BY Zenon
  <2>2a. e = [st EXCEPT !.rest = Append(st.rest, i)]
    BY <1>7, <1>8, Zenon
  <2>2b. e = [st EXCEPT !.rest = q]
    BY <1>1, <2>1, <2>2a, Zenon
  <2>2. e = [fs |-> st.fs, ring |-> st.ring, ran |-> st.ran, rest |-> q]
    BY <1>4, <2>2b, Zenon
  <2>3. e.fs = st.fs /\ e.ring = st.ring /\ e.ran = st.ran /\ e.rest = q
    BY <2>2
  <2>4. q \in Seq(Nat) /\ Len(q) = L + 1 /\ q[L + 1] = i /\ \A j \in 1 .. L : q[j] = p[j]
    BY <1>1, <1>2, <1>3, <2>1, AppendProperties
  <2>5. Sound(e, pc, ans)
    BY <1>3, <2>2, <2>3, Zenon DEF Sound
  <2>6. (k + 1) - (L + 1) = k - L /\ L + 1 =< k + 1
    BY <1>0, <1>3
  <2>7. \A j \in 1 .. L + 1 : q[j] = order[(k - L) + j]
    <3> SUFFICES ASSUME NEW j \in 1 .. L + 1 PROVE q[j] = order[(k - L) + j]
      BY Zenon
    <3>1. CASE j = L + 1
      <4>1. (k - L) + j = k + 1
        BY <1>0, <1>3, <3>1
      <4> QED
        BY <1>1, <2>4, <3>1, <4>1, Zenon
    <3>2. CASE j # L + 1
      <4>1. j \in 1 .. L
        BY <1>3, <3>2
      <4> QED
        BY <1>3, <2>4, <4>1, Zenon
    <3> QED
      BY <3>1, <3>2, Zenon
  <2> QED
    BY <1>3, <2>3, <2>4, <2>5, <2>6, <2>7, Zenon DEF FoldAt
<1>9. CASE ~(p # <<>> \/ WaitsForKey(st, request))
  <2>1. PICK s0, ret : s0 = [st EXCEPT !.fs = done.fs] /\ ret = done.ret
    BY Zenon
  <2>2. s0 = [fs |-> done.fs, ring |-> st.ring, ran |-> st.ran, rest |-> p]
    BY <1>4, <2>1
  <2>3. s0.ring = st.ring /\ s0.ran = st.ran /\ s0.rest = p /\ s0.fs = done.fs
    BY <2>2, Zenon
  <2>4. Sound(s0, pc, ans)
    BY <1>3, <2>2, <2>3, Zenon DEF Sound
  <2>5. e = Answer(s0, i, ret)
    BY <1>7, <1>9, <2>1, Zenon
  <2>6. p = <<>> /\ L = 0
    BY <1>1, <1>9, Zenon
  <2>7. x \in Nat /\ \A b \in DOMAIN start.ran : start.ran[b] # x
    BY <1>0, <1>1, Zenon DEF Fresh
  <2>8. ASSUME NEW a \in DOMAIN st.ran PROVE st.ran[a] # x
    <3>1. Known(start, order, k, st.ran[a])
      BY <1>0, <1>3, <2>6
    <3>2. ASSUME NEW j \in 1 .. k PROVE Dat(start.ring, order[j]) # x
      <4>1. j \in 1 .. Len(order) /\ j # k + 1
        BY <1>0
      <4> QED
        BY <1>0, <1>1, <4>1, Zenon DEF Fresh
    <3> QED
      BY <2>7, <3>1, <3>2, Zenon DEF Known
  <2>9. Dat(s0.ring, i) = x
    BY <1>5, <2>3, Zenon
  <2>10. Dat(s0.ring, i) \in Nat /\ \A a \in DOMAIN s0.ran : s0.ran[a] # Dat(s0.ring, i)
    BY <2>3, <2>7, <2>8, <2>9, Zenon
  <2>11. Answered(s0, e, i, pc, ans)
    BY <2>4, <2>5, <2>10, AnswerSound, Zenon
  <2>12. Sound(e, pc, ans) /\ e.ran = Append(st.ran, x) /\ SameSq(st.ring, e.ring) /\ e.rest = <<>>
    BY <2>3, <2>6, <2>9, <2>11, Zenon DEF Answered
  <2>13. SameSq(start.ring, e.ring)
    BY <1>3, <2>12, Zenon DEF SameSq
  <2>14. PICK s, t : s = st.ran /\ t = e.ran
    BY Zenon
  <2>15. s \in Seq(Nat)
    BY <1>3, <2>14, Zenon DEF Sound
  <2>16. /\ t \in Seq(Nat) /\ Len(t) = Len(s) + 1 /\ t[Len(s) + 1] = x
         /\ \A a \in 1 .. Len(s) : t[a] = s[a]
    BY <2>7, <2>12, <2>14, <2>15, AppendProperties
  <2>17. DOMAIN t = 1 .. Len(s) + 1 /\ DOMAIN s = 1 .. Len(s) /\ Len(s) \in Nat
    BY <2>15, <2>16, LenProperties, Zenon
  <2>18. ASSUME NEW a \in DOMAIN t PROVE Known(start, order, k + 1, t[a])
    <3>1. CASE a = Len(s) + 1
      BY <1>0, <1>1, <2>16, <3>1 DEF Known
    <3>2. CASE a # Len(s) + 1
      <4>1. a \in DOMAIN s /\ t[a] = s[a]
        BY <2>16, <2>17, <3>2
      <4>2. Known(start, order, k, t[a])
        BY <1>0, <1>3, <2>6, <2>14, <4>1
      <4> QED
        BY <1>0, <4>2 DEF Known
    <3> QED
      BY <3>1, <3>2, Zenon
  <2>19. Len(e.rest) = 0 /\ e.rest \in Seq(Nat) /\ (k + 1) - 0 = k + 1 /\ 0 =< k + 1
    BY <1>0, <2>12
  <2> QED
    BY <2>12, <2>13, <2>14, <2>18, <2>19 DEF FoldAt
<1> QED
  BY <1>8, <1>9, Zenon

\* How a call ends.
Finish(task, end, tail) ==
  IF end.rest # <<>>
  THEN [end EXCEPT !.ring.locked = [task |-> task, rest |-> end.rest, tail |-> tail]]
  ELSE [end EXCEPT !.ring = Consumed([@ EXCEPT !.locked = NoTaskWaits], tail)]

\* The passes, request by request.
IsRun(task, start, order, u) ==
  u[0] = start /\ \A n \in 1 .. Len(order) : u[n] = RunOne(u[n - 1], task, order[n])

\* submit_sqes runs the requests of a call one after the other.
LEMMA RunUnfolds ==
  ASSUME NEW task, NEW start, NEW order \in Seq(Nat), NEW tail
  PROVE  \E u : /\ IsRun(task, start, order, u)
                /\ submit_sqes(task, start, order, tail) = Finish(task, u[Len(order)], tail)
<1> DEFINE N == Len(order)
           Equation(f) == f = [n \in 0..N |-> IF n = 0 THEN start ELSE RunOne(f[n - 1], task, order[n])]
           u == CHOOSE f : Equation(f)
<1>1. N \in Nat
  BY LenProperties, Zenon
<1>2. submit_sqes(task, start, order, tail) = Finish(task, u[N], tail)
  BY Zenon DEF submit_sqes, Finish
<1> HIDE DEF N
<1>3. \E f : Equation(f)
  <2> DEFINE Upto(m, f) == f[0] = start /\ \A n \in 1..m : f[n] = RunOne(f[n - 1], task, order[n])
             P == {m \in 0..N : \E f : f = [n \in 0..m |-> f[n]] /\ Upto(m, f)}
  <2>1. 0 \in P
    <3> DEFINE f0 == [n \in 0..0 |-> start]
    <3>1. f0 = [n \in 0..0 |-> f0[n]] /\ Upto(0, f0)
      OBVIOUS
    <3> HIDE DEF f0
    <3> QED
      BY <1>1, <3>1
  <2>2. ASSUME NEW m \in 1..N, m - 1 \in P PROVE m \in P
    <3>1. PICK g : g = [n \in 0..(m - 1) |-> g[n]] /\ Upto(m - 1, g)
      BY <2>2, Zenon
    <3> DEFINE h == [n \in 0..m |-> IF n = m THEN RunOne(g[m - 1], task, order[m]) ELSE g[n]]
    <3>2. h = [n \in 0..m |-> h[n]]
      BY Zenon
    <3>3. h[0] = start
      BY <3>1
    <3>4. ASSUME NEW n \in 1..m PROVE h[n] = RunOne(h[n - 1], task, order[n])
      <4>1. CASE n = m
        BY <4>1
      <4>2. CASE n # m
        <5>1. n \in 1..(m - 1) /\ h[n] = g[n] /\ h[n - 1] = g[n - 1]
          BY <4>2
        <5> QED
          BY <3>1, <5>1, Zenon
      <4> QED
        BY <4>1, <4>2, Zenon
    <3> HIDE DEF h
    <3>5. Upto(m, h)
      BY <3>3, <3>4, Zenon
    <3>6. \E f : f = [n \in 0..m |-> f[n]] /\ Upto(m, f)
      BY <3>2, <3>5, Zenon
    <3>7. m \in 0..N
      BY <1>1
    <3> HIDE DEF Upto
    <3> QED
      BY <3>6, <3>7, Zenon
  <2>3. \A n \in 0..N : n \in P
    <3> HIDE DEF P
    <3> QED
      BY <1>1, <2>1, <2>2, SetInduction, Zenon
  <2>4. N \in P
    BY <1>1, <2>3
  <2>5. PICK f : f = [n \in 0..N |-> f[n]] /\ Upto(N, f)
    BY <2>4, Zenon
  <2>6. [n \in 0..N |-> f[n]] = [n \in 0..N |-> IF n = 0 THEN start ELSE RunOne(f[n - 1], task, order[n])]
    BY <1>1, <2>5
  <2>7. Equation(f)
    BY <2>5, <2>6, Zenon
  <2> QED
    BY <2>7, Zenon
<1>4. Equation(u)
  BY <1>3, Zenon
<1> HIDE DEF u
<1>5. u[0] = start /\ \A n \in 1..N : u[n] = RunOne(u[n - 1], task, order[n])
  BY <1>1, <1>4
<1> QED
  BY <1>2, <1>5, Zenon DEF N, IsRun

\* What a call leaves: it is done, or it waits with the rest of its batch.
Ended(start, order, task, tail, pc, ans, e) ==
  /\ Sound(e, pc, ans)
  /\ e.ring.sq = start.ring.sq /\ e.ring.sq_tail = start.ring.sq_tail
  /\ \A a \in DOMAIN e.ran : Known(start, order, Len(order), e.ran[a])
  /\ \/ e.ring.locked = NoTaskWaits /\ e.ring.sq_head = tail
     \/ \E R \in Seq(Nat) :
          /\ R # <<>> /\ e.ring.locked = [task |-> task, rest |-> R, tail |-> tail]
          /\ e.ring.sq_head = start.ring.sq_head /\ Fresh(e, R)
          /\ \A j \in 1 .. Len(R) : \E k \in 1 .. Len(order) : R[j] = order[k]

\* Sound looks at the completion side only.
LEMMA SoundRing ==
  ASSUME NEW st, NEW pc, NEW ans, Sound(st, pc, ans), NEW r, RingShape(r),
         r.cq = st.ring.cq, r.cq_head = st.ring.cq_head, r.cq_tail = st.ring.cq_tail,
         NEW fs, NEW rest, NEW e, e = [fs |-> fs, ring |-> r, ran |-> st.ran, rest |-> rest]
  PROVE  Sound(e, pc, ans)
<1>1. e.fs = fs /\ e.ring = r /\ e.ran = st.ran /\ e.rest = rest
  BY Zenon
<1>2. Completions(r) = Completions(st.ring)
  BY Zenon DEF Completions
<1>3. Deliv(r, pc, ans) = Deliv(st.ring, pc, ans)
  BY <1>2, Zenon DEF Deliv
<1>4. \A G, Q : CqRoom(st.ring, pc, G, Q) => CqRoom(r, pc, G, Q)
  BY Zenon DEF CqRoom, CqAt
<1>5. \E G, Q : CqRoom(r, pc, G, Q)
  BY <1>4, Zenon DEF Sound
<1> QED
  BY <1>1, <1>3, <1>5, Zenon DEF Sound

\* The passes keep what FoldAt says.
LEMMA RunKeeps ==
  ASSUME Regular, NEW start, NEW order \in Seq(Nat), NEW pc, NEW ans, Fresh(start, order),
         Sound(start, pc, ans), start.rest = <<>>, NEW task,
         NEW u, IsRun(task, start, order, u)
  PROVE  FoldAt(start, order, pc, ans, u[Len(order)], Len(order))
<1> DEFINE N == Len(order)
           P == {m \in 0..N : FoldAt(start, order, pc, ans, u[m], m)}
<1>1. N \in Nat
  BY LenProperties, Zenon
<1>2. 0 \in P
  <2>1. u[0] = start
    BY Zenon DEF IsRun
  <2>2. start.rest \in Seq(Nat) /\ Len(start.rest) = 0
    OBVIOUS
  <2>3. SameSq(start.ring, start.ring)
    BY Zenon DEF SameSq
  <2>4. \A a \in DOMAIN start.ran : Known(start, order, 0, start.ran[a])
    BY Zenon DEF Known
  <2>5. FoldAt(start, order, pc, ans, start, 0)
    BY <2>2, <2>3, <2>4 DEF FoldAt
  <2> QED
    BY <1>1, <2>1, <2>5
<1>3. ASSUME NEW m \in 1..N, m - 1 \in P PROVE m \in P
  <2>1. PICK k, st, e : k = m - 1 /\ st = u[k] /\ e = u[m]
    BY Zenon
  <2>2. k \in 0 .. Len(order) - 1 /\ k + 1 = m
    BY <1>1, <2>1
  <2>3. FoldAt(start, order, pc, ans, st, k)
    BY <1>3, <2>1, Zenon
  <2>4. e = RunOne(st, task, order[k + 1])
    BY <2>1, <2>2, Zenon DEF IsRun
  <2>5. FoldAt(start, order, pc, ans, e, k + 1)
    BY <2>2, <2>3, <2>4, FoldStep, Zenon
  <2> QED
    BY <1>1, <2>1, <2>2, <2>5
<1>4. \A n \in 0..N : n \in P
  <2> HIDE DEF N, P
  <2> QED
    BY <1>1, <1>2, <1>3, SetInduction, Zenon
<1> QED
  BY <1>1, <1>4

\* What is left to run has not run.
LEMMA RestFresh ==
  ASSUME NEW start, NEW order \in Seq(Nat), NEW pc, NEW ans, Fresh(start, order),
         NEW end, FoldAt(start, order, pc, ans, end, Len(order))
  PROVE  /\ Fresh(end, end.rest)
         /\ \A j \in 1 .. Len(end.rest) : \E k \in 1 .. Len(order) : end.rest[j] = order[k]
         /\ \A a \in DOMAIN end.ran : Known(start, order, Len(order), end.ran[a])
<1>1. PICK N, p, L, m : N = Len(order) /\ p = end.rest /\ L = Len(p) /\ m = N - L
  BY Zenon
<1>2. /\ SameSq(start.ring, end.ring) /\ p \in Seq(Nat) /\ L =< N
      /\ \A j \in 1 .. L : p[j] = order[m + j]
      /\ \A a \in DOMAIN end.ran : Known(start, order, m, end.ran[a])
  BY <1>1, Zenon DEF FoldAt
<1>3. N \in Nat /\ L \in Nat /\ m \in Nat /\ m + L = N
  BY <1>1, <1>2, LenProperties
<1>4. \A i : Dat(end.ring, i) = Dat(start.ring, i)
  BY <1>2, Zenon DEF SameSq, Dat
<1>5. ASSUME NEW j \in 1 .. L
      PROVE  m + j \in 1 .. N /\ m + j > m /\ p[j] = order[m + j]
  BY <1>2, <1>3
<1>6. ASSUME NEW j \in 1 .. L
      PROVE  /\ Dat(end.ring, p[j]) \in Nat
             /\ \A b \in DOMAIN end.ran : end.ran[b] # Dat(end.ring, p[j])
  <2>1. Dat(end.ring, p[j]) = Dat(start.ring, order[m + j])
    BY <1>4, <1>5, Zenon
  <2>2. /\ Dat(start.ring, order[m + j]) \in Nat
        /\ \A b \in DOMAIN start.ran : start.ran[b] # Dat(start.ring, order[m + j])
        /\ \A i \in 1 .. N : Dat(start.ring, order[i]) = Dat(start.ring, order[m + j]) => i = m + j
    BY <1>1, <1>5, Zenon DEF Fresh
  <2>3. ASSUME NEW b \in DOMAIN end.ran PROVE end.ran[b] # Dat(start.ring, order[m + j])
    <3>1. Known(start, order, m, end.ran[b])
      BY <1>2, Zenon
    <3>2. ASSUME NEW i \in 1 .. m PROVE Dat(start.ring, order[i]) # Dat(start.ring, order[m + j])
      <4>1. i \in 1 .. N /\ i # m + j
        BY <1>3, <1>5
      <4> QED
        BY <2>2, <4>1, Zenon
    <3> QED
      BY <2>2, <3>1, <3>2, Zenon DEF Known
  <2> QED
    BY <2>1, <2>2, <2>3, Zenon
<1>7. ASSUME NEW i \in 1 .. L, NEW j \in 1 .. L, Dat(end.ring, p[i]) = Dat(end.ring, p[j])
      PROVE  i = j
  <2>1. Dat(start.ring, order[m + i]) = Dat(start.ring, order[m + j])
    BY <1>4, <1>5, <1>7, Zenon
  <2>2. m + i = m + j
    BY <1>1, <1>5, <2>1, Zenon DEF Fresh
  <2> QED
    BY <1>3, <2>2
<1>8. Fresh(end, end.rest)
  BY <1>1, <1>6, <1>7, Zenon DEF Fresh
<1>9. \A j \in 1 .. L : \E k \in 1 .. N : p[j] = order[k]
  BY <1>5, Zenon
<1>10. ASSUME NEW a \in DOMAIN end.ran PROVE Known(start, order, N, end.ran[a])
  BY <1>2, <1>3 DEF Known
<1> QED
  BY <1>1, <1>8, <1>9, <1>10, Zenon

\* A call of submit_sqes.
LEMMA SubmitEnds ==
  ASSUME Regular, NEW start, NEW order \in Seq(Nat), NEW pc, NEW ans, Fresh(start, order),
         Sound(start, pc, ans), start.rest = <<>>, NEW task, NEW tail,
         NEW e, e = submit_sqes(task, start, order, tail)
  PROVE  Ended(start, order, task, tail, pc, ans, e)
<1>1. PICK u : IsRun(task, start, order, u) /\ e = Finish(task, u[Len(order)], tail)
  BY RunUnfolds, Zenon
<1>2. PICK end, r, R : end = u[Len(order)] /\ r = end.ring /\ R = end.rest
  BY Zenon
<1>3. FoldAt(start, order, pc, ans, end, Len(order)) /\ e = Finish(task, end, tail)
  <2>1. FoldAt(start, order, pc, ans, u[Len(order)], Len(order))
    BY <1>1, RunKeeps, Zenon
  <2> QED
    BY <1>1, <1>2, <2>1, Zenon
<1>4. /\ Fresh(end, end.rest)
      /\ \A j \in 1 .. Len(end.rest) : \E k \in 1 .. Len(order) : end.rest[j] = order[k]
      /\ \A a \in DOMAIN end.ran : Known(start, order, Len(order), end.ran[a])
  BY <1>3, RestFresh, Zenon
<1>5. Sound(end, pc, ans) /\ SameSq(start.ring, r) /\ R \in Seq(Nat)
  BY <1>2, <1>3, Zenon DEF FoldAt
<1>6. /\ end = [fs |-> end.fs, ring |-> r, ran |-> end.ran, rest |-> R]
      /\ RingShape(r)
  BY <1>2, <1>5, Zenon DEF Sound
<1>7. r = [sq |-> r.sq, sq_head |-> r.sq_head, sq_tail |-> r.sq_tail,
           cq |-> r.cq, cq_head |-> r.cq_head, cq_tail |-> r.cq_tail,
           chain_result |-> r.chain_result, fixed_files |-> r.fixed_files,
           bufs |-> r.bufs, locked |-> r.locked]
  BY <1>6, Zenon DEF RingShape
<1>8. CASE R # <<>>
  <2>1. PICK l : l = [task |-> task, rest |-> R, tail |-> tail]
    BY Zenon
  <2>2. e = [end EXCEPT !.ring.locked = l]
    BY <1>2, <1>3, <1>8, <2>1, Zenon DEF Finish
  <2>3. PICK v : v = [sq |-> r.sq, sq_head |-> r.sq_head, sq_tail |-> r.sq_tail,
                      cq |-> r.cq, cq_head |-> r.cq_head, cq_tail |-> r.cq_tail,
                      chain_result |-> r.chain_result, fixed_files |-> r.fixed_files,
                      bufs |-> r.bufs, locked |-> l]
    BY Zenon
  <2>4. [r EXCEPT !.locked = l] = v
    BY <1>7, <2>3
  <2>5. e = [fs |-> end.fs, ring |-> v, ran |-> end.ran, rest |-> R]
    <3>1. e = [end EXCEPT !.ring = [r EXCEPT !.locked = l]]
      BY <1>2, <2>2, Zenon
    <3> QED
      BY <1>6, <2>4, <3>1
  <2>6. e.ring = v /\ e.ran = end.ran
    BY <2>5
  <2>7. /\ RingShape(v) /\ v.cq = r.cq /\ v.cq_head = r.cq_head /\ v.cq_tail = r.cq_tail
        /\ v.sq = r.sq /\ v.sq_head = r.sq_head /\ v.sq_tail = r.sq_tail /\ v.locked = l
    BY <2>3, Zenon DEF RingShape
  <2>8. Sound(e, pc, ans)
    <3>1. v.cq = end.ring.cq /\ v.cq_head = end.ring.cq_head /\ v.cq_tail = end.ring.cq_tail
      BY <1>2, <2>7, Zenon
    <3> QED
      BY <1>5, <2>5, <2>7, <3>1, SoundRing, Zenon
  <2>9. Fresh(e, R)
    <3>1. \A i : Dat(e.ring, i) = Dat(end.ring, i)
      BY <1>2, <2>6, <2>7, Zenon DEF Dat
    <3> QED
      BY <1>2, <1>4, <2>6, <3>1 DEF Fresh
  <2>10. e.ring.sq = start.ring.sq /\ e.ring.sq_tail = start.ring.sq_tail /\ e.ring.sq_head = start.ring.sq_head
    BY <1>5, <2>6, <2>7, Zenon DEF SameSq
  <2>11. \A a \in DOMAIN e.ran : Known(start, order, Len(order), e.ran[a])
    BY <1>4, <2>6, Zenon
  <2>12. \A j \in 1 .. Len(R) : \E k \in 1 .. Len(order) : R[j] = order[k]
    BY <1>2, <1>4, Zenon
  <2>13. e.ring.locked = [task |-> task, rest |-> R, tail |-> tail]
    BY <2>1, <2>6, <2>7, Zenon
  <2> QED
    BY <1>5, <1>8, <2>8, <2>9, <2>10, <2>11, <2>12, <2>13, Zenon DEF Ended
<1>9. CASE R = <<>>
  <2>1. PICK l, z : l = NoTaskWaits /\ z = Consumed([r EXCEPT !.locked = l], tail)
    BY Zenon
  <2>2. e = [end EXCEPT !.ring = z]
    BY <1>2, <1>3, <1>9, <2>1, Zenon DEF Finish
  <2>3. PICK v : v = [sq |-> r.sq, sq_head |-> tail, sq_tail |-> r.sq_tail,
                      cq |-> r.cq, cq_head |-> r.cq_head, cq_tail |-> r.cq_tail,
                      chain_result |-> r.chain_result, fixed_files |-> r.fixed_files,
                      bufs |-> r.bufs, locked |-> l]
    BY Zenon
  <2>4. z = v
    <3>1. PICK y : y = [r EXCEPT !.locked = l]
      BY Zenon
    <3>2. y = [sq |-> r.sq, sq_head |-> r.sq_head, sq_tail |-> r.sq_tail,
               cq |-> r.cq, cq_head |-> r.cq_head, cq_tail |-> r.cq_tail,
               chain_result |-> r.chain_result, fixed_files |-> r.fixed_files,
               bufs |-> r.bufs, locked |-> l]
      BY <1>7, <3>1, Zenon
    <3>3. z = [y EXCEPT !.sq_head = tail]
      BY <2>1, <3>1, Zenon DEF Consumed
    <3> QED
      BY <2>3, <3>2, <3>3
  <2>5. e = [fs |-> end.fs, ring |-> v, ran |-> end.ran, rest |-> R]
    BY <1>6, <2>2, <2>4
  <2>6. e.ring = v /\ e.ran = end.ran
    BY <2>5
  <2>7. /\ RingShape(v) /\ v.cq = r.cq /\ v.cq_head = r.cq_head /\ v.cq_tail = r.cq_tail
        /\ v.sq = r.sq /\ v.sq_head = tail /\ v.sq_tail = r.sq_tail /\ v.locked = l
    BY <2>3, Zenon DEF RingShape
  <2>8. Sound(e, pc, ans)
    <3>1. v.cq = end.ring.cq /\ v.cq_head = end.ring.cq_head /\ v.cq_tail = end.ring.cq_tail
      BY <1>2, <2>7, Zenon
    <3> QED
      BY <1>5, <2>5, <2>7, <3>1, SoundRing, Zenon
  <2>9. e.ring.sq = start.ring.sq /\ e.ring.sq_tail = start.ring.sq_tail
    BY <1>5, <2>6, <2>7, Zenon DEF SameSq
  <2>10. \A a \in DOMAIN e.ran : Known(start, order, Len(order), e.ran[a])
    BY <1>4, <2>6, Zenon
  <2>11. e.ring.locked = NoTaskWaits /\ e.ring.sq_head = tail
    BY <2>1, <2>6, <2>7, Zenon
  <2> QED
    BY <2>8, <2>9, <2>10, <2>11, Zenon DEF Ended
<1> QED
  BY <1>8, <1>9, Zenon

\* Different requests of the window, with priorities in S.
Part(r, S, s) ==
  /\ s \in Seq(Nat) /\ Once(s)
  /\ \A j \in 1 .. Len(s) :
       /\ \E k \in 1 .. Len(Window(r)) : s[j] = Window(r)[k]
       /\ r.sq[Slot(s[j])].request.prio \in S

\* Of the first k requests of the window.
PartTo(r, prio, k, s) ==
  /\ s \in Seq(Nat) /\ Once(s)
  /\ \A j \in 1 .. Len(s) :
       \E a \in 1 .. k : s[j] = Window(r)[a] /\ r.sq[Slot(Window(r)[a])].request.prio = prio

\* One more request, or not.
LEMMA PassStep ==
  ASSUME NEW r, NEW prio, Window(r) \in Seq(Nat), Once(Window(r)),
         NEW k \in 1 .. Len(Window(r)), NEW s, PartTo(r, prio, k - 1, s)
  PROVE  /\ PartTo(r, prio, k, s)
         /\ r.sq[Slot(Window(r)[k])].request.prio = prio
              => PartTo(r, prio, k, Append(s, Window(r)[k]))
<1>1. PICK w, n, x, t : w = Window(r) /\ n = Len(w) /\ x = w[k] /\ t = Append(s, x)
  BY Zenon
<1>2. w \in Seq(Nat) /\ Once(w) /\ n \in Nat /\ DOMAIN w = 1 .. n /\ k \in 1 .. n
  BY <1>1, LenProperties, Zenon
<1>3. x \in Nat
  BY <1>1, <1>2, ElementOfSeq, Zenon
<1>4. /\ s \in Seq(Nat) /\ Once(s)
      /\ \A j \in 1 .. Len(s) : \E a \in 1 .. k - 1 : s[j] = w[a] /\ r.sq[Slot(w[a])].request.prio = prio
  BY <1>1, Zenon DEF PartTo
<1>5. DOMAIN s = 1 .. Len(s) /\ Len(s) \in Nat
  BY <1>4, LenProperties, Zenon
<1>6. \A a \in 1 .. k - 1 : a \in 1 .. k /\ a \in DOMAIN w /\ a # k
  BY <1>2
<1>7. \A j \in DOMAIN s : s[j] # x
  <2> SUFFICES ASSUME NEW j \in DOMAIN s PROVE s[j] # x
    BY Zenon
  <2>1. PICK a \in 1 .. k - 1 : s[j] = w[a]
    BY <1>4, <1>5, Zenon
  <2> QED
    BY <1>1, <1>2, <1>6, <2>1, Zenon DEF Once
<1>8. PartTo(r, prio, k, s)
  BY <1>1, <1>4, <1>6, Zenon DEF PartTo
<1>9. ASSUME r.sq[Slot(x)].request.prio = prio PROVE PartTo(r, prio, k, t)
  <2>1. /\ t \in Seq(Nat) /\ Len(t) = Len(s) + 1 /\ t[Len(s) + 1] = x
        /\ \A j \in 1 .. Len(s) : t[j] = s[j]
    BY <1>1, <1>3, <1>4, AppendProperties
  <2>2. Once(t)
    <3>1. DOMAIN t = 1 .. Len(s) + 1
      BY <2>1, LenProperties, Zenon
    <3> SUFFICES ASSUME NEW i \in 1 .. Len(s) + 1, NEW j \in 1 .. Len(s) + 1, t[i] = t[j] PROVE i = j
      BY <3>1, Zenon DEF Once
    <3>2. CASE i = Len(s) + 1 /\ j = Len(s) + 1
      BY <3>2, Zenon
    <3>3. CASE i = Len(s) + 1 /\ j # Len(s) + 1
      <4>1. j \in DOMAIN s /\ t[j] = s[j] /\ t[i] = x
        BY <1>5, <2>1, <3>3
      <4> QED
        BY <1>7, <4>1, Zenon
    <3>4. CASE i # Len(s) + 1 /\ j = Len(s) + 1
      <4>1. i \in DOMAIN s /\ t[i] = s[i] /\ t[j] = x
        BY <1>5, <2>1, <3>4
      <4> QED
        BY <1>7, <4>1, Zenon
    <3>5. CASE i # Len(s) + 1 /\ j # Len(s) + 1
      <4>1. i \in DOMAIN s /\ j \in DOMAIN s /\ s[i] = s[j]
        BY <1>5, <2>1, <3>5
      <4> QED
        BY <1>4, <4>1, Zenon DEF Once
    <3> QED
      BY <3>2, <3>3, <3>4, <3>5, Zenon
  <2>3. ASSUME NEW j \in 1 .. Len(t)
        PROVE  \E a \in 1 .. k : t[j] = w[a] /\ r.sq[Slot(w[a])].request.prio = prio
    <3>1. CASE j = Len(s) + 1
      <4>1. k \in 1 .. k /\ t[j] = w[k] /\ r.sq[Slot(w[k])].request.prio = prio
        BY <1>1, <1>2, <1>9, <2>1, <3>1
      <4> QED
        BY <4>1, Zenon
    <3>2. CASE j # Len(s) + 1
      <4>1. j \in 1 .. Len(s) /\ t[j] = s[j]
        BY <1>5, <2>1, <3>2
      <4> QED
        BY <1>4, <1>6, <4>1, Zenon
    <3> QED
      BY <3>1, <3>2, Zenon
  <2> QED
    BY <1>1, <2>1, <2>2, <2>3, Zenon DEF PartTo
<1> QED
  BY <1>1, <1>8, <1>9, Zenon

\* One pass.
LEMMA PassPart ==
  ASSUME NEW r, NEW prio, Window(r) \in Seq(Nat), Once(Window(r))
  PROVE  Part(r, {prio}, Pass(r, prio))
<1> DEFINE w == Window(r)
           N == Len(w)
           S == Seq(Nat)
           At(k) == r.sq[Slot(w[k])].request
           Taken(k) == /\ At(k).prio = prio
                       /\ \A j \in 1 .. k - 1 : At(j).prio = prio => At(j).chain
           Grow(s, k) == IF Taken(k) THEN Append(s, w[k]) ELSE s
           step == [k \in 1..N |-> [s \in S |-> Grow(s, k)]]
           Equation(f) == f = [k \in 0..N |-> IF k = 0 THEN <<>> ELSE Grow(f[k - 1], k)]
           u == CHOOSE f : Equation(f)
<1>1. N \in Nat /\ <<>> \in S
  BY LenProperties
<1>2. \A k \in 1..N, s \in S : Grow(s, k) \in S
  BY ElementOfSeq, AppendProperties, Zenon
<1>3. Pass(r, prio) = u[N]
  BY Zenon DEF Pass
<1>4. \A k \in 1..N : Taken(k) => r.sq[Slot(w[k])].request.prio = prio
  BY Zenon
<1> HIDE DEF Taken
<1>5. ASSUME NEW k \in 1..N, NEW s, PartTo(r, prio, k - 1, s) PROVE PartTo(r, prio, k, Grow(s, k))
  <2>1. /\ PartTo(r, prio, k, s)
        /\ r.sq[Slot(w[k])].request.prio = prio => PartTo(r, prio, k, Append(s, w[k]))
    BY <1>5, PassStep, Zenon
  <2> HIDE DEF w
  <2> QED
    BY <1>4, <2>1, Zenon
<1> HIDE DEF Grow, S
<1>6. \E f : Equation(f)
  <2> HIDE DEF w, N
  <2>1. step \in [1..N -> [S -> S]]
    BY <1>2, Zenon
  <2>2. \A k \in 1..N, s \in S : step[k][s] = Grow(s, k)
    BY Zenon
  <2> HIDE DEF step
  <2>3. PICK f : IsRecursion(N, S, <<>>, step, f)
    BY <1>1, <2>1, RecursionExists, Zenon
  <2>4. \A k \in 1..N : f[k] = Grow(f[k - 1], k)
    BY <1>1, <2>2, <2>3 DEF IsRecursion
  <2>5. Equation(f)
    BY <1>1, <2>3, <2>4 DEF IsRecursion
  <2> QED
    BY <2>5, Zenon
<1>7. Equation(u)
  BY <1>6, Zenon
<1> HIDE DEF u
<1>8. u[0] = <<>> /\ \A k \in 1..N : u[k] = Grow(u[k - 1], k)
  <2> HIDE DEF N
  <2> QED
    BY <1>1, <1>7
<1> DEFINE P == {k \in 0..N : PartTo(r, prio, k, u[k])}
<1>9. 0 \in P
  <2>1. PartTo(r, prio, 0, <<>>)
    BY DEF PartTo, Once
  <2> QED
    BY <1>1, <1>8, <2>1
<1>10. ASSUME NEW k \in 1..N, k - 1 \in P PROVE k \in P
  <2>1. PartTo(r, prio, k, Grow(u[k - 1], k))
    BY <1>5, <1>10, Zenon
  <2> HIDE DEF N
  <2> QED
    BY <1>1, <1>8, <2>1
<1>11. \A k \in 0..N : k \in P
  <2> HIDE DEF N, P
  <2> QED
    BY <1>1, <1>9, <1>10, SetInduction, Zenon
<1>12. PartTo(r, prio, N, u[N])
  BY <1>1, <1>11
<1> QED
  <2>1. PartTo(r, prio, Len(Window(r)), Pass(r, prio))
    BY <1>3, <1>12, Zenon
  <2> QED
    BY <2>1, Zenon DEF PartTo, Part

\* Two passes of different priorities.
LEMMA PartJoin ==
  ASSUME NEW r, NEW S, NEW T, S \cap T = {}, NEW s, NEW t, Part(r, S, s), Part(r, T, t)
  PROVE  Part(r, S \cup T, s \o t)
<1>1. PICK c, m, n : c = s \o t /\ m = Len(s) /\ n = Len(t)
  BY Zenon
<1>2. /\ s \in Seq(Nat) /\ Once(s) /\ t \in Seq(Nat) /\ Once(t)
      /\ \A j \in 1 .. m : r.sq[Slot(s[j])].request.prio \in S /\ \E k \in 1 .. Len(Window(r)) : s[j] = Window(r)[k]
      /\ \A j \in 1 .. n : r.sq[Slot(t[j])].request.prio \in T /\ \E k \in 1 .. Len(Window(r)) : t[j] = Window(r)[k]
  BY <1>1, Zenon DEF Part
<1>3. m \in Nat /\ n \in Nat /\ DOMAIN s = 1 .. m /\ DOMAIN t = 1 .. n
  BY <1>1, <1>2, LenProperties, Zenon
<1>4. c \in Seq(Nat) /\ Len(c) = m + n
  BY <1>1, <1>2, ConcatProperties
<1>5. \A j \in 1 .. m + n : c[j] = IF j <= m THEN s[j] ELSE t[j - m]
  BY <1>1, <1>2, ConcatProperties
<1>6. ASSUME NEW i \in 1 .. m, NEW j \in 1 .. n PROVE s[i] # t[j]
  BY <1>2, Zenon
<1>7. ASSUME NEW i \in 1 .. m + n, NEW j \in 1 .. m + n, c[i] = c[j] PROVE i = j
  <2>1. CASE i =< m /\ j =< m
    <3>1. i \in DOMAIN s /\ j \in DOMAIN s /\ s[i] = s[j]
      BY <1>3, <1>5, <1>7, <2>1
    <3> QED
      BY <1>2, <3>1, Zenon DEF Once
  <2>2. CASE i =< m /\ ~(j =< m)
    <3>1. i \in 1 .. m /\ j - m \in 1 .. n /\ s[i] = t[j - m]
      BY <1>3, <1>5, <1>7, <2>2
    <3> QED
      BY <1>6, <3>1, Zenon
  <2>3. CASE ~(i =< m) /\ j =< m
    <3>1. j \in 1 .. m /\ i - m \in 1 .. n /\ s[j] = t[i - m]
      BY <1>3, <1>5, <1>7, <2>3
    <3> QED
      BY <1>6, <3>1, Zenon
  <2>4. CASE ~(i =< m) /\ ~(j =< m)
    <3>1. i - m \in DOMAIN t /\ j - m \in DOMAIN t /\ t[i - m] = t[j - m]
      BY <1>3, <1>5, <1>7, <2>4
    <3>2. i - m = j - m
      BY <1>2, <3>1, Zenon DEF Once
    <3> QED
      BY <1>3, <3>2
  <2> QED
    BY <2>1, <2>2, <2>3, <2>4, Zenon
<1>8. Once(c)
  <2>1. DOMAIN c = 1 .. m + n
    BY <1>4, LenProperties, Zenon
  <2> QED
    BY <1>7, <2>1, Zenon DEF Once
<1>9. ASSUME NEW j \in 1 .. m + n
      PROVE  /\ \E k \in 1 .. Len(Window(r)) : c[j] = Window(r)[k]
             /\ r.sq[Slot(c[j])].request.prio \in S \cup T
  <2>1. CASE j =< m
    <3>1. j \in 1 .. m /\ c[j] = s[j]
      BY <1>3, <1>5, <2>1
    <3> QED
      BY <1>2, <3>1
  <2>2. CASE ~(j =< m)
    <3>1. j - m \in 1 .. n /\ c[j] = t[j - m]
      BY <1>3, <1>5, <2>2
    <3> QED
      BY <1>2, <3>1
  <2> QED
    BY <2>1, <2>2, Zenon
<1>10. Part(r, S \cup T, c)
  BY <1>4, <1>8, <1>9, Zenon DEF Part
<1> QED
  BY <1>1, <1>10, Zenon

\* The first n of a sequence.
LEMMA FirstOf ==
  ASSUME NEW S, NEW s \in Seq(S), NEW n \in Nat, n =< Len(s)
  PROVE  /\ SubSeq(s, 1, n) \in Seq(S) /\ Len(SubSeq(s, 1, n)) = n
         /\ \A j \in 1 .. n : SubSeq(s, 1, n)[j] = s[j]
<1>1. 1 \in Int /\ n \in Int /\ \A i \in 1 .. n : s[i] \in S
  BY ElementOfSeq, LenProperties
<1>2. /\ SubSeq(s, 1, n) \in Seq(S)
      /\ Len(SubSeq(s, 1, n)) = IF 1 <= n THEN n - 1 + 1 ELSE 0
      /\ \A i \in 1 .. n - 1 + 1 : SubSeq(s, 1, n)[i] = s[1 + i - 1]
  BY <1>1, SubSeqProperties
<1>3. \A j \in 1 .. n : j \in 1 .. n - 1 + 1 /\ 1 + j - 1 = j
  OBVIOUS
<1>4. Len(SubSeq(s, 1, n)) = n
  BY <1>2
<1> QED
  BY <1>2, <1>3, <1>4, Zenon

\* A batch: different requests of the window.
LEMMA BatchPart ==
  ASSUME NEW r, Window(r) \in Seq(Nat), Once(Window(r))
  PROVE  Part(r, {4, 3, 2, 1, 0}, BatchOrder(r))
<1>1. PICK p4, p3, p2, p1, p0 : /\ p4 = Pass(r, 4) /\ p3 = Pass(r, 3) /\ p2 = Pass(r, 2)
                                /\ p1 = Pass(r, 1) /\ p0 = Pass(r, 0)
  BY Zenon
<1>2. Part(r, {4}, p4) /\ Part(r, {3}, p3) /\ Part(r, {2}, p2) /\ Part(r, {1}, p1) /\ Part(r, {0}, p0)
  BY <1>1, PassPart, Zenon
<1>3. PICK a, b, c, d : a = p4 \o p3 /\ b = a \o p2 /\ c = b \o p1 /\ d = c \o p0
  BY Zenon
<1> DEFINE A == {4} \cup {3}
           B == A \cup {2}
           C == B \cup {1}
           D == C \cup {0}
<1>d. {4} \cap {3} = {} /\ A \cap {2} = {} /\ B \cap {1} = {} /\ C \cap {0} = {} /\ D = {4, 3, 2, 1, 0}
  OBVIOUS
<1>u. \A S, T, s, t : S \cap T = {} /\ Part(r, S, s) /\ Part(r, T, t) => Part(r, S \cup T, s \o t)
  BY PartJoin, Zenon
<1>4. Part(r, A, p4 \o p3)
  BY <1>2, <1>d, <1>u, Zenon
<1>5. Part(r, B, a \o p2)
  <2> HIDE DEF A
  <2> QED
    BY <1>2, <1>3, <1>4, <1>d, <1>u, Zenon
<1>6. Part(r, C, b \o p1)
  <2> HIDE DEF B
  <2> QED
    BY <1>2, <1>3, <1>5, <1>d, <1>u, Zenon
<1>7. Part(r, D, c \o p0)
  <2> HIDE DEF C
  <2> QED
    BY <1>2, <1>3, <1>6, <1>d, <1>u, Zenon
<1>9. Part(r, {4, 3, 2, 1, 0}, d)
  BY <1>3, <1>7, <1>d, Zenon
<1>10. PICK n, e : n = (IF Len(d) < Entries THEN Len(d) ELSE Entries) /\ e = SubSeq(d, 1, n)
  BY Zenon
<1>11. BatchOrder(r) = e
  BY <1>1, <1>3, <1>10, Zenon DEF BatchOrder
<1>12. d \in Seq(Nat) /\ Once(d) /\ Len(d) \in Nat /\ DOMAIN d = 1 .. Len(d)
  BY <1>9, LenProperties, Zenon DEF Part
<1>13. n \in Nat /\ n =< Len(d)
  BY <1>10, <1>12, RingFacts
<1>14. e \in Seq(Nat) /\ Len(e) = n /\ \A j \in 1 .. n : e[j] = d[j]
  BY <1>10, <1>12, <1>13, FirstOf, Zenon
<1>15. DOMAIN e = 1 .. n /\ \A j \in 1 .. n : j \in 1 .. Len(d)
  BY <1>12, <1>13, <1>14, LenProperties
<1>16. Once(e)
  BY <1>12, <1>14, <1>15, Zenon DEF Once
<1>17. Part(r, {4, 3, 2, 1, 0}, e)
  <2>1. \A j \in 1 .. Len(d) :
       /\ \E k \in 1 .. Len(Window(r)) : d[j] = Window(r)[k]
       /\ r.sq[Slot(d[j])].request.prio \in {4, 3, 2, 1, 0}
    BY <1>9, Zenon DEF Part
  <2> QED
    BY <1>14, <1>15, <1>16, <2>1, Zenon DEF Part
<1> QED
  BY <1>11, <1>17, Zenon

\* The submission ring, with indices that do not wrap: H is the head, P the
\* tail.  The request pushed as number i carries i, and is at index i - 1.
SqAt(r, pc, P, H) ==
  /\ H \in Nat /\ P \in Nat /\ H =< P /\ P =< H + Entries
  /\ r.sq_head = H % IdxMod /\ r.sq_tail = P % IdxMod
  /\ DOMAIN r.sq = 0 .. Entries - 1
  /\ \A i \in H .. P - 1 : r.sq[i % Entries].data = i + 1
  /\ pc = "pushing" => P < H + Entries /\ r.sq[P % Entries].data = P + 1

\* The requests below L have run or never will, but for those a call that waits
\* has still to run.
LockAt(st, H, L, task, R) ==
  /\ R \in Seq(Nat) /\ R # <<>>
  /\ st.ring.locked = [task |-> task, rest |-> R, tail |-> L % IdxMod]
  /\ Fresh(st, R)
  /\ \A j \in 1 .. Len(R) : \E i \in H .. L - 1 : R[j] = i % IdxMod

Lock(st, H, L) ==
  \/ st.ring.locked = NoTaskWaits /\ L = H
  \/ \E task, R : LockAt(st, H, L, task, R)

\* How many requests have been pushed.
PushedTo(pr) == IF pr.pc = "pushing" THEN pr.pushed - 1 ELSE pr.pushed

SideAt(st, pc, P, H, L) ==
  /\ SqAt(st.ring, pc, P, H) /\ L \in Nat /\ H =< L /\ L =< P
  /\ Lock(st, H, L)
  /\ \A k \in DOMAIN st.ran : st.ran[k] =< L

UInv(st, pr, ans) ==
  /\ pr = [pc |-> pr.pc, pushed |-> pr.pushed] /\ pr.pushed \in Nat
  /\ st.rest = <<>> /\ Sound(st, pr.pc, ans)
  /\ \E H, L : SideAt(st, pr.pc, PushedTo(pr), H, L)

\* The index i of the submission ring.
LEMMA DatAt ==
  ASSUME Regular, NEW r, NEW pc, NEW P, NEW H, SqAt(r, pc, P, H), NEW i \in H .. P - 1
  PROVE  Dat(r, i % IdxMod) = i + 1 /\ i \in Nat /\ i % IdxMod \in Nat
<1>1. H \in Nat /\ P \in Nat /\ r.sq[i % Entries].data = i + 1
  BY Zenon DEF SqAt
<1>2. i \in Nat
  BY <1>1
<1>3. Slot(i % IdxMod) = i % Entries /\ i % IdxMod \in Nat
  BY <1>2, IndexSlot, RingFacts
<1> QED
  BY <1>1, <1>2, <1>3, Zenon DEF Dat

\* The window.
LEMMA WindowIs ==
  ASSUME Regular, NEW r, NEW pc, NEW P, NEW H, SqAt(r, pc, P, H)
  PROVE  /\ Window(r) \in Seq(Nat) /\ Once(Window(r))
         /\ \A k \in 1 .. Len(Window(r)) : \E i \in H .. P - 1 : Window(r)[k] = i % IdxMod
<1>0. Entries \in Nat \ {0} /\ IdxMod \in Nat \ {0} /\ IdxMod > Entries
  BY RingFacts
<1>1. /\ H \in Nat /\ P \in Nat /\ H =< P /\ P =< H + Entries
      /\ r.sq_head = H % IdxMod /\ r.sq_tail = P % IdxMod
  BY Zenon DEF SqAt
<1>2. PICK n : n = P - H
  BY Zenon
<1>3. n \in Nat /\ n < IdxMod
  BY <1>0, <1>1, <1>2
<1>4. Distance(r.sq_head, r.sq_tail) = n
  <2>1. P < H + IdxMod
    BY <1>0, <1>1
  <2>2. Distance(H % IdxMod, P % IdxMod) = P - H
    BY <1>1, <2>1, IndexDistance, Zenon
  <2> QED
    BY <1>1, <1>2, <2>2, Zenon
<1>5. ASSUME NEW k \in 1 .. n
      PROVE  /\ (r.sq_head + k - 1) % IdxMod = (H + (k - 1)) % IdxMod
             /\ (H + (k - 1)) % IdxMod \in Nat /\ H + (k - 1) \in H .. P - 1
  <2>1. PICK h, m : h = H % IdxMod /\ m = k - 1
    BY Zenon
  <2>2. m \in Nat /\ H \in Nat /\ h \in Nat
    BY <1>0, <1>1, <1>3, <2>1, IndexSlot
  <2>3. (h + m) % IdxMod = (H + m) % IdxMod
    BY <2>1, <2>2, IndexPlus, Zenon
  <2>4. H + m \in Nat
    BY <2>2
  <2>5. (H + m) % IdxMod \in Nat
    <3>1. PICK c \in Nat : c = H + m
      BY <2>4, Zenon
    <3>2. c % IdxMod \in 0 .. IdxMod - 1
      BY IndexSlot, Zenon
    <3> QED
      BY <1>0, <3>1, <3>2
  <2>6. r.sq_head + k - 1 = h + m
    BY <1>1, <2>1, <2>2, Zenon
  <2>7. H + m \in H .. P - 1
    BY <1>1, <1>2, <1>3, <2>1, <2>2
  <2> QED
    BY <2>1, <2>3, <2>5, <2>6, <2>7, Zenon
<1>6. PICK w : w = Window(r)
  BY Zenon
<1>7. w = [k \in 1 .. n |-> (H + (k - 1)) % IdxMod]
  BY <1>4, <1>5, <1>6, Zenon DEF Window
<1>8. w \in Seq(Nat) /\ Len(w) = n /\ DOMAIN w = 1 .. n
  BY <1>3, <1>5, <1>7
<1>9. \A k \in 1 .. n : w[k] = (H + (k - 1)) % IdxMod
  BY <1>7, Zenon
<1>10. ASSUME NEW j \in 1 .. n, NEW k \in 1 .. n, j < k PROVE w[j] # w[k]
  <2>1. PICK a, b : a = H + (j - 1) /\ b = H + (k - 1)
    BY Zenon
  <2>2. a \in Int /\ b \in Int /\ a < b /\ b - a < IdxMod
    BY <1>0, <1>1, <1>3, <1>10, <2>1
  <2>3. a % IdxMod # b % IdxMod
    BY <1>0, <2>2, ModApart, Zenon
  <2> QED
    BY <1>9, <2>1, <2>3, Zenon
<1>11. Once(w)
  <2> SUFFICES ASSUME NEW j \in 1 .. n, NEW k \in 1 .. n, w[j] = w[k] PROVE j = k
    BY <1>8, Zenon DEF Once
  <2>1. ~(j < k) /\ ~(k < j)
    BY <1>10, Zenon
  <2> QED
    BY <1>3, <2>1
<1>12. \A k \in 1 .. n : \E i \in H .. P - 1 : w[k] = i % IdxMod
  BY <1>5, <1>9, Zenon
<1> QED
  BY <1>6, <1>8, <1>11, <1>12, Zenon

\* A batch is fresh.
LEMMA BatchFresh ==
  ASSUME Regular, NEW st, NEW pc, NEW P, NEW H, SideAt(st, pc, P, H, H), NEW order, order = BatchOrder(st.ring)
  PROVE  /\ order \in Seq(Nat) /\ Fresh(st, order)
         /\ \A j \in 1 .. Len(order) : \E i \in H .. P - 1 : order[j] = i % IdxMod
<1>1. PICK r : r = st.ring
  BY Zenon
<1>2. SqAt(r, pc, P, H) /\ H \in Nat /\ \A k \in DOMAIN st.ran : st.ran[k] =< H
  BY <1>1, Zenon DEF SideAt
<1>3. /\ Window(r) \in Seq(Nat) /\ Once(Window(r))
      /\ \A k \in 1 .. Len(Window(r)) : \E i \in H .. P - 1 : Window(r)[k] = i % IdxMod
  BY <1>2, WindowIs, Zenon
<1>4. Part(r, {4, 3, 2, 1, 0}, order)
  BY <1>1, <1>3, BatchPart, Zenon
<1>5. /\ order \in Seq(Nat) /\ Once(order)
      /\ \A j \in 1 .. Len(order) : \E k \in 1 .. Len(Window(r)) : order[j] = Window(r)[k]
  BY <1>4, Zenon DEF Part
<1>6. \A j \in 1 .. Len(order) : \E i \in H .. P - 1 : order[j] = i % IdxMod
  BY <1>3, <1>5, Zenon
<1>7. DOMAIN order = 1 .. Len(order)
  BY <1>5, LenProperties, Zenon
<1>8. \A i \in H .. P - 1 : Dat(r, i % IdxMod) = i + 1 /\ i \in Nat
  BY <1>2, DatAt, Zenon
<1>9. ASSUME NEW j \in 1 .. Len(order)
      PROVE  Dat(r, order[j]) \in Nat /\ Dat(r, order[j]) > H
  <2>1. PICK i \in H .. P - 1 : order[j] = i % IdxMod
    BY <1>6, Zenon
  <2>2. Dat(r, order[j]) = i + 1 /\ i \in Nat /\ i >= H
    BY <1>2, <1>8, <2>1
  <2> QED
    BY <1>2, <2>2
<1>10. ASSUME NEW a \in 1 .. Len(order), NEW b \in 1 .. Len(order), Dat(r, order[a]) = Dat(r, order[b])
       PROVE  a = b
  <2>1. PICK i \in H .. P - 1 : order[a] = i % IdxMod
    BY <1>6, Zenon
  <2>2. PICK k \in H .. P - 1 : order[b] = k % IdxMod
    BY <1>6, Zenon
  <2>3. i \in Nat /\ k \in Nat /\ i + 1 = k + 1
    BY <1>8, <1>10, <2>1, <2>2, Zenon
  <2>4. i = k
    BY <2>3
  <2>5. order[a] = order[b]
    BY <2>1, <2>2, <2>4, Zenon
  <2> QED
    BY <1>5, <1>7, <2>5, Zenon DEF Once
<1>11. ASSUME NEW j \in 1 .. Len(order), NEW b \in DOMAIN st.ran PROVE st.ran[b] # Dat(r, order[j])
  <2>1. PICK x, y : x = st.ran[b] /\ y = Dat(r, order[j])
    BY Zenon
  <2>2. x =< H /\ y > H /\ y \in Nat
    BY <1>2, <1>9, <2>1, Zenon
  <2>3. x # y
    BY <1>2, <2>2
  <2> QED
    BY <2>1, <2>3, Zenon
<1>12. Fresh(st, order)
  BY <1>1, <1>9, <1>10, <1>11, Zenon DEF Fresh
<1> QED
  BY <1>5, <1>6, <1>12, Zenon

\* A step that leaves the submission side alone.
LEMMA SideKept ==
  ASSUME NEW st, NEW pc, NEW P, NEW H, NEW L, SideAt(st, pc, P, H, L),
         NEW e, SameSq(st.ring, e.ring), e.ran = st.ran,
         NEW pc2, pc2 = "pushing" => pc = "pushing"
  PROVE  SideAt(e, pc2, P, H, L)
<1>1. SqAt(e.ring, pc2, P, H)
  BY Zenon DEF SideAt, SqAt, SameSq
<1>2. \A i : Dat(e.ring, i) = Dat(st.ring, i)
  BY Zenon DEF SameSq, Dat
<1>3. \A R : Fresh(st, R) => Fresh(e, R)
  BY <1>2, Zenon DEF Fresh
<1>4. e.ring.locked = st.ring.locked
  BY Zenon DEF SameSq
<1>5. Lock(e, H, L)
  <2>1. Lock(st, H, L)
    BY Zenon DEF SideAt
  <2>2. \A task, R : LockAt(st, H, L, task, R) => LockAt(e, H, L, task, R)
    BY <1>3, <1>4, Zenon DEF LockAt
  <2> QED
    BY <1>4, <2>1, <2>2, Zenon DEF Lock
<1> QED
  BY <1>1, <1>5, Zenon DEF SideAt

\* A call may run the requests of order, which are below L.
Ready(st, pc, ans, P, H, L, order) ==
  /\ Sound(st, pc, ans) /\ st.rest = <<>>
  /\ SqAt(st.ring, pc, P, H) /\ L \in Nat /\ H =< L /\ L =< P
  /\ \A k \in DOMAIN st.ran : st.ran[k] =< L
  /\ order \in Seq(Nat) /\ Fresh(st, order)
  /\ \A j \in 1 .. Len(order) : \E i \in H .. L - 1 : order[j] = i % IdxMod

\* A call of submit_sqes, from a state in which its batch is fresh.
LEMMA CallKeeps ==
  ASSUME Regular, NEW st, NEW pc, NEW ans, NEW P, NEW H, NEW L, NEW order,
         Ready(st, pc, ans, P, H, L, order),
         NEW task, NEW e, e = submit_sqes(task, st, order, L % IdxMod),
         NEW f, f = [fs |-> e.fs, ring |-> e.ring, ran |-> e.ran, rest |-> <<>>]
  PROVE  Sound(f, pc, ans) /\ \E H2, L2 : SideAt(f, pc, P, H2, L2)
<1> USE DEF Ready
<1>0. Entries \in Nat \ {0} /\ IdxMod \in Nat \ {0}
  BY RingFacts
<1>1. PICK tail : tail = L % IdxMod
  BY Zenon
<1>2. Ended(st, order, task, tail, pc, ans, e)
  <2>1. e = submit_sqes(task, st, order, tail)
    BY <1>1, Zenon
  <2> QED
    BY <2>1, SubmitEnds, Zenon
<1>3. /\ Sound(e, pc, ans)
      /\ e.ring.sq = st.ring.sq /\ e.ring.sq_tail = st.ring.sq_tail
      /\ \A a \in DOMAIN e.ran : Known(st, order, Len(order), e.ran[a])
  BY <1>2, Zenon DEF Ended
<1>4. f.ring = e.ring /\ f.ran = e.ran /\ f.rest = <<>>
  BY Zenon
<1>5. Sound(f, pc, ans)
  <2>1. RingShape(e.ring)
    BY <1>3, Zenon DEF Sound
  <2>2. PICK nil, r, fs : nil = <<>> /\ r = e.ring /\ fs = e.fs
    BY Zenon
  <2>3. f = [fs |-> fs, ring |-> r, ran |-> e.ran, rest |-> nil]
    BY <2>2, Zenon
  <2>4. /\ r.cq = e.ring.cq /\ r.cq_head = e.ring.cq_head /\ r.cq_tail = e.ring.cq_tail
        /\ RingShape(r) /\ Sound(e, pc, ans)
    BY <1>3, <2>1, <2>2, Zenon
  <2> HIDE DEF Ready
  <2> QED
    BY <2>3, <2>4, SoundRing, ZenonT(40)
<1>6. /\ H \in Nat /\ P \in Nat /\ L \in Nat /\ H =< L /\ L =< P /\ P =< H + Entries
      /\ st.ring.sq_head = H % IdxMod /\ st.ring.sq_tail = P % IdxMod
      /\ DOMAIN st.ring.sq = 0 .. Entries - 1
      /\ \A i \in H .. P - 1 : st.ring.sq[i % Entries].data = i + 1
      /\ pc = "pushing" => P < H + Entries /\ st.ring.sq[P % Entries].data = P + 1
  BY Zenon DEF SqAt
<1>7. ASSUME NEW j \in 1 .. Len(order) PROVE Dat(st.ring, order[j]) \in Int /\ Dat(st.ring, order[j]) =< L
  <2>1. PICK i \in H .. L - 1 : order[j] = i % IdxMod
    BY Zenon
  <2>2. i \in H .. P - 1 /\ i + 1 =< L /\ i \in Int
    BY <1>6
  <2>3. Dat(st.ring, i % IdxMod) = i + 1
    BY <2>2, DatAt, Zenon
  <2> QED
    BY <2>1, <2>2, <2>3
<1>8. \A k \in DOMAIN f.ran : f.ran[k] =< L
  BY <1>3, <1>4, <1>7, Zenon DEF Known
<1>9. CASE e.ring.locked = NoTaskWaits /\ e.ring.sq_head = tail
  <2>1. SqAt(f.ring, pc, P, L)
    <3>1. P =< L + Entries /\ (pc = "pushing" => P < L + Entries)
      BY <1>0, <1>6
    <3>2. \A i \in L .. P - 1 : i \in H .. P - 1
      BY <1>6
    <3> QED
      BY <1>1, <1>3, <1>4, <1>6, <1>9, <3>1, <3>2, Zenon DEF SqAt
  <2>2. Lock(f, L, L)
    BY <1>4, <1>9, Zenon DEF Lock
  <2>3. SideAt(f, pc, P, L, L)
    BY <1>6, <1>8, <2>1, <2>2 DEF SideAt
  <2> QED
    BY <1>4, <1>5, <2>3, Zenon
<1>10. ASSUME NEW R \in Seq(Nat), R # <<>>, e.ring.locked = [task |-> task, rest |-> R, tail |-> tail],
              e.ring.sq_head = st.ring.sq_head, Fresh(e, R),
              \A j \in 1 .. Len(R) : \E k \in 1 .. Len(order) : R[j] = order[k]
       PROVE  SideAt(f, pc, P, H, L)
  <2>1. SqAt(f.ring, pc, P, H)
    BY <1>3, <1>4, <1>6, <1>10, Zenon DEF SqAt
  <2>2. Fresh(f, R)
    <3>1. \A i : Dat(f.ring, i) = Dat(e.ring, i)
      BY <1>4, Zenon
    <3> QED
      BY <1>4, <1>10, <3>1, Zenon DEF Fresh
  <2>3. \A j \in 1 .. Len(R) : \E i \in H .. L - 1 : R[j] = i % IdxMod
    BY <1>10, Zenon
  <2>4. f.ring.locked = [task |-> task, rest |-> R, tail |-> L % IdxMod]
    BY <1>1, <1>4, <1>10, Zenon
  <2>5. Lock(f, H, L)
    <3>1. LockAt(f, H, L, task, R)
      BY <1>10, <2>2, <2>3, <2>4, Zenon DEF LockAt
    <3> QED
      BY <3>1, Zenon DEF Lock
  <2> QED
    BY <1>6, <1>8, <2>1, <2>5, Zenon DEF SideAt
<1>11. CASE \E R \in Seq(Nat) :
          /\ R # <<>> /\ e.ring.locked = [task |-> task, rest |-> R, tail |-> tail]
          /\ e.ring.sq_head = st.ring.sq_head /\ Fresh(e, R)
          /\ \A j \in 1 .. Len(R) : \E k \in 1 .. Len(order) : R[j] = order[k]
  BY <1>4, <1>5, <1>10, <1>11, Zenon
<1> QED
  BY <1>2, <1>9, <1>11, Zenon DEF Ended

\* The request that waited, answered; those behind it are fresh.
LEMMA AnswerKeeps ==
  ASSUME Regular, NEW st, NEW pc, NEW ans, NEW P, NEW H, NEW L, NEW R, Ready(st, pc, ans, P, H, L, R), R # <<>>,
         NEW ret, NEW e, e = Answer(st, Head(R), ret)
  PROVE  Ready(e, pc, ans, P, H, L, Tail(R))
<1> USE DEF Ready
<1>1. PICK first, T, n : first = Head(R) /\ T = Tail(R) /\ n = Len(R)
  BY Zenon
<1>2. n \in Nat \ {0} /\ first = R[1]
  BY <1>1, EmptySeq, LenProperties
<1>3. T \in Seq(Nat) /\ Len(T) = n - 1 /\ \A j \in 1 .. n - 1 : T[j] = R[j + 1]
  BY <1>1, <1>2, HeadTailProperties, Zenon
<1>4. PICK x : x = Dat(st.ring, first)
  BY Zenon
<1>5. x \in Nat /\ \A b \in DOMAIN st.ran : st.ran[b] # x
  BY <1>1, <1>2, <1>4 DEF Fresh
<1>6. Answered(st, e, first, pc, ans)
  <2>1. e = Answer(st, first, ret) /\ Dat(st.ring, first) \in Nat
        /\ \A b \in DOMAIN st.ran : st.ran[b] # Dat(st.ring, first)
    BY <1>1, <1>4, <1>5, Zenon
  <2> QED
    BY <2>1, AnswerSound, Zenon
<1>7. Sound(e, pc, ans) /\ e.ran = Append(st.ran, x) /\ SameSq(st.ring, e.ring) /\ e.rest = <<>>
  BY <1>4, <1>6, Zenon DEF Answered
<1>8. SqAt(e.ring, pc, P, H)
  BY <1>7, Zenon DEF SqAt, SameSq
<1>9. PICK s, t : s = st.ran /\ t = e.ran
  BY Zenon
<1>10. s \in Seq(Nat)
  BY <1>9, Zenon DEF Sound
<1>11. /\ t \in Seq(Nat) /\ Len(t) = Len(s) + 1 /\ t[Len(s) + 1] = x
       /\ \A a \in 1 .. Len(s) : t[a] = s[a]
  BY <1>5, <1>7, <1>9, <1>10, AppendProperties
<1>12. DOMAIN t = 1 .. Len(s) + 1 /\ DOMAIN s = 1 .. Len(s) /\ Len(s) \in Nat
  BY <1>10, <1>11, LenProperties, Zenon
<1>13. x =< L
  <2>0. 1 \in 1 .. Len(R)
    BY <1>1, <1>2
  <2>1. PICK i \in H .. L - 1 : first = i % IdxMod
    BY <1>2, <2>0, Zenon
  <2>2. H \in Nat /\ P \in Nat
    BY Zenon DEF SqAt
  <2>3. i \in H .. P - 1 /\ i + 1 =< L
    BY <2>2
  <2>4. Dat(st.ring, i % IdxMod) = i + 1
    BY <2>3, DatAt, Zenon
  <2> QED
    BY <1>4, <2>1, <2>3, <2>4, Zenon
<1>14. \A k \in DOMAIN e.ran : e.ran[k] =< L
  <2> SUFFICES ASSUME NEW k \in DOMAIN t PROVE t[k] =< L
    BY <1>9, Zenon
  <2>1. CASE k = Len(s) + 1
    BY <1>11, <1>13, <2>1, Zenon
  <2>2. CASE k # Len(s) + 1
    <3>1. k \in DOMAIN s /\ t[k] = s[k]
      BY <1>11, <1>12, <2>2
    <3> QED
      BY <1>9, <3>1, Zenon
  <2> QED
    BY <2>1, <2>2, Zenon
<1>15. \A i : Dat(e.ring, i) = Dat(st.ring, i)
  BY <1>7, Zenon DEF SameSq, Dat
<1>16. ASSUME NEW j \in 1 .. n - 1 PROVE j + 1 \in 1 .. n /\ j + 1 # 1 /\ T[j] = R[j + 1]
  BY <1>2, <1>3
<1>17. \A i, j \in 1 .. n : Dat(st.ring, R[i]) = Dat(st.ring, R[j]) => i = j
  BY <1>1, Zenon DEF Fresh
<1>18. ASSUME NEW j \in 1 .. n - 1
       PROVE  /\ Dat(e.ring, T[j]) \in Nat
              /\ \A b \in DOMAIN t : t[b] # Dat(e.ring, T[j])
  <2>1. Dat(e.ring, T[j]) = Dat(st.ring, R[j + 1])
    BY <1>15, <1>16, Zenon
  <2>2. Dat(st.ring, R[j + 1]) \in Nat /\ \A b \in DOMAIN s : s[b] # Dat(st.ring, R[j + 1])
    BY <1>1, <1>9, <1>16, Zenon DEF Fresh
  <2>3. x # Dat(st.ring, R[j + 1])
    <3>1. 1 \in 1 .. n
      BY <1>2
    <3> QED
      BY <1>2, <1>4, <1>16, <1>17, <3>1, Zenon
  <2>4. ASSUME NEW b \in DOMAIN t PROVE t[b] # Dat(st.ring, R[j + 1])
    <3>1. CASE b = Len(s) + 1
      BY <1>11, <2>3, <3>1, Zenon
    <3>2. CASE b # Len(s) + 1
      <4>1. b \in DOMAIN s /\ t[b] = s[b]
        BY <1>11, <1>12, <3>2
      <4> QED
        BY <2>2, <4>1, Zenon
    <3> QED
      BY <3>1, <3>2, Zenon
  <2> QED
    BY <2>1, <2>2, <2>4, Zenon
<1>19. ASSUME NEW i \in 1 .. n - 1, NEW j \in 1 .. n - 1, Dat(e.ring, T[i]) = Dat(e.ring, T[j]) PROVE i = j
  <2>1. Dat(st.ring, R[i + 1]) = Dat(st.ring, R[j + 1]) /\ i + 1 \in 1 .. n /\ j + 1 \in 1 .. n
    BY <1>15, <1>16, <1>19, Zenon
  <2>2. i + 1 = j + 1
    BY <1>17, <2>1, Zenon
  <2> QED
    BY <2>2
<1>20. Fresh(e, T)
  BY <1>3, <1>9, <1>18, <1>19, Zenon DEF Fresh
<1>21. \A j \in 1 .. Len(T) : \E i \in H .. L - 1 : T[j] = i % IdxMod
  BY <1>1, <1>3, <1>16, Zenon
<1> QED
  BY <1>1, <1>3, <1>7, <1>8, <1>14, <1>20, <1>21, Zenon

\* Sound looks at the completion side only, and at the pc only for a pop.
LEMMA SoundStep ==
  ASSUME NEW st, NEW pc, NEW ans, Sound(st, pc, ans), NEW pc2,
         pc = "popping" <=> pc2 = "popping", NEW r, RingShape(r),
         r.cq = st.ring.cq, r.cq_head = st.ring.cq_head, r.cq_tail = st.ring.cq_tail,
         NEW e, e = [fs |-> st.fs, ring |-> r, ran |-> st.ran, rest |-> st.rest]
  PROVE  Sound(e, pc2, ans)
<1>1. Sound(e, pc, ans)
  BY SoundRing, Zenon
<1>2. \A q : Deliv(q, pc, ans) = Deliv(q, pc2, ans)
  BY Zenon DEF Deliv
<1>3. \A q, G, Q : CqRoom(q, pc, G, Q) => CqRoom(q, pc2, G, Q)
  BY Zenon DEF CqRoom
<1> QED
  BY <1>1, <1>2, <1>3, Zenon DEF Sound

\* push_sqe's write.
LEMMA PushWriteKeeps ==
  ASSUME Regular, NEW st, NEW pc, NEW P, NEW H, NEW L, SideAt(st, pc, P, H, L), RingShape(st.ring),
         Distance(st.ring.sq_head, st.ring.sq_tail) < Entries,
         NEW v, v.data = P + 1, NEW r, r = [st.ring EXCEPT !.sq[Slot(st.ring.sq_tail)] = v],
         NEW e, e.ring = r, e.ran = st.ran
  PROVE  /\ RingShape(r) /\ SideAt(e, "pushing", P, H, L)
         /\ r.cq = st.ring.cq /\ r.cq_head = st.ring.cq_head /\ r.cq_tail = st.ring.cq_tail
<1>0. Entries \in Nat \ {0} /\ IdxMod \in Nat \ {0} /\ IdxMod > Entries
  BY RingFacts
<1>1. PICK o, x : o = st.ring /\ x = Slot(o.sq_tail)
  BY Zenon
<1>2. /\ H \in Nat /\ P \in Nat /\ H =< P /\ P =< H + Entries
      /\ o.sq_head = H % IdxMod /\ o.sq_tail = P % IdxMod
      /\ DOMAIN o.sq = 0 .. Entries - 1
      /\ \A i \in H .. P - 1 : o.sq[i % Entries].data = i + 1
      /\ L \in Nat /\ H =< L /\ L =< P /\ Lock(st, H, L)
      /\ \A k \in DOMAIN st.ran : st.ran[k] =< L
  BY <1>1, Zenon DEF SideAt, SqAt
<1>3. o = [sq |-> o.sq, sq_head |-> o.sq_head, sq_tail |-> o.sq_tail,
           cq |-> o.cq, cq_head |-> o.cq_head, cq_tail |-> o.cq_tail,
           chain_result |-> o.chain_result, fixed_files |-> o.fixed_files,
           bufs |-> o.bufs, locked |-> o.locked]
  BY <1>1, Zenon DEF RingShape
<1>4. PICK sq : sq = [o.sq EXCEPT ![x] = v]
  BY Zenon
<1>5. r = [sq |-> sq, sq_head |-> o.sq_head, sq_tail |-> o.sq_tail,
           cq |-> o.cq, cq_head |-> o.cq_head, cq_tail |-> o.cq_tail,
           chain_result |-> o.chain_result, fixed_files |-> o.fixed_files,
           bufs |-> o.bufs, locked |-> o.locked]
  <2>1. r = [o EXCEPT !.sq = [o.sq EXCEPT ![x] = v]]
    BY <1>1, Zenon
  <2>2. r = [o EXCEPT !.sq = sq]
    BY <1>4, <2>1, Zenon
  <2> QED
    BY <1>3, <2>2, Zenon
<1>6. /\ r.sq = sq /\ r.sq_head = o.sq_head /\ r.sq_tail = o.sq_tail /\ r.locked = o.locked
      /\ r.cq = o.cq /\ r.cq_head = o.cq_head /\ r.cq_tail = o.cq_tail /\ RingShape(r)
  BY <1>5 DEF RingShape
<1>7. x = P % Entries /\ x \in 0 .. Entries - 1
  BY <1>1, <1>2, IndexSlot, Zenon
<1>8. P < H + Entries
  <2>1. P < H + IdxMod
    BY <1>0, <1>2
  <2>2. Distance(H % IdxMod, P % IdxMod) = P - H
    BY <1>2, <2>1, IndexDistance, Zenon
  <2>3. P - H < Entries
    BY <1>1, <1>2, <2>2, Zenon
  <2> QED
    BY <1>0, <1>2, <2>3
<1>9. sq[x] = v /\ DOMAIN sq = 0 .. Entries - 1 /\ \A y \in 0 .. Entries - 1 : y # x => sq[y] = o.sq[y]
  BY <1>2, <1>4, <1>7, Zenon
<1>10. ASSUME NEW i \in H .. P - 1 PROVE sq[i % Entries] = o.sq[i % Entries] /\ i \in Nat
  <2>1. i \in Int /\ P \in Int /\ i < P /\ P - i < Entries /\ i \in Nat
    BY <1>0, <1>2, <1>8
  <2>2. i % Entries # P % Entries
    BY <1>0, <2>1, ModApart, Zenon
  <2>3. i % Entries \in 0 .. Entries - 1
    BY <2>1, IndexSlot, Zenon
  <2> QED
    BY <1>7, <1>9, <2>1, <2>2, <2>3, Zenon
<1>11. SqAt(r, "pushing", P, H)
  <2>1. \A i \in H .. P - 1 : r.sq[i % Entries].data = i + 1
    BY <1>2, <1>6, <1>10, Zenon
  <2>2. r.sq[P % Entries].data = P + 1
    BY <1>6, <1>7, <1>9, Zenon
  <2> QED
    BY <1>2, <1>6, <1>8, <1>9, <2>1, <2>2, Zenon DEF SqAt
<1>12. ASSUME NEW task, NEW R, LockAt(st, H, L, task, R) PROVE LockAt(e, H, L, task, R)
  <2>1. /\ R \in Seq(Nat) /\ R # <<>> /\ Fresh(st, R)
        /\ o.locked = [task |-> task, rest |-> R, tail |-> L % IdxMod]
        /\ \A j \in 1 .. Len(R) : \E i \in H .. L - 1 : R[j] = i % IdxMod
    BY <1>1, <1>12, Zenon DEF LockAt
  <2>2. ASSUME NEW j \in 1 .. Len(R) PROVE Dat(e.ring, R[j]) = Dat(st.ring, R[j])
    <3>1. PICK i \in H .. L - 1 : R[j] = i % IdxMod
      BY <2>1, Zenon
    <3>2. i \in H .. P - 1
      BY <1>2
    <3>3. i \in Nat /\ sq[i % Entries] = o.sq[i % Entries]
      BY <1>10, <3>2, Zenon
    <3>4. Slot(R[j]) = i % Entries
      BY <3>1, <3>3, IndexSlot, Zenon
    <3> QED
      BY <1>1, <1>6, <3>3, <3>4, Zenon DEF Dat
  <2>3. Fresh(e, R)
    BY <2>1, <2>2, Zenon DEF Fresh
  <2>4. e.ring.locked = o.locked
    BY <1>6, Zenon
  <2> QED
    BY <2>1, <2>3, <2>4, Zenon DEF LockAt
<1>13. Lock(e, H, L)
  <2>1. e.ring.locked = st.ring.locked
    BY <1>1, <1>6, Zenon
  <2> QED
    BY <1>2, <1>12, <2>1, Zenon DEF Lock
<1>14. SideAt(e, "pushing", P, H, L)
  BY <1>2, <1>11, <1>13, Zenon DEF SideAt
<1> QED
  BY <1>1, <1>6, <1>14, Zenon

\* push_sqe's tail.
LEMMA PushTailKeeps ==
  ASSUME NEW st, NEW P, NEW H, NEW L, SideAt(st, "pushing", P, H, L), RingShape(st.ring),
         NEW r, r = [st.ring EXCEPT !.sq_tail = Advance(@)],
         NEW e, e.ring = r, e.ran = st.ran
  PROVE  /\ RingShape(r) /\ SideAt(e, "idle", P + 1, H, L)
         /\ r.cq = st.ring.cq /\ r.cq_head = st.ring.cq_head /\ r.cq_tail = st.ring.cq_tail
<1>0. Entries \in Nat \ {0} /\ IdxMod \in Nat \ {0} /\ IdxMod > Entries
  BY RingFacts
<1>1. PICK o, t : o = st.ring /\ t = Advance(o.sq_tail)
  BY Zenon
<1>2. /\ H \in Nat /\ P \in Nat /\ H =< P /\ P < H + Entries
      /\ o.sq_head = H % IdxMod /\ o.sq_tail = P % IdxMod
      /\ DOMAIN o.sq = 0 .. Entries - 1
      /\ \A i \in H .. P - 1 : o.sq[i % Entries].data = i + 1
      /\ o.sq[P % Entries].data = P + 1
      /\ L \in Nat /\ H =< L /\ L =< P /\ Lock(st, H, L)
      /\ \A k \in DOMAIN st.ran : st.ran[k] =< L
  BY <1>1, Zenon DEF SideAt, SqAt
<1>3. o = [sq |-> o.sq, sq_head |-> o.sq_head, sq_tail |-> o.sq_tail,
           cq |-> o.cq, cq_head |-> o.cq_head, cq_tail |-> o.cq_tail,
           chain_result |-> o.chain_result, fixed_files |-> o.fixed_files,
           bufs |-> o.bufs, locked |-> o.locked]
  BY <1>1, Zenon DEF RingShape
<1>4. r = [sq |-> o.sq, sq_head |-> o.sq_head, sq_tail |-> t,
           cq |-> o.cq, cq_head |-> o.cq_head, cq_tail |-> o.cq_tail,
           chain_result |-> o.chain_result, fixed_files |-> o.fixed_files,
           bufs |-> o.bufs, locked |-> o.locked]
  <2>1. r = [o EXCEPT !.sq_tail = t]
    BY <1>1, Zenon
  <2> QED
    BY <1>3, <2>1, Zenon
<1>5. /\ r.sq = o.sq /\ r.sq_head = o.sq_head /\ r.sq_tail = t /\ r.locked = o.locked
      /\ r.cq = o.cq /\ r.cq_head = o.cq_head /\ r.cq_tail = o.cq_tail /\ RingShape(r)
  BY <1>4 DEF RingShape
<1>6. t = (P + 1) % IdxMod
  <2>1. ((P % IdxMod) + 1) % IdxMod = (P + 1) % IdxMod
    BY <1>2, IndexPlus, Zenon
  <2> QED
    BY <1>1, <1>2, <2>1, Zenon DEF Advance
<1>7. SqAt(r, "idle", P + 1, H)
  <2>1. ASSUME NEW i \in H .. (P + 1) - 1 PROVE r.sq[i % Entries].data = i + 1
    <3>1. CASE i = P
      BY <1>2, <1>5, <3>1, Zenon
    <3>2. CASE i # P
      <4>1. i \in H .. P - 1
        BY <1>2, <3>2
      <4> QED
        BY <1>2, <1>5, <4>1, Zenon
    <3> QED
      BY <3>1, <3>2, Zenon
  <2>2. P + 1 \in Nat /\ H =< P + 1 /\ P + 1 =< H + Entries
    BY <1>0, <1>2
  <2> QED
    BY <1>2, <1>5, <1>6, <2>1, <2>2, Zenon DEF SqAt
<1>8. \A i : Dat(e.ring, i) = Dat(st.ring, i)
  BY <1>1, <1>5, Zenon DEF Dat
<1>9. \A R : Fresh(st, R) => Fresh(e, R)
  BY <1>8, Zenon DEF Fresh
<1>10. e.ring.locked = st.ring.locked
  BY <1>1, <1>5, Zenon
<1>11. \A task, R : LockAt(st, H, L, task, R) => LockAt(e, H, L, task, R)
  BY <1>9, <1>10, Zenon DEF LockAt
<1>12. Lock(e, H, L)
  BY <1>2, <1>10, <1>11, Zenon DEF Lock
<1>13. L =< P + 1
  BY <1>2
<1>14. SideAt(e, "idle", P + 1, H, L)
  BY <1>2, <1>7, <1>12, <1>13, Zenon DEF SideAt
<1> QED
  BY <1>1, <1>5, <1>14, Zenon

\* The first entry moved to the end of another sequence.
LEMMA MoveFirst ==
  ASSUME NEW S, NEW s \in Seq(S), NEW c \in Seq(S), c # <<>>
  PROVE  Append(s, c[1]) \o Tail(c) = s \o c
<1>1. PICK x, t, one : x = c[1] /\ t = Tail(c) /\ one = <<x>>
  BY Zenon
<1>2. Len(c) \in Nat \ {0}
  BY EmptySeq, LenProperties, Zenon
<1>3. x \in S
  BY <1>1, <1>2, ElementOfSeq
<1>4. t \in Seq(S) /\ Len(t) = Len(c) - 1 /\ \A i \in 1 .. Len(t) : t[i] = c[i + 1]
  BY <1>1, <1>2, HeadTailProperties, Zenon
<1>5. one \in Seq(S) /\ Len(one) = 1 /\ one[1] = x
  BY <1>1, <1>3
<1>6. PICK d : d = one \o t
  BY Zenon
<1>7. /\ d \in Seq(S) /\ Len(d) = Len(one) + Len(t)
      /\ \A i \in 1 .. Len(one) + Len(t) : d[i] = IF i <= Len(one) THEN one[i] ELSE t[i - Len(one)]
  BY <1>4, <1>5, <1>6, ConcatProperties, ZenonT(40)
<1>8. Len(c) \in Nat /\ Len(t) \in Nat
  BY <1>4, LenProperties, Zenon
<1>9. ASSUME NEW i \in 1 .. Len(c) PROVE c[i] = d[i]
  <2>1. CASE i = 1
    BY <1>1, <1>4, <1>5, <1>7, <1>8, <2>1
  <2>2. CASE i # 1
    <3>1. /\ i \in 1 .. Len(one) + Len(t) /\ ~(i <= Len(one))
          /\ i - Len(one) \in 1 .. Len(t) /\ (i - Len(one)) + 1 = i
      BY <1>4, <1>5, <1>8, <2>2
    <3> QED
      BY <1>4, <1>7, <3>1, Zenon
  <2> QED
    BY <2>1, <2>2, Zenon
<1>10. Len(d) = Len(c)
  BY <1>4, <1>5, <1>7, <1>8
<1>11. c = d
  BY <1>7, <1>9, <1>10, SeqEqual, Zenon
<1>12. Append(s, x) = s \o one
  BY <1>1, <1>3, AppendIsConcat, Zenon
<1>13. (s \o one) \o t = s \o (one \o t)
  BY <1>4, <1>5, ConcatAssociative, SMTT(30)
<1> QED
  BY <1>1, <1>6, <1>11, <1>12, <1>13, Zenon

\* pop_cqe's read: what it takes is at the head of those that wait.
LEMMA PopReadKeeps ==
  ASSUME Regular, NEW st, NEW pc, pc # "popping", NEW ans, Sound(st, pc, ans),
         st.ring.cq_head # st.ring.cq_tail,
         NEW a, a = Append(ans, st.ring.cq[Slot(st.ring.cq_head)].data)
  PROVE  Sound(st, "popping", a)
<1>1. PICK G, Q : CqRoom(st.ring, pc, G, Q)
  BY Zenon DEF Sound
<1>2. PICK r, c, x : r = st.ring /\ c = Completions(r) /\ x = r.cq[Slot(r.cq_head)].data
  BY Zenon
<1>3. CqAt(r, G, Q)
  BY <1>1, <1>2, Zenon DEF CqRoom
<1>4. G \in Nat /\ Q \in Nat /\ G =< Q /\ r.cq_head = G % IdxMod /\ r.cq_tail = Q % IdxMod
  BY <1>3, Zenon DEF CqAt
<1>5. G < Q
  <2>1. G # Q
    BY <1>2, <1>4, Zenon
  <2> QED
    BY <1>4, <2>1
<1>6. c \in Seq(Nat) /\ Len(c) = Q - G /\ \A k \in 1 .. Q - G : c[k] = r.cq[(G + (k - 1)) % Entries].data
  <2>1. CqView(r, G, Q)
    BY <1>3, CompletionsAre, Zenon
  <2> QED
    BY <1>2, <2>1, Zenon DEF CqView
<1>7. c # <<>> /\ 1 \in 1 .. Q - G /\ G + (1 - 1) = G
  BY <1>4, <1>5, <1>6
<1>8. c[1] = x
  <2>1. c[1] = r.cq[(G + (1 - 1)) % Entries].data
    BY <1>6, <1>7, Zenon
  <2>2. Slot(r.cq_head) = G % Entries
    BY <1>4, IndexSlot, Zenon
  <2> QED
    BY <1>2, <1>7, <2>1, <2>2, Zenon
<1>9. PICK t : t = Tail(c)
  BY Zenon
<1>11. ans \in Seq(Nat)
  BY Zenon DEF Sound
<1>12. a \in Seq(Nat) /\ a = Append(ans, c[1])
  <2>1. a = Append(ans, x)
    BY <1>2, Zenon
  <2>2. x \in Nat
    BY <1>6, <1>7, <1>8, ElementOfSeq, Zenon
  <2> QED
    BY <1>8, <1>11, <2>1, <2>2, AppendProperties
<1>13. a \o t = ans \o c
  BY <1>6, <1>7, <1>9, <1>11, <1>12, MoveFirst, Zenon
<1>14. Deliv(st.ring, "popping", a) = Deliv(st.ring, pc, ans)
  BY <1>2, <1>9, <1>13, Zenon DEF Deliv
<1>15. CqRoom(st.ring, "popping", G, Q)
  BY <1>2, <1>3, <1>5, Zenon DEF CqRoom
<1> QED
  BY <1>12, <1>14, <1>15, Zenon DEF Sound

\* pop_cqe's head.
LEMMA PopHeadKeeps ==
  ASSUME Regular, NEW st, NEW ans, Sound(st, "popping", ans),
         NEW r, r = [st.ring EXCEPT !.cq_head = Advance(@)],
         NEW e, e = [fs |-> st.fs, ring |-> r, ran |-> st.ran, rest |-> st.rest]
  PROVE  SameSq(st.ring, r) /\ Sound(e, "idle", ans)
<1>1. PICK G, Q : CqRoom(st.ring, "popping", G, Q)
  BY Zenon DEF Sound
<1>2. CqAt(st.ring, G, Q) /\ G < Q /\ RingShape(st.ring)
  BY <1>1, Zenon DEF CqRoom, Sound
<1>3. RingShape(r) /\ SameSq(st.ring, r) /\ CqAt(r, G + 1, Q) /\ Completions(r) = Tail(Completions(st.ring))
  BY <1>2, PopCqe, Zenon
<1>4. Deliv(r, "idle", ans) = Deliv(st.ring, "popping", ans)
  BY <1>3, Zenon DEF Deliv
<1>5. CqRoom(r, "idle", G + 1, Q)
  BY <1>3, Zenon DEF CqRoom
<1>6. e.fs = st.fs /\ e.ring = r /\ e.ran = st.ran /\ e.rest = st.rest
  BY Zenon
<1>7. \E G2, Q2 : CqRoom(r, "idle", G2, Q2)
  BY <1>5, Zenon
<1> QED
  BY <1>3, <1>4, <1>6, <1>7, Zenon DEF Sound

\* The inductive invariant.
UringInv == UInv(Now, program, answered)

\* It holds of a ring just set up.
LEMMA UringStarts ==
  ASSUME Regular, UringInit
  PROVE  UringInv
<1>0. Entries \in Nat \ {0} /\ IdxMod \in Nat \ {0}
  BY RingFacts
<1>1. /\ RingShape(ring) /\ ring.sq_head = 0 /\ ring.sq_tail = 0 /\ ring.cq_head = 0 /\ ring.cq_tail = 0
      /\ DOMAIN ring.sq = 0 .. Entries - 1 /\ ring.locked = NoTaskWaits
      /\ ring.cq = [i \in 0 .. Entries - 1 |-> [data |-> 0, result |-> 0]]
  BY Zenon DEF UringInit, RingShape
<1>2. program.pc = "idle" /\ program.pushed = 0 /\ program = [pc |-> program.pc, pushed |-> program.pushed]
      /\ ran = <<>> /\ answered = <<>>
  BY Zenon DEF UringInit
<1>3. 0 % IdxMod = 0
  BY <1>0, ModSmall
<1>4. CqAt(ring, 0, 0)
  BY <1>0, <1>1, <1>3 DEF CqAt
<1>5. Completions(ring) \in Seq(Nat) /\ Len(Completions(ring)) = 0
  <2>1. CqView(ring, 0, 0)
    BY <1>4, CompletionsAre, Zenon
  <2> QED
    BY <2>1 DEF CqView
<1>6. Completions(ring) = <<>>
  BY <1>5, EmptySeq, Zenon
<1>7. Deliv(ring, "idle", <<>>) = <<>>
  BY <1>6 DEF Deliv
<1>8. Now.ring = ring /\ Now.ran = <<>> /\ Now.rest = <<>> /\ Now.fs = files
  BY <1>2, Zenon DEF Now
<1>9. Now = [fs |-> Now.fs, ring |-> Now.ring, ran |-> Now.ran, rest |-> Now.rest]
  BY <1>8, <1>2, Zenon DEF Now
<1>10. Sound(Now, "idle", <<>>)
  <2>1. CqRoom(ring, "idle", 0, 0)
    BY <1>4, Zenon DEF CqRoom
  <2>2. \E G, Q : CqRoom(ring, "idle", G, Q)
    BY <2>1, Zenon
  <2>3. <<>> \in Seq(Nat) /\ Once(<<>>) /\ InOrder(<<>>, <<>>)
    BY DEF Once, InOrder
  <2> QED
    BY <1>1, <1>7, <1>8, <1>9, <2>2, <2>3, Zenon DEF Sound
<1>11. SideAt(Now, "idle", 0, 0, 0)
  <2>1. SqAt(ring, "idle", 0, 0)
    BY <1>0, <1>1, <1>3 DEF SqAt
  <2>2. Lock(Now, 0, 0)
    BY <1>1, <1>8, Zenon DEF Lock
  <2>3. \A k \in DOMAIN <<>> : Now.ran[k] =< 0
    OBVIOUS
  <2> QED
    BY <1>8, <2>1, <2>2, <2>3 DEF SideAt
<1>12. PushedTo(program) = 0
  BY <1>2, Zenon DEF PushedTo
<1> QED
  BY <1>2, <1>8, <1>10, <1>11, <1>12 DEF UringInv, UInv

\* The size of the ring does not change, and so neither does what the invariant
\* says of a state of the queues.
LEMMA SizeKept ==
  ASSUME asked' = asked, NEW st, NEW pr, NEW ans, UInv(st, pr, ans)
  PROVE  UInv(st, pr, ans)'
<1>1. Entries' = Entries
  BY Zenon DEF Entries
<1>2. \A i : Slot(i)' = Slot(i)
  BY <1>1, Zenon DEF Slot
<1>3. \A r : Completions(r)' = Completions(r)
  BY <1>1 DEF Completions, Slot
<1>4. \A r, pc : Deliv(r, pc, ans)' = Deliv(r, pc, ans)
  BY <1>3, Zenon DEF Deliv
<1>5. \A r, G, Q : CqAt(r, G, Q)' <=> CqAt(r, G, Q)
  BY <1>1, Zenon DEF CqAt
<1>6. \A r, pc, G, Q : CqRoom(r, pc, G, Q)' <=> CqRoom(r, pc, G, Q)
  BY <1>5, Zenon DEF CqRoom
<1>7. \A pc : Sound(st, pc, ans)' <=> Sound(st, pc, ans)
  BY <1>4, <1>6, Zenon DEF Sound
<1>8. \A r, i : Dat(r, i)' = Dat(r, i)
  BY <1>2, Zenon DEF Dat
<1>9. \A order : Fresh(st, order)' <=> Fresh(st, order)
  BY <1>8, Zenon DEF Fresh
<1>10. \A H, L, task, R : LockAt(st, H, L, task, R)' <=> LockAt(st, H, L, task, R)
  BY <1>9, Zenon DEF LockAt
<1>11. \A H, L : Lock(st, H, L)' <=> Lock(st, H, L)
  BY <1>10, Zenon DEF Lock
<1>12. \A r, pc, P, H : SqAt(r, pc, P, H)' <=> SqAt(r, pc, P, H)
  BY <1>1 DEF SqAt
<1>13. \A pc, P, H, L : SideAt(st, pc, P, H, L)' <=> SideAt(st, pc, P, H, L)
  BY <1>11, <1>12, Zenon DEF SideAt
<1>14. PICK H, L : SideAt(st, pr.pc, PushedTo(pr), H, L)
  BY Zenon DEF UInv
<1>15. SideAt(st, pr.pc, PushedTo(pr), H, L)'
  BY <1>13, <1>14, Zenon
<1>16. Sound(st, pr.pc, ans)'
  BY <1>7, Zenon DEF UInv
<1>17. pr = [pc |-> pr.pc, pushed |-> pr.pushed] /\ pr.pushed \in Nat /\ st.rest = <<>>
  BY Zenon DEF UInv
<1> QED
  BY <1>15, <1>16, <1>17, Zenon DEF UInv

\* Every step keeps it.
LEMMA UringKeeps ==
  ASSUME Regular, UringInv, [UringNext]_uringVars
  PROVE  UringInv'
<1>1. PICK n, n2, p, p2, a, a2, r, r2 :
         /\ n = Now /\ n2 = Now' /\ p = program /\ p2 = program' /\ a = answered /\ a2 = answered'
         /\ r = ring /\ r2 = ring'
  BY Zenon
<1>0. asked' = asked
  BY Zenon DEF UringNext, RingStep, PushOver, CallSpins, PagesChange, setVars, ringVars, uringVars
<1>2. SUFFICES UInv(n2, p2, a2)
  <2>1. UInv(n2, p2, a2)'
    BY <1>0, <1>2, SizeKept, Zenon
  <2> QED
    BY <1>1, <2>1, Zenon DEF UringInv
<1>3. /\ n = [fs |-> files, ring |-> r, ran |-> ran, rest |-> <<>>]
      /\ n2 = [fs |-> files', ring |-> r2, ran |-> ran', rest |-> <<>>]
  BY <1>1, Zenon DEF Now
<1>4. UInv(n, p, a)
  BY <1>1, Zenon DEF UringInv
<1>5. p = [pc |-> p.pc, pushed |-> p.pushed] /\ p.pushed \in Nat /\ Sound(n, p.pc, a)
  BY <1>4, Zenon DEF UInv
<1>6. PICK P, H, L : P = PushedTo(p) /\ SideAt(n, p.pc, P, H, L)
  BY <1>4, Zenon DEF UInv
<1>7. /\ n.fs = files /\ n.ring = r /\ n.ran = ran /\ n.rest = <<>>
      /\ n2.fs = files' /\ n2.ring = r2 /\ n2.ran = ran' /\ n2.rest = <<>>
  BY <1>3, Zenon
<1>8. RingShape(r)
  BY <1>5, <1>7, Zenon DEF Sound
<1>9. \A H2, L2 : /\ p2 = [pc |-> p2.pc, pushed |-> p2.pushed] /\ p2.pushed \in Nat
                  /\ Sound(n2, p2.pc, a2) /\ SideAt(n2, p2.pc, PushedTo(p2), H2, L2)
                  => UInv(n2, p2, a2)
  BY <1>7, Zenon DEF UInv
<1>10. CASE PushWrite
  <2>1. /\ p.pc = "idle" /\ Distance(r.sq_head, r.sq_tail) < Entries
        /\ p2 = [pc |-> "pushing", pushed |-> p.pushed + 1]
        /\ a2 = a /\ ran' = ran /\ files' = files
    BY <1>1, <1>10, Zenon DEF PushWrite, MayPush, ProgramRuns
  <2>2. PICK request : r2 = [r EXCEPT !.sq[Slot(r.sq_tail)] = [request |-> request, data |-> p.pushed + 1]]
    BY <1>1, <1>10, Zenon DEF PushWrite
  <2>3. PICK v : v = [request |-> request, data |-> p.pushed + 1]
    BY Zenon
  <2>4. P = p.pushed /\ v.data = P + 1
    BY <1>6, <2>1, <2>3, Zenon DEF PushedTo
  <2>5. r2 = [n.ring EXCEPT !.sq[Slot(n.ring.sq_tail)] = v] /\ n2.ran = n.ran
        /\ Distance(n.ring.sq_head, n.ring.sq_tail) < Entries /\ RingShape(n.ring)
    BY <1>7, <1>8, <2>1, <2>2, <2>3, Zenon
  <2>6. /\ RingShape(r2) /\ SideAt(n2, "pushing", P, H, L)
        /\ r2.cq = n.ring.cq /\ r2.cq_head = n.ring.cq_head /\ r2.cq_tail = n.ring.cq_tail
    BY <1>6, <1>7, <2>4, <2>5, PushWriteKeeps
  <2>7. p2.pc = "pushing" /\ p2.pushed = p.pushed + 1 /\ p2 = [pc |-> p2.pc, pushed |-> p2.pushed]
        /\ p2.pushed \in Nat
    BY <1>5, <2>1
  <2>8. PushedTo(p2) = P
    BY <1>5, <2>4, <2>7 DEF PushedTo
  <2>9. Sound(n2, "pushing", a)
    <3>1. n2 = [fs |-> n.fs, ring |-> r2, ran |-> n.ran, rest |-> n.rest]
      BY <1>3, <1>7, <2>1, Zenon
    <3>2. p.pc = "popping" <=> "pushing" = "popping"
      BY <2>1, Zenon
    <3> QED
      BY <1>5, <2>6, <3>1, <3>2, SoundStep, Zenon
  <2> QED
    BY <1>9, <2>1, <2>6, <2>7, <2>8, <2>9, Zenon
<1>11. CASE PushTail
  <2>1. /\ p.pc = "pushing" /\ r2 = [r EXCEPT !.sq_tail = Advance(@)]
        /\ p2 = [p EXCEPT !.pc = "idle"]
        /\ a2 = a /\ ran' = ran /\ files' = files
    BY <1>1, <1>11, Zenon DEF PushTail, ProgramRuns
  <2>2. p2 = [pc |-> "idle", pushed |-> p.pushed]
    BY <1>5, <2>1, Zenon
  <2>3. p2.pc = "idle" /\ p2.pushed = p.pushed /\ p2 = [pc |-> p2.pc, pushed |-> p2.pushed]
    BY <2>2, Zenon
  <2>4. P = p.pushed - 1
    BY <1>6, <2>1, Zenon DEF PushedTo
  <2>5. PushedTo(p2) = P + 1
    BY <1>5, <2>3, <2>4 DEF PushedTo
  <2>6. r2 = [n.ring EXCEPT !.sq_tail = Advance(@)] /\ n2.ran = n.ran /\ RingShape(n.ring)
        /\ SideAt(n, "pushing", P, H, L)
    BY <1>6, <1>7, <1>8, <2>1, Zenon
  <2>7. /\ RingShape(r2) /\ SideAt(n2, "idle", P + 1, H, L)
        /\ r2.cq = n.ring.cq /\ r2.cq_head = n.ring.cq_head /\ r2.cq_tail = n.ring.cq_tail
    BY <1>7, <2>6, PushTailKeeps
  <2>8. Sound(n2, "idle", a)
    <3>1. n2 = [fs |-> n.fs, ring |-> r2, ran |-> n.ran, rest |-> n.rest]
      BY <1>3, <1>7, <2>1, Zenon
    <3>2. p.pc = "popping" <=> "idle" = "popping"
      BY <2>1, Zenon
    <3> QED
      BY <1>5, <2>7, <3>1, <3>2, SoundStep, Zenon
  <2> QED
    BY <1>5, <1>9, <2>1, <2>3, <2>5, <2>7, <2>8
<1>12. CASE PopRead
  <2>1. /\ p.pc = "idle" /\ r.cq_head # r.cq_tail
        /\ a2 = Append(a, r.cq[Slot(r.cq_head)].data)
        /\ p2 = [p EXCEPT !.pc = "popping"] /\ r2 = r /\ ran' = ran /\ files' = files
    BY <1>1, <1>12, Zenon DEF PopRead, ProgramRuns
  <2>2. p2 = [pc |-> "popping", pushed |-> p.pushed]
    BY <1>5, <2>1, Zenon
  <2>3. p2.pc = "popping" /\ p2.pushed = p.pushed /\ p2 = [pc |-> p2.pc, pushed |-> p2.pushed]
    BY <2>2, Zenon
  <2>4. PushedTo(p2) = P
    BY <1>6, <2>1, <2>3, Zenon DEF PushedTo
  <2>5. n2 = n
    BY <1>3, <2>1, Zenon
  <2>6. Sound(n, "popping", a2)
    <3>1. p.pc # "popping" /\ n.ring.cq_head # n.ring.cq_tail /\ a2 = Append(a, n.ring.cq[Slot(n.ring.cq_head)].data)
      BY <1>7, <2>1, Zenon
    <3> QED
      BY <1>5, <3>1, PopReadKeeps, Zenon
  <2>7. SideAt(n, "popping", P, H, L)
    <3>1. SameSq(n.ring, n.ring)
      BY Zenon DEF SameSq
    <3> QED
      BY <1>6, <3>1, SideKept, Zenon
  <2> QED
    BY <1>5, <1>9, <2>3, <2>4, <2>5, <2>6, <2>7, Zenon
<1>13. CASE PopHead
  <2>1. /\ p.pc = "popping" /\ r2 = [r EXCEPT !.cq_head = Advance(@)]
        /\ p2 = [p EXCEPT !.pc = "idle"] /\ a2 = a /\ ran' = ran /\ files' = files
    BY <1>1, <1>13, Zenon DEF PopHead, ProgramRuns
  <2>2. p2 = [pc |-> "idle", pushed |-> p.pushed]
    BY <1>5, <2>1, Zenon
  <2>3. p2.pc = "idle" /\ p2.pushed = p.pushed /\ p2 = [pc |-> p2.pc, pushed |-> p2.pushed]
    BY <2>2, Zenon
  <2>4. PushedTo(p2) = P
    BY <1>6, <2>1, <2>3, Zenon DEF PushedTo
  <2>5. SameSq(n.ring, r2) /\ Sound(n2, "idle", a)
    <3>1. n2 = [fs |-> n.fs, ring |-> r2, ran |-> n.ran, rest |-> n.rest]
      BY <1>3, <1>7, <2>1, Zenon
    <3>2. Sound(n, "popping", a) /\ r2 = [n.ring EXCEPT !.cq_head = Advance(@)]
      BY <1>5, <1>7, <2>1, Zenon
    <3> QED
      BY <3>1, <3>2, PopHeadKeeps, Zenon
  <2>6. SideAt(n2, "idle", P, H, L)
    <3>1. SameSq(n.ring, n2.ring) /\ n2.ran = n.ran
      BY <1>7, <2>1, <2>5, Zenon
    <3> QED
      BY <1>6, <3>1, SideKept, Zenon
  <2> QED
    BY <1>5, <1>9, <2>1, <2>3, <2>4, <2>5, <2>6, Zenon
<1>14. CASE Register
  <2>1. a2 = a /\ p2 = p /\ ran' = ran /\ files' = files
    BY <1>1, <1>14, Zenon DEF Register
  <2>2. PICK b, t : r2 = [r EXCEPT !.bufs = b] \/ r2 = [r EXCEPT !.fixed_files = t]
    BY <1>1, <1>14, Zenon DEF Register
  <2>3. \E b2, t2 : r2 = [sq |-> r.sq, sq_head |-> r.sq_head, sq_tail |-> r.sq_tail,
           cq |-> r.cq, cq_head |-> r.cq_head, cq_tail |-> r.cq_tail,
           chain_result |-> r.chain_result, fixed_files |-> t2,
           bufs |-> b2, locked |-> r.locked]
    <3>1. r = [sq |-> r.sq, sq_head |-> r.sq_head, sq_tail |-> r.sq_tail,
           cq |-> r.cq, cq_head |-> r.cq_head, cq_tail |-> r.cq_tail,
           chain_result |-> r.chain_result, fixed_files |-> r.fixed_files,
           bufs |-> r.bufs, locked |-> r.locked]
      BY <1>8, Zenon DEF RingShape
    <3>2. CASE r2 = [r EXCEPT !.bufs = b]
      BY <3>1, <3>2, Zenon
    <3>3. CASE r2 = [r EXCEPT !.fixed_files = t]
      BY <3>1, <3>3, Zenon
    <3> QED
      BY <2>2, <3>2, <3>3, Zenon
  <2>4. RingShape(r2) /\ SameSq(r, r2) /\ r2.cq = r.cq /\ r2.cq_head = r.cq_head /\ r2.cq_tail = r.cq_tail
    BY <2>3 DEF RingShape, SameSq
  <2>5. Sound(n2, p.pc, a)
    <3>1. n2 = [fs |-> n.fs, ring |-> r2, ran |-> n.ran, rest |-> n.rest]
      BY <1>3, <1>7, <2>1, Zenon
    <3>2. r2.cq = n.ring.cq /\ r2.cq_head = n.ring.cq_head /\ r2.cq_tail = n.ring.cq_tail /\ RingShape(r2)
      BY <1>7, <2>4, Zenon
    <3> QED
      BY <1>5, <3>1, <3>2, SoundStep, Zenon
  <2>6. SideAt(n2, p.pc, P, H, L)
    <3>1. SameSq(n.ring, n2.ring) /\ n2.ran = n.ran
      BY <1>7, <2>1, <2>4, Zenon
    <3> QED
      BY <1>6, <3>1, SideKept, Zenon
  <2> QED
    BY <1>5, <1>6, <1>9, <2>1, <2>5, <2>6, Zenon
<1>15. ASSUME NEW task, Enter(task) PROVE UInv(n2, p2, a2)
  <2>1. PICK order, tail, e : order = BatchOrder(r) /\ tail = r.sq_tail /\ e = submit_sqes(task, n, order, tail)
    BY Zenon
  <2>2. r.locked = NoTaskWaits /\ files' = e.fs /\ r2 = e.ring /\ ran' = e.ran /\ p2 = p /\ a2 = a
    BY <1>1, <1>15, <2>1, Zenon DEF Enter, SetUring
  <2>3. Lock(n, H, L) /\ SqAt(n.ring, p.pc, P, H) /\ L \in Nat /\ H =< L /\ L =< P
        /\ \A k \in DOMAIN n.ran : n.ran[k] =< L
    BY <1>6, Zenon DEF SideAt
  <2>4. L = H
    <3>1. ASSUME NEW t, NEW R, LockAt(n, H, L, t, R) PROVE FALSE
      <4>1. R # <<>> /\ r.locked = [task |-> t, rest |-> R, tail |-> L % IdxMod]
        BY <1>7, <3>1, Zenon DEF LockAt
      <4>2. r.locked.rest = R /\ NoTaskWaits.rest = <<>>
        BY <4>1 DEF NoTaskWaits
      <4> QED
        BY <2>2, <4>1, <4>2, Zenon
    <3> QED
      BY <2>3, <3>1, Zenon DEF Lock
  <2>5. SideAt(n, p.pc, P, H, H) /\ order = BatchOrder(n.ring)
    BY <1>6, <1>7, <2>1, <2>4, Zenon
  <2>6. /\ order \in Seq(Nat) /\ Fresh(n, order)
        /\ \A j \in 1 .. Len(order) : \E i \in H .. P - 1 : order[j] = i % IdxMod
    BY <2>5, BatchFresh
  <2>7. H \in Nat /\ P \in Nat /\ H =< P /\ P =< P /\ tail = P % IdxMod
    BY <1>7, <2>1, <2>3 DEF SqAt
  <2>8. \A k \in DOMAIN n.ran : n.ran[k] =< P
    <3>1. n.ran \in Seq(Nat)
      BY <1>5, Zenon DEF Sound
    <3> SUFFICES ASSUME NEW k \in DOMAIN n.ran PROVE n.ran[k] =< P
      BY Zenon
    <3>2. n.ran[k] \in Nat
      BY <3>1, ElementOfSeq, LenProperties, Zenon
    <3>3. n.ran[k] =< L
      BY <2>3, Zenon
    <3> QED
      BY <2>3, <2>7, <3>2, <3>3
  <2>9. e = submit_sqes(task, n, order, P % IdxMod)
    BY <2>1, <2>7, Zenon
  <2>10. n2 = [fs |-> e.fs, ring |-> e.ring, ran |-> e.ran, rest |-> <<>>]
    BY <1>3, <2>2, Zenon
  <2>11. Sound(n2, p.pc, a) /\ \E H2, L2 : SideAt(n2, p.pc, P, H2, L2)
    <3>1. Ready(n, p.pc, a, P, H, P, order)
      BY <1>5, <1>7, <2>3, <2>6, <2>7, <2>8, Zenon DEF Ready
    <3> QED
      BY <2>9, <2>10, <3>1, CallKeeps, Zenon
  <2> QED
    BY <1>5, <1>6, <1>9, <2>2, <2>11, Zenon
<1>16. CASE KeysCome
  <2>1. Lock(n, H, L) /\ SqAt(n.ring, p.pc, P, H) /\ L \in Nat /\ H =< L /\ L =< P
        /\ \A k \in DOMAIN n.ran : n.ran[k] =< L
    BY <1>6, Zenon DEF SideAt
  <2>2. r.locked # NoTaskWaits
    BY <1>1, <1>16, Zenon DEF KeysCome
  <2>3. PICK t, R : LockAt(n, H, L, t, R)
    BY <1>7, <2>1, <2>2, Zenon DEF Lock
  <2>4. /\ R \in Seq(Nat) /\ R # <<>> /\ Fresh(n, R)
        /\ r.locked = [task |-> t, rest |-> R, tail |-> L % IdxMod]
        /\ \A j \in 1 .. Len(R) : \E i \in H .. L - 1 : R[j] = i % IdxMod
    BY <1>7, <2>3, Zenon DEF LockAt
  <2>5. r.locked.task = t /\ r.locked.rest = R /\ r.locked.tail = L % IdxMod
    BY <2>4
  <2>6. PICK keys : /\ files' = submit_sqes(r.locked.task, Answer(n, Head(r.locked.rest), keys), Tail(r.locked.rest), r.locked.tail).fs
                    /\ r2 = submit_sqes(r.locked.task, Answer(n, Head(r.locked.rest), keys), Tail(r.locked.rest), r.locked.tail).ring
                    /\ ran' = submit_sqes(r.locked.task, Answer(n, Head(r.locked.rest), keys), Tail(r.locked.rest), r.locked.tail).ran
    BY <1>1, <1>16, Zenon DEF KeysCome, SetUring
  <2>7. PICK st, order, e : /\ st = Answer(n, Head(R), keys) /\ order = Tail(R)
                            /\ e = submit_sqes(t, st, order, L % IdxMod)
    BY Zenon
  <2>8. files' = e.fs /\ r2 = e.ring /\ ran' = e.ran
    BY <2>5, <2>6, <2>7, Zenon
  <2>9. p2 = p /\ a2 = a
    BY <1>1, <1>16, Zenon DEF KeysCome
  <2>10. Ready(st, p.pc, a, P, H, L, order)
    <3>1. Ready(n, p.pc, a, P, H, L, R)
      BY <1>5, <1>7, <2>1, <2>4, Zenon DEF Ready
    <3>2. Ready(st, p.pc, a, P, H, L, Tail(R))
      BY <2>4, <2>7, <3>1, AnswerKeeps, Zenon
    <3> QED
      BY <2>7, <3>2, Zenon
  <2>11. n2 = [fs |-> e.fs, ring |-> e.ring, ran |-> e.ran, rest |-> <<>>]
    BY <1>3, <2>8, Zenon
  <2>12. Sound(n2, p.pc, a) /\ \E H2, L2 : SideAt(n2, p.pc, P, H2, L2)
    BY <2>7, <2>10, <2>11, CallKeeps, Zenon
  <2> QED
    BY <1>5, <1>6, <1>9, <2>9, <2>12, Zenon
<1>17. CASE UNCHANGED <<files, ring, program, ran, answered>>
  <2>1. n2 = n /\ p2 = p /\ a2 = a
    BY <1>1, <1>17, Zenon DEF Now
  <2> QED
    BY <1>4, <2>1, Zenon
<1>18. CASE UNCHANGED uringVars
  BY <1>17, <1>18, Zenon DEF uringVars, ringVars
<1>19. CASE PushOver \/ CallSpins \/ PagesChange
  BY <1>17, <1>19, Zenon DEF PushOver, CallSpins, PagesChange
<1>20. CASE RingStep
  BY <1>10, <1>11, <1>12, <1>13, <1>14, <1>15, <1>16, <1>20, Zenon DEF RingStep
<1> QED
  BY <1>18, <1>19, <1>20, Zenon DEF UringNext

\* The invariant gives the two properties.
LEMMA UringSafe ==
  ASSUME Regular => UringInv
  PROVE  RunOnce /\ AnswersInOrder
<1>0. CASE ~Regular
  BY <1>0, Zenon DEF RunOnce, AnswersInOrder
<1> SUFFICES ASSUME UringInv PROVE RunOnce /\ AnswersInOrder
  BY <1>0, Zenon
<1>1. Now.ring = ring /\ Now.ran = ran
  BY Zenon DEF Now
<1>2. Sound(Now, program.pc, answered)
  BY Zenon DEF UringInv, UInv
<1>3. Once(ran) /\ InOrder(Deliv(ring, program.pc, answered), ran)
  BY <1>1, <1>2, Zenon DEF Sound
<1>4. PICK d : d = Delivered
  BY Zenon
<1>5. InOrder(d, ran)
  BY <1>3, <1>4, Zenon DEF Deliv, Delivered
<1>6. RunOnce
  BY <1>3, Zenon DEF Once, RunOnce
<1>7. ASSUME NEW k \in DOMAIN d PROVE d[k] \in Range(ran)
  BY <1>5, Zenon DEF InOrder, Range
<1>8. ASSUME NEW k \in DOMAIN d PROVE RanAt(d[k]) \in DOMAIN ran /\ ran[RanAt(d[k])] = d[k]
  <2>1. \E b \in DOMAIN ran : ran[b] = d[k]
    BY <1>5, Zenon DEF InOrder
  <2> QED
    BY <2>1, Zenon DEF RanAt
<1>9. ASSUME NEW j \in DOMAIN d, NEW k \in DOMAIN d, j < k PROVE RanAt(d[j]) < RanAt(d[k])
  BY <1>5, <1>8, <1>9, Zenon DEF InOrder
<1>10. AnswersInOrder
  BY <1>4, <1>7, <1>9, Zenon DEF AnswersInOrder
<1> QED
  BY <1>6, <1>10, Zenon

\* UringInv is an invariant of a regular ring.
LEMMA UringInvariant == UringSpec => [](Regular => UringInv)
<1>1. UringInit => (Regular => UringInv)
  BY UringStarts, Zenon
<1>2. (Regular => UringInv) /\ [UringNext]_uringVars => (Regular => UringInv)'
  <2> SUFFICES ASSUME Regular => UringInv, [UringNext]_uringVars, Regular' PROVE UringInv'
    BY Zenon
  <2>1. asked' = asked
    BY Zenon DEF UringNext, RingStep, PushOver, CallSpins, PagesChange, setVars, ringVars, uringVars
  <2>2. Regular
    BY <2>1, Zenon DEF Regular, Entries
  <2> QED
    BY <2>2, UringKeeps, Zenon
<1> QED
  BY <1>1, <1>2, PTL DEF UringSpec

\* In a regular ring no request runs twice.
THEOREM RequestsRunOnce == UringSpec => []RunOnce
<1>1. (Regular => UringInv) => RunOnce
  BY UringSafe, Zenon
<1> QED
  BY <1>1, UringInvariant, PTL

\* In a regular ring the completions come in the order the requests ran.
THEOREM CompletionsInOrder == UringSpec => []AnswersInOrder
<1>1. (Regular => UringInv) => AnswersInOrder
  BY UringSafe, Zenon
<1> QED
  BY <1>1, UringInvariant, PTL
=============================================================================
