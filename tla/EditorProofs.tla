---------------------------- MODULE EditorProofs ----------------------------
(***************************************************************************)
(* The text editor, for every set of characters, files and clipboards and  *)
(* every size of its arrays: the selection stays in the text, and the      *)
(* lines of the array, joined, are edited as one flat text with a cursor.  *)
(*                                                                         *)
(* The inductive invariant is EditorInv. HasView ties a document to the    *)
(* text before its cursor and the text after it; every handler is shown to *)
(* do to these two what FlatText says.                                     *)
(***************************************************************************)
EXTENDS Editor, ModArith, TLAPS

-----------------------------------------------------------------------------
(* More about sequences, for the lines and their text *)

\* A sequence of some things is one of more things.
LEMMA SeqMonotonic ==
  ASSUME NEW S, NEW T, S \subseteq T, NEW s \in Seq(S)
  PROVE  s \in Seq(T)
  OBVIOUS

\* A sequence with an entry replaced.
LEMMA ExceptSeq ==
  ASSUME NEW S, NEW s \in Seq(S), NEW k \in 1..Len(s), NEW x \in S
  PROVE  /\ [s EXCEPT ![k] = x] \in Seq(S) /\ Len([s EXCEPT ![k] = x]) = Len(s)
         /\ \A i \in 1..Len(s) : [s EXCEPT ![k] = x][i] = IF i = k THEN x ELSE s[i]
  OBVIOUS

\* Nothing before or behind a sequence.
LEMMA ConcatEmptySeq ==
  ASSUME NEW S, NEW s \in Seq(S)
  PROVE  s \o <<>> = s /\ <<>> \o s = s
  OBVIOUS

\* Only the empty sequence can be added without effect.
LEMMA ConcatEqualIffEmpty ==
  ASSUME NEW S, NEW a \in Seq(S), NEW b \in Seq(S)
  PROVE  /\ a \o b = a <=> b = <<>>
         /\ a \o b = b <=> a = <<>>
         /\ a \o b = <<>> <=> a = <<>> /\ b = <<>>
  OBVIOUS

\* A part that ends before it begins.
LEMMA SubSeqEmpty ==
  ASSUME NEW s, NEW m \in Int, NEW n \in Int, n < m
  PROVE  SubSeq(s, m, n) = <<>>
  OBVIOUS

\* A part, one longer.
LEMMA SubSeqRecursiveSecond ==
  ASSUME NEW S, NEW s \in Seq(S), NEW m \in 1..Len(s), NEW n \in m..Len(s)
  PROVE  SubSeq(s, m, n) = SubSeq(s, m, n - 1) \o <<s[n]>>
  OBVIOUS

\* The whole as a part.
LEMMA SubSeqFull ==
  ASSUME NEW S, NEW s \in Seq(S)
  PROVE  SubSeq(s, 1, Len(s)) = s
  OBVIOUS

\* Two parts, one behind the other.
LEMMA ConcatAdjacentSubSeq ==
  ASSUME NEW S, NEW s \in Seq(S), NEW m \in 1..(Len(s) + 1),
         NEW k \in (m - 1)..Len(s), NEW n \in k..Len(s)
  PROVE  SubSeq(s, m, k) \o SubSeq(s, k + 1, n) = SubSeq(s, m, n)
  OBVIOUS

\* A sequence that is not empty has a last entry.
LEMMA SequenceEmptyOrAppend ==
  ASSUME NEW S, NEW s \in Seq(S), s # <<>>
  PROVE  \E r \in Seq(S), x \in S : s = Append(r, x)
<1> DEFINE r == SubSeq(s, 1, Len(s) - 1)
           x == s[Len(s)]
<1>1. r \in Seq(S) /\ x \in S
  OBVIOUS
<1>2. s = Append(r, x)
  OBVIOUS
<1> QED
  BY <1>1, <1>2, Zenon

-----------------------------------------------------------------------------
(* The editor: the cursor and the selection stay in the text *)

\* The characters of a line, whether typed, loaded or pasted.
Letters ==
  (EditorChars \cup UNION {{s[i] : i \in DOMAIN s} : s \in LoadedFiles \cup Clips})
    \ {Newline}

\* A line is a sequence of characters, none of them a line end, that fits its
\* row of the array.
Rows == {r \in Seq(Letters) : Len(r) =< MAX_LINE_LEN}

\* A document as the program's variables hold it.
Docs == [lines : Seq(Rows), y : Nat, x : Nat, scroll_y : Nat, dirty : BOOLEAN]

\* The lines fit the array and the cursor is in one of them.
Good(d) ==
  /\ d \in Docs
  /\ Len(d.lines) =< MAX_LINES
  /\ d.y < Len(d.lines) /\ d.x =< Len(d.lines[d.y + 1])

\* The parts of a document that the proofs need most.
LEMMA GoodFacts ==
  ASSUME NEW d, Good(d)
  PROVE  /\ d.lines \in Seq(Rows) /\ Len(d.lines) \in Nat
         /\ d.y \in Nat /\ d.y + 1 \in 1 .. Len(d.lines)
         /\ CursorRow(d) = d.lines[d.y + 1] /\ CursorRow(d) \in Rows
         /\ Len(CursorRow(d)) \in Nat /\ Len(CursorRow(d)) =< MAX_LINE_LEN
         /\ d.x \in 0 .. Len(CursorRow(d)) /\ d.scroll_y \in Nat
<1>1. d.lines \in Seq(Rows) /\ d.y \in Nat /\ d.x \in Nat /\ d.scroll_y \in Nat
      /\ d.y < Len(d.lines) /\ d.x =< Len(d.lines[d.y + 1])
  BY Zenon DEF Good, Docs
<1>2. d.y + 1 \in 1 .. Len(d.lines) /\ Len(d.lines) \in Nat
  BY <1>1
<1>3. d.lines[d.y + 1] \in Rows
  BY <1>1, <1>2, ElementOfSeq, Zenon
<1>4. Len(d.lines[d.y + 1]) \in Nat /\ Len(d.lines[d.y + 1]) =< MAX_LINE_LEN
  BY <1>3, LenProperties, Zenon DEF Rows
<1> QED
  BY <1>1, <1>2, <1>3, <1>4 DEF CursorRow, Row

\* Moving the cursor leaves the text alone and stays in it.
LEMMA MovesGood ==
  ASSUME NEW d, Good(d), NEW e \in Moves(d)
  PROVE  Good(e) /\ e.lines = d.lines
<1>0. d = [lines |-> d.lines, y |-> d.y, x |-> d.x, scroll_y |-> d.scroll_y, dirty |-> d.dirty]
      /\ d \in Docs
  BY Zenon DEF Good, Docs
<1>1. /\ d.lines \in Seq(Rows) /\ Len(d.lines) \in Nat /\ d.y \in Nat /\ d.y < Len(d.lines)
      /\ d.x \in Nat /\ d.x =< Len(Row(d, d.y)) /\ d.scroll_y \in Nat
      /\ \A y \in Nat : y < Len(d.lines) => Len(Row(d, y)) \in Nat
  <2>1. \A y \in Nat : y < Len(d.lines) => Row(d, y) \in Rows
    BY GoodFacts, ElementOfSeq DEF Row
  <2>2. \A y \in Nat : y < Len(d.lines) => Len(Row(d, y)) \in Nat
    BY <2>1, LenProperties, Zenon DEF Rows
  <2> QED
    BY <2>2, GoodFacts DEF CursorRow
<1> DEFINE Placed(y, x, s) == [lines |-> d.lines, y |-> y, x |-> x, scroll_y |-> s, dirty |-> d.dirty]
<1>2. ASSUME NEW y \in Nat, NEW x \in Nat, NEW s \in Nat,
             y < Len(d.lines), x =< Len(Row(d, y)), e = Placed(y, x, s)
      PROVE  Good(e) /\ e.lines = d.lines
  BY <1>0, <1>2, Zenon DEF Good, Docs, Row
<1>3. CASE e = d
  BY <1>3, Zenon
<1>4. CASE e = move_up(d) /\ d.y # 0
  <2>1. e = Placed(d.y - 1, AtMost(d.x, Len(Row(d, d.y - 1))),
                   IF d.y - 1 < d.scroll_y THEN d.scroll_y - 1 ELSE d.scroll_y)
    BY <1>0, <1>4, Zenon DEF move_up
  <2>2. d.y - 1 \in Nat /\ d.y - 1 < Len(d.lines) /\ Len(Row(d, d.y - 1)) \in Nat
    BY <1>1, <1>4
  <2>3. AtMost(d.x, Len(Row(d, d.y - 1))) \in Nat
        /\ AtMost(d.x, Len(Row(d, d.y - 1))) =< Len(Row(d, d.y - 1))
    BY <1>1, <2>2 DEF AtMost
  <2>4. (IF d.y - 1 < d.scroll_y THEN d.scroll_y - 1 ELSE d.scroll_y) \in Nat
    BY <1>1, <2>2
  <2> QED
    BY <1>2, <2>1, <2>2, <2>3, <2>4, Zenon
<1>5. CASE e = move_down(d) /\ d.y < Len(d.lines) - 1
  <2>1. e = Placed(d.y + 1, AtMost(d.x, Len(Row(d, d.y + 1))),
                   IF d.y + 1 >= d.scroll_y + TextRows THEN d.scroll_y + 1 ELSE d.scroll_y)
    <3>1. ~(d.y >= Len(d.lines) - 1)
      BY <1>1, <1>5
    <3>2. e = [d EXCEPT !.y = @ + 1, !.x = AtMost(@, Len(Row(d, d.y + 1))),
                        !.scroll_y = IF d.y + 1 >= @ + TextRows THEN @ + 1 ELSE @]
      BY <1>5, <3>1, Zenon DEF move_down
    <3> QED
      BY <1>0, <3>2, Zenon
  <2>2. d.y + 1 \in Nat /\ d.y + 1 < Len(d.lines) /\ Len(Row(d, d.y + 1)) \in Nat
    BY <1>1, <1>5
  <2>3. AtMost(d.x, Len(Row(d, d.y + 1))) \in Nat
        /\ AtMost(d.x, Len(Row(d, d.y + 1))) =< Len(Row(d, d.y + 1))
    BY <1>1, <2>2 DEF AtMost
  <2>4. (IF d.y + 1 >= d.scroll_y + TextRows THEN d.scroll_y + 1 ELSE d.scroll_y) \in Nat
    BY <1>1
  <2> QED
    BY <1>2, <2>1, <2>2, <2>3, <2>4, Zenon
<1>6. CASE e = move_left(d) /\ e # d
  <2>1. CASE d.x > 0
    <3>1. e = Placed(d.y, d.x - 1, d.scroll_y) /\ d.x - 1 \in Nat /\ d.x - 1 =< Len(Row(d, d.y))
      BY <1>0, <1>1, <1>6, <2>1 DEF move_left
    <3> QED
      BY <1>1, <1>2, <3>1, Zenon
  <2>2. CASE ~(d.x > 0)
    <3>1. e = Placed(d.y - 1, Len(Row(d, d.y - 1)), d.scroll_y) /\ d.y > 0
      BY <1>0, <1>6, <2>2, Zenon DEF move_left
    <3>2. d.y - 1 \in Nat /\ d.y - 1 < Len(d.lines) /\ Len(Row(d, d.y - 1)) \in Nat
      BY <1>1, <3>1
    <3> QED
      BY <1>1, <1>2, <3>1, <3>2
  <2> QED
    BY <2>1, <2>2, Zenon
<1>7. CASE e = move_right(d) /\ e # d
  <2>1. CASE d.x < Len(Row(d, d.y))
    <3>1. e = Placed(d.y, d.x + 1, d.scroll_y) /\ d.x + 1 =< Len(Row(d, d.y))
      BY <1>0, <1>1, <1>7, <2>1 DEF move_right, CursorRow
    <3> QED
      BY <1>1, <1>2, <3>1
  <2>2. CASE ~(d.x < Len(Row(d, d.y)))
    <3>1. e = Placed(d.y + 1, 0, d.scroll_y) /\ d.y < Len(d.lines) - 1
      BY <1>0, <1>7, <2>2, Zenon DEF move_right, CursorRow
    <3>2. d.y + 1 \in Nat /\ d.y + 1 < Len(d.lines) /\ Len(Row(d, d.y + 1)) \in Nat
      BY <1>1, <3>1
    <3> QED
      BY <1>1, <1>2, <3>1, <3>2
  <2> QED
    BY <2>1, <2>2, Zenon
<1>8. e = d \/ (e = move_up(d) /\ d.y # 0) \/ (e = move_down(d) /\ d.y < Len(d.lines) - 1)
      \/ (e = move_left(d) /\ e # d) \/ (e = move_right(d) /\ e # d)
  BY <1>1 DEF Moves, move_up, move_down
<1> QED
  BY <1>3, <1>4, <1>5, <1>6, <1>7, <1>8, Zenon

-----------------------------------------------------------------------------
(* The editor: its lines joined are a flat text *)

Text == Letters \cup {Newline}
Lines == Seq(Seq(Text))
NL == <<Newline>>

\* Joining, line by line.
LEMMA JoinUnfolds ==
  ASSUME NEW s \in Lines, NEW N \in Nat, Len(s) = N + 1
  PROVE  \E u \in [0..N -> Seq(Text)] :
           /\ u[0] = s[1]
           /\ \A n \in 1..N : u[n] = u[n - 1] \o NL \o s[n + 1]
           /\ Joined(s) = u[N]
<1> DEFINE S == Seq(Text)
           base == s[1]
           Grow(r, n) == r \o NL \o s[n + 1]
           step == [n \in 1..N |-> [r \in S |-> Grow(r, n)]]
           Equation(k) == k = [n \in 0..N |-> IF n = 0 THEN base ELSE Grow(k[n - 1], n)]
           u == CHOOSE k : Equation(k)
<1>0. NL \in S /\ \A n \in 0..N : s[n + 1] \in S
  <2>1. \A n \in 0..N : n + 1 \in 1..Len(s)
    OBVIOUS
  <2> QED
    BY <2>1, ElementOfSeq DEF Lines, NL, Text
<1>1. N \in Nat /\ base \in S
  BY <1>0
<1>2. \A n \in 1..N, r \in S : Grow(r, n) \in S
  BY <1>0, ConcatProperties
<1>3. Joined(s) = u[N]
  <2>1. Len(s) - 1 = N
    OBVIOUS
  <2> QED
    BY <2>1, Zenon DEF Joined, NL
<1> HIDE DEF S, base, Grow
<1>4. \E k : Equation(k)
  <2>1. step \in [1..N -> [S -> S]]
    BY <1>2, Zenon
  <2>2. \A n \in 1..N, r \in S : step[n][r] = Grow(r, n)
    BY Zenon
  <2> HIDE DEF step
  <2>3. PICK k : IsRecursion(N, S, base, step, k)
    BY <1>1, <2>1, RecursionExists, Zenon
  <2>4. \A n \in 1..N : k[n] = Grow(k[n - 1], n)
    BY <1>1, <2>2, <2>3 DEF IsRecursion
  <2>5. Equation(k)
    BY <1>1, <2>3, <2>4 DEF IsRecursion
  <2> QED
    BY <2>5, Zenon
<1>5. Equation(u)
  BY <1>4, Zenon
<1> HIDE DEF u
<1>6. u[0] = base /\ \A n \in 1..N : u[n] = Grow(u[n - 1], n)
  BY <1>1, <1>5
<1>7. u \in [0..N -> S]
  <2> DEFINE P == {n \in 0..N : u[n] \in S}
  <2>1. 0 \in P
    BY <1>1, <1>6
  <2>2. ASSUME NEW n \in 1..N, n - 1 \in P PROVE n \in P
    BY <1>1, <1>2, <1>6, <2>2
  <2>3. \A n \in 0..N : n \in P
    <3> HIDE DEF P
    <3> QED
      BY <1>1, <2>1, <2>2, SetInduction, Zenon
  <2>4. \A n \in 0..N : u[n] \in S
    BY <2>3, Zenon
  <2> QED
    BY <1>5, <2>4, Zenon
<1> QED
  BY <1>3, <1>6, <1>7, Zenon DEF S, base, Grow

\* One line alone is its own text.
LEMMA JoinOne ==
  ASSUME NEW l \in Seq(Text)
  PROVE  Joined(<<l>>) = l
<1>1. <<l>> \in Lines /\ Len(<<l>>) = 0 + 1 /\ <<l>>[1] = l /\ 0 \in Nat
  BY DEF Lines
<1> HIDE DEF Lines
<1>2. PICK u \in [0..0 -> Seq(Text)] : u[0] = <<l>>[1] /\ Joined(<<l>>) = u[0]
  BY <1>1, JoinUnfolds, Zenon
<1> QED
  BY <1>1, <1>2, Zenon

\* Joined lines are a text.
LEMMA JoinType ==
  ASSUME NEW s \in Lines, s # <<>>
  PROVE  Joined(s) \in Seq(Text)
<1>1. Len(s) \in Nat \ {0}
  BY EmptySeq, Zenon DEF Lines
<1>2. PICK N \in Nat : Len(s) = N + 1
  <2>1. Len(s) - 1 \in Nat /\ Len(s) = (Len(s) - 1) + 1
    BY <1>1
  <2> QED
    BY <2>1, Zenon
<1>3. PICK u \in [0..N -> Seq(Text)] : Joined(s) = u[N]
  BY <1>2, JoinUnfolds, Zenon
<1> QED
  BY <1>2, <1>3

\* A further line is joined behind.
LEMMA JoinLast ==
  ASSUME NEW s \in Lines, s # <<>>, NEW l \in Seq(Text), NEW t, t = Append(s, l)
  PROVE  Joined(t) = (Joined(s) \o NL) \o l
<1>1. Len(s) \in Nat \ {0}
  BY EmptySeq, Zenon DEF Lines
<1>2. PICK N \in Nat : Len(s) = N + 1
  <2>1. Len(s) - 1 \in Nat /\ Len(s) = (Len(s) - 1) + 1
    BY <1>1
  <2> QED
    BY <2>1, Zenon
<1>3. t \in Lines /\ Len(t) = (N + 1) + 1 /\ N + 1 \in Nat /\ t[(N + 1) + 1] = l
      /\ \A k \in 1..(N + 1) : t[k] = s[k]
  BY <1>2, AppendProperties DEF Lines
<1> HIDE DEF Lines
<1>4. PICK u \in [0..N -> Seq(Text)] :
         /\ u[0] = s[1]
         /\ \A n \in 1..N : u[n] = u[n - 1] \o NL \o s[n + 1]
         /\ Joined(s) = u[N]
  BY <1>2, JoinUnfolds, Zenon
<1>5. PICK v \in [0..(N + 1) -> Seq(Text)] :
         /\ v[0] = t[1]
         /\ \A n \in 1..(N + 1) : v[n] = v[n - 1] \o NL \o t[n + 1]
         /\ Joined(t) = v[N + 1]
  BY <1>3, JoinUnfolds, Zenon
<1> DEFINE P == {n \in 0..N : v[n] = u[n]}
<1>6. 0 \in P
  BY <1>2, <1>3, <1>4, <1>5
<1>7. ASSUME NEW n \in 1..N, n - 1 \in P PROVE n \in P
  <2>1. n \in 1..(N + 1) /\ n + 1 \in 1..(N + 1) /\ v[n - 1] = u[n - 1]
    BY <1>2, <1>7
  <2>2. v[n] = v[n - 1] \o NL \o t[n + 1] /\ t[n + 1] = s[n + 1]
    BY <1>3, <1>5, <2>1, Zenon
  <2>3. u[n] = u[n - 1] \o NL \o s[n + 1]
    BY <1>4, Zenon
  <2>4. v[n] = u[n]
    BY <2>1, <2>2, <2>3, Zenon
  <2>5. n \in 0..N
    BY <1>2
  <2> QED
    BY <2>4, <2>5, Zenon
<1>8. \A n \in 0..N : n \in P
  <2> HIDE DEF P
  <2> QED
    BY <1>2, <1>6, <1>7, SetInduction, Zenon
<1>9. v[N] = u[N]
  BY <1>2, <1>8
<1>10. N + 1 \in 1..(N + 1) /\ (N + 1) - 1 = N
  BY <1>2
<1>11. v[N + 1] = v[N] \o NL \o t[(N + 1) + 1]
  BY <1>5, <1>10, Zenon
<1> QED
  BY <1>3, <1>4, <1>5, <1>9, <1>11, Zenon

\* Concatenation of lines is associative.
LEMMA LinesAssociative ==
  ASSUME NEW a \in Lines, NEW b \in Lines, NEW c \in Lines
  PROVE  (a \o b) \o c = a \o (b \o c)
<1> DEFINE R == Seq(Text)
<1>1. a \in Seq(R) /\ b \in Seq(R) /\ c \in Seq(R)
  BY Zenon DEF Lines
<1> HIDE DEF R
<1> QED
  BY <1>1, ConcatAssociative

\* Joining two runs of lines.
LEMMA JoinConcat ==
  ASSUME NEW s \in Lines, s # <<>>, NEW t \in Lines, t # <<>>
  PROVE  Joined(s \o t) = (Joined(s) \o NL) \o Joined(t)
<1> DEFINE P == {n \in Nat : \A r \in Lines : Len(r) = n + 1 =>
                              Joined(s \o r) = (Joined(s) \o NL) \o Joined(r)}
<1>0. NL \in Seq(Text) /\ Joined(s) \in Seq(Text) /\ Joined(s) \o NL \in Seq(Text)
  <2>1. NL \in Seq(Text)
    BY DEF NL, Text
  <2>2. Joined(s) \in Seq(Text)
    BY JoinType, Zenon
  <2> QED
    BY <2>1, <2>2, ConcatProperties, Zenon
<1>1. 0 \in P
  <2> SUFFICES ASSUME NEW r \in Lines, Len(r) = 0 + 1
               PROVE  Joined(s \o r) = (Joined(s) \o NL) \o Joined(r)
    BY Zenon
  <2>1. r = <<r[1]>> /\ r[1] \in Seq(Text)
    <3>1. r \in Seq(Seq(Text)) /\ 1 \in 1..Len(r)
      BY DEF Lines
    <3>2. r[1] \in Seq(Text)
      BY <3>1, ElementOfSeq, Zenon
    <3>3. <<r[1]>> \in Seq(Seq(Text)) /\ Len(<<r[1]>>) = 1 /\ <<r[1]>>[1] = r[1]
      BY <3>2
    <3>4. \A i \in 1..Len(r) : r[i] = <<r[1]>>[i]
      BY <3>3
    <3> QED
      BY <3>1, <3>2, <3>3, <3>4, SeqEqual
  <2>2. s \o <<r[1]>> = Append(s, r[1])
    BY <2>1, AppendIsConcat, Zenon DEF Lines
  <2>3. Joined(r) = r[1]
    BY <2>1, JoinOne, Zenon
  <2>4. Joined(Append(s, r[1])) = (Joined(s) \o NL) \o r[1]
    BY <2>1, JoinLast, Zenon
  <2> QED
    BY <2>1, <2>2, <2>3, <2>4, Zenon
<1>2. ASSUME NEW n \in Nat \ {0}, n - 1 \in P PROVE n \in P
  <2> SUFFICES ASSUME NEW r \in Lines, Len(r) = n + 1
               PROVE  Joined(s \o r) = (Joined(s) \o NL) \o Joined(r)
    BY Zenon
  <2>1. r # <<>>
    BY EmptySeq DEF Lines
  <2>2. PICK q \in Lines, l \in Seq(Text) : r = Append(q, l)
    BY <2>1, SequenceEmptyOrAppend, Zenon DEF Lines
  <2>3. Len(q) = (n - 1) + 1 /\ q # <<>>
    <3>1. Len(r) = Len(q) + 1 /\ Len(q) \in Nat
      BY <2>2, AppendProperties, LenProperties, Zenon DEF Lines
    <3>2. Len(q) = n
      BY <3>1
    <3> QED
      BY <3>2, EmptySeq
  <2>4. Joined(s \o q) = (Joined(s) \o NL) \o Joined(q)
    BY <1>2, <2>3, Zenon
  <2>5. Joined(r) = (Joined(q) \o NL) \o l
    BY <2>2, <2>3, JoinLast, Zenon
  <2>6. s \o q \in Lines /\ s \o q # <<>>
    <3>1. s \o q \in Lines
      BY ConcatProperties, Zenon DEF Lines
    <3> QED
      BY <2>3, <3>1, ConcatEqualIffEmpty DEF Lines
  <2>7. s \o r = Append(s \o q, l)
    <3>1. r = q \o <<l>> /\ Append(s \o q, l) = (s \o q) \o <<l>>
      BY <2>2, <2>6, AppendIsConcat, Zenon DEF Lines
    <3>2. PICK e : e = <<l>>
      BY Zenon
    <3>3. e \in Lines
      BY <3>2 DEF Lines
    <3>4. (s \o q) \o e = s \o (q \o e)
      <4>1. \A c \in Lines : (s \o q) \o c = s \o (q \o c)
        BY LinesAssociative
      <4> QED
        BY <3>3, <4>1, Zenon
    <3> QED
      BY <3>1, <3>2, <3>4, Zenon
  <2>8. Joined(s \o r) = (Joined(s \o q) \o NL) \o l
    BY <2>6, <2>7, JoinLast, Zenon
  <2>9. Joined(q) \in Seq(Text)
    BY <2>3, JoinType, Zenon
  <2>10. ASSUME NEW a \in Seq(Text), NEW b \in Seq(Text)
         PROVE  ((a \o b) \o NL) \o l = a \o ((b \o NL) \o l)
    <3>1. (a \o b) \o NL = a \o (b \o NL)
      <4>1. \A c \in Seq(Text) : (a \o b) \o c = a \o (b \o c)
        BY ConcatAssociative
      <4> QED
        BY <1>0, <4>1, Zenon
    <3>2. b \o NL \in Seq(Text)
      BY <1>0, ConcatProperties, Zenon
    <3>3. (a \o (b \o NL)) \o l = a \o ((b \o NL) \o l)
      <4>1. \A c \in Seq(Text) : (a \o c) \o l = a \o (c \o l)
        BY ConcatAssociative
      <4> QED
        BY <3>2, <4>1, Zenon
    <3> QED
      BY <3>1, <3>3, Zenon
  <2> QED
    BY <1>0, <2>4, <2>5, <2>8, <2>9, <2>10, ZenonT(40)
<1>3. PICK N \in Nat : Len(t) = N + 1
  <2>1. Len(t) \in Nat \ {0}
    BY EmptySeq, Zenon DEF Lines
  <2>2. Len(t) - 1 \in Nat /\ Len(t) = (Len(t) - 1) + 1
    BY <2>1
  <2> QED
    BY <2>2, Zenon
<1>4. \A n \in 0..N : n \in P
  <2>1. \A n \in 1..N : n \in Nat \ {0}
    OBVIOUS
  <2> HIDE DEF P
  <2> QED
    BY <1>1, <1>2, <2>1, SetInduction, Zenon
<1>5. N \in P
  BY <1>4
<1> QED
  BY <1>3, <1>5, Zenon

\* What lies before a line, and what lies behind one.
Lead(s) == IF s = <<>> THEN <<>> ELSE Joined(s) \o NL
Trail(t) == IF t = <<>> THEN <<>> ELSE NL \o Joined(t)

\* They are texts.
LEMMA LeadTrailType ==
  ASSUME NEW s \in Lines
  PROVE  Lead(s) \in Seq(Text) /\ Trail(s) \in Seq(Text)
<1>1. NL \in Seq(Text) /\ <<>> \in Seq(Text)
  BY DEF NL, Text
<1>2. s # <<>> => Joined(s) \in Seq(Text)
  BY JoinType, Zenon
<1>3. s # <<>> => Joined(s) \o NL \in Seq(Text) /\ NL \o Joined(s) \in Seq(Text)
  BY <1>1, <1>2, ConcatProperties, Zenon
<1> QED
  BY <1>1, <1>3, Zenon DEF Lead, Trail

\* The text up to the end of a line.
LEMMA JoinThrough ==
  ASSUME NEW s \in Lines, NEW l \in Seq(Text)
  PROVE  s \o <<l>> \in Lines /\ s \o <<l>> # <<>> /\ Joined(s \o <<l>>) = Lead(s) \o l
<1>0. <<l>> \in Lines /\ <<l>> # <<>>
  BY DEF Lines
<1>1. s \o <<l>> \in Lines /\ s \o <<l>> # <<>>
  BY <1>0, ConcatProperties, ConcatEqualIffEmpty DEF Lines
<1>2. CASE s = <<>>
  <2>1. s \o <<l>> = <<l>>
    BY <1>0, <1>2, ConcatEmptySeq, Zenon DEF Lines
  <2>2. Lead(s) \o l = l
    BY <1>2, ConcatEmptySeq, Zenon DEF Lead
  <2> QED
    BY <1>1, <2>1, <2>2, JoinOne, Zenon
<1>3. CASE s # <<>>
  <2>1. s \o <<l>> = Append(s, l)
    BY AppendIsConcat, Zenon DEF Lines
  <2>2. Joined(Append(s, l)) = (Joined(s) \o NL) \o l
    BY <1>3, JoinLast, Zenon
  <2> QED
    BY <1>1, <1>3, <2>1, <2>2, Zenon DEF Lead
<1> QED
  BY <1>2, <1>3, Zenon

\* The text around a line, and what lies before the next.
LEMMA JoinAround ==
  ASSUME NEW s \in Lines, NEW l \in Seq(Text), NEW t \in Lines
  PROVE  /\ Joined((s \o <<l>>) \o t) = (Lead(s) \o l) \o Trail(t)
         /\ Lead(s \o <<l>>) = (Lead(s) \o l) \o NL
<1> DEFINE p == s \o <<l>>
<1>1. p \in Lines /\ p # <<>> /\ Joined(p) = Lead(s) \o l
  BY JoinThrough, Zenon
<1>2. Lead(p) = (Lead(s) \o l) \o NL
  BY <1>1, Zenon DEF Lead
<1> HIDE DEF p
<1>3. CASE t = <<>>
  <2>1. p \o t = p
    BY <1>1, <1>3, ConcatEmptySeq, Zenon DEF Lines
  <2>2. Joined(p) \o Trail(t) = Joined(p)
    <3>1. Joined(p) \in Seq(Text) /\ Trail(t) = <<>>
      BY <1>1, <1>3, JoinType, Zenon DEF Trail
    <3> QED
      BY <3>1, ConcatEmptySeq, Zenon
  <2>3. Joined(p \o t) = Joined(p) \o Trail(t)
    BY <2>1, <2>2, Zenon
  <2> QED
    BY <1>1, <1>2, <2>3, Zenon DEF p
<1>4. CASE t # <<>>
  <2>1. Joined(p \o t) = (Joined(p) \o NL) \o Joined(t)
    BY <1>1, <1>4, JoinConcat, Zenon
  <2>2. Joined(p) \in Seq(Text) /\ Joined(t) \in Seq(Text) /\ NL \in Seq(Text)
    <3>1. NL \in Seq(Text)
      BY DEF NL, Text
    <3>2. Joined(p) \in Seq(Text)
      BY <1>1, JoinType, Zenon
    <3>3. Joined(t) \in Seq(Text)
      BY <1>4, JoinType, Zenon
    <3> QED
      BY <3>1, <3>2, <3>3, Zenon
  <2>3. (Joined(p) \o NL) \o Joined(t) = Joined(p) \o (NL \o Joined(t))
    <3>1. \A e, f, g \in Seq(Text) : (e \o f) \o g = e \o (f \o g)
      BY ConcatAssociative
    <3> QED
      BY <2>2, <3>1, ZenonT(40)
  <2>4. Joined(p \o t) = Joined(p) \o Trail(t)
    BY <1>4, <2>1, <2>3, Zenon DEF Trail
  <2> QED
    BY <1>1, <1>2, <2>4, Zenon DEF p
<1> QED
  BY <1>3, <1>4, Zenon

\* A stretch of a sequence, given by its entries.
LEMMA StretchIs ==
  ASSUME NEW S, NEW s \in Seq(S), NEW p \in Nat, NEW b \in Seq(S),
         p + Len(b) =< Len(s), \A i \in 1 .. Len(b) : s[p + i] = b[i]
  PROVE  SubSeq(s, p + 1, p + Len(b)) = b
<1>1. PICK n \in Nat : n = Len(b)
  OBVIOUS
<1>2. p + 1 \in Int /\ p + n \in Int /\ \A i \in (p + 1) .. (p + n) : s[i] \in S
  BY <1>1
<1>3. /\ SubSeq(s, p + 1, p + n) \in Seq(S)
      /\ Len(SubSeq(s, p + 1, p + n)) = IF p + 1 <= p + n THEN (p + n) - (p + 1) + 1 ELSE 0
      /\ \A i \in 1 .. ((p + n) - (p + 1) + 1) : SubSeq(s, p + 1, p + n)[i] = s[(p + 1) + i - 1]
  BY <1>2, SubSeqProperties
<1> DEFINE d == SubSeq(s, p + 1, p + n)
<1>4. d \in Seq(S) /\ Len(d) = n /\ \A i \in 1 .. n : d[i] = s[p + i]
  BY <1>1, <1>3
<1> HIDE DEF d
<1>5. Len(d) = Len(b) /\ \A i \in 1 .. Len(d) : d[i] = b[i]
  BY <1>1, <1>4, Zenon
<1>6. d = b
  BY <1>4, <1>5, SeqEqual, Zenon
<1> QED
  BY <1>1, <1>6, Zenon DEF d

\* The two parts of a sequence.
LEMMA Halves ==
  ASSUME NEW S, NEW a \in Seq(S), NEW b \in Seq(S), NEW s, s = a \o b
  PROVE  /\ s \in Seq(S) /\ Len(s) = Len(a) + Len(b)
         /\ SubSeq(s, 1, Len(a)) = a /\ SubSeq(s, Len(a) + 1, Len(s)) = b
<1>1. /\ s \in Seq(S) /\ Len(s) = Len(a) + Len(b) /\ Len(a) \in Nat /\ Len(b) \in Nat
      /\ \A i \in 1 .. (Len(a) + Len(b)) : s[i] = IF i <= Len(a) THEN a[i] ELSE b[i - Len(a)]
  BY ConcatProperties, LenProperties, Zenon
<1>2. ASSUME NEW m \in Nat, NEW n \in Nat, m = Len(a), n = Len(b)
      PROVE  SubSeq(s, 1, m) = a /\ SubSeq(s, m + 1, m + n) = b
  <2>1. 0 + n \in Nat /\ 0 + Len(a) =< Len(s) /\ m + Len(b) =< Len(s)
    BY <1>1, <1>2
  <2>2. \A i \in 1 .. Len(a) : s[0 + i] = a[i]
    BY <1>1, <1>2
  <2>3. \A i \in 1 .. Len(b) : s[m + i] = b[i]
    <3> TAKE i \in 1 .. Len(b)
    <3>1. m + i \in 1 .. (m + n) /\ ~(m + i <= m) /\ (m + i) - m = i
      BY <1>2
    <3> QED
      BY <1>1, <1>2, <3>1, Zenon
  <2>4. SubSeq(s, 0 + 1, 0 + Len(a)) = a
    BY <1>1, <2>1, <2>2, StretchIs, Zenon
  <2>5. SubSeq(s, m + 1, m + Len(b)) = b
    BY <1>1, <1>2, <2>1, <2>3, StretchIs, Zenon
  <2>6. 0 + 1 = 1 /\ 0 + Len(a) = m
    BY <1>2
  <2> QED
    BY <1>2, <2>4, <2>5, <2>6, Zenon
<1> QED
  BY <1>1, <1>2, Zenon

\* A document around its cursor: the lines before, the cursor's line in two
\* parts, the lines behind.
Around(d, pre, u, v, post) ==
  /\ pre \in Seq(Rows) /\ post \in Seq(Rows)
  /\ u \in Seq(Letters) /\ v \in Seq(Letters) /\ u \o v \in Rows
  /\ d.lines = (pre \o <<u \o v>>) \o post
  /\ d.y = Len(pre) /\ d.x = Len(u)

\* The text before the cursor and behind it.
TextBefore(pre, u) == Lead(pre) \o u
TextAfter(v, post) == v \o Trail(post)

\* The place of the cursor in the text.
Place(d) ==
  Len(Joined(SubSeq(d.lines, 1, d.y + 1))) - Len(CursorRow(d)) + d.x

\* Lines and their characters are text.
LEMMA RowsAreText ==
  /\ Letters \subseteq Text /\ Seq(Letters) \subseteq Seq(Text)
  /\ Rows \subseteq Seq(Text) /\ Rows \subseteq Seq(Letters) /\ Seq(Rows) \subseteq Lines
<1>1. Letters \subseteq Text
  BY Zenon DEF Text
<1>2. Seq(Letters) \subseteq Seq(Text)
  BY <1>1, SeqMonotonic, Zenon
<1>3. Rows \subseteq Seq(Letters)
  BY Zenon DEF Rows
<1>4. Rows \subseteq Seq(Text)
  BY <1>2, <1>3, Zenon
<1>5. Seq(Rows) \subseteq Seq(Seq(Text))
  BY <1>4, SeqMonotonic, Zenon
<1> QED
  BY <1>1, <1>2, <1>3, <1>4, <1>5, Zenon DEF Lines

\* Texts concatenated.
LEMMA TextConcat ==
  ASSUME NEW e \in Seq(Text), NEW f \in Seq(Text)
  PROVE  e \o f \in Seq(Text) /\ Len(e \o f) = Len(e) + Len(f) /\ Len(e) \in Nat /\ Len(f) \in Nat
  BY ConcatProperties, LenProperties, Zenon

\* Concatenation of texts is associative.
LEMMA TextAssociative ==
  ASSUME NEW e \in Seq(Text), NEW f \in Seq(Text), NEW g \in Seq(Text)
  PROVE  (e \o f) \o g = e \o (f \o g)
  BY ConcatAssociative

\* Every good document can be seen so.
LEMMA AroundExists ==
  ASSUME NEW d, Good(d)
  PROVE  \E pre, u, v, post : Around(d, pre, u, v, post)
<1>1. /\ d.lines \in Seq(Rows) /\ Len(d.lines) \in Nat
      /\ d.y \in Nat /\ d.y + 1 \in 1 .. Len(d.lines)
      /\ CursorRow(d) = d.lines[d.y + 1] /\ CursorRow(d) \in Rows
      /\ Len(CursorRow(d)) \in Nat /\ d.x \in 0 .. Len(CursorRow(d))
  BY GoodFacts, Zenon
<1>2. PICK s, y, row, x, n, w :
        /\ s = d.lines /\ y = d.y /\ row = CursorRow(d) /\ x = d.x
        /\ n = Len(s) /\ w = Len(row)
  BY Zenon
<1>3. /\ s \in Seq(Rows) /\ n \in Nat /\ n = Len(s) /\ y \in Nat /\ y + 1 \in 1 .. n
      /\ row = s[y + 1] /\ row \in Rows /\ row \in Seq(Letters)
      /\ w \in Nat /\ w = Len(row) /\ x \in 0 .. w
  BY <1>1, <1>2, Zenon DEF Rows
<1> DEFINE pre == SubSeq(s, 1, y)
           post == SubSeq(s, y + 2, n)
           u == SubSeq(row, 1, x)
           v == SubSeq(row, x + 1, w)
<1>4. u \o v = row /\ u \in Seq(Letters) /\ v \in Seq(Letters) /\ Len(u) = x
  <2>1. SubSeq(row, 1, x) \o SubSeq(row, x + 1, w) = SubSeq(row, 1, w)
    <3>1. 1 \in 1 .. (Len(row) + 1) /\ x \in (1 - 1) .. Len(row) /\ w \in x .. Len(row)
      BY <1>3
    <3> QED
      BY <1>3, <3>1, ConcatAdjacentSubSeq, Zenon
  <2>2. SubSeq(row, 1, w) = row
    BY <1>3, SubSeqFull, Zenon
  <2>3. u \in Seq(Letters) /\ Len(u) = x
    <3>1. 1 \in Int /\ x \in Int /\ \A i \in 1 .. x : row[i] \in Letters
      BY <1>3, ElementOfSeq
    <3> QED
      BY <1>3, <3>1, SubSeqProperties
  <2>4. v \in Seq(Letters)
    <3>1. x + 1 \in Int /\ w \in Int /\ \A i \in (x + 1) .. w : row[i] \in Letters
      BY <1>3, ElementOfSeq
    <3> QED
      BY <3>1, SubSeqProperties, Zenon
  <2> QED
    BY <2>1, <2>2, <2>3, <2>4, Zenon
<1>5. (pre \o <<row>>) \o post = s /\ pre \in Seq(Rows) /\ post \in Seq(Rows) /\ Len(pre) = y
  <2>1. SubSeq(s, 1, y + 1) \o SubSeq(s, y + 2, n) = SubSeq(s, 1, n)
    <3>1. 1 \in 1 .. (Len(s) + 1) /\ y + 1 \in (1 - 1) .. Len(s) /\ n \in (y + 1) .. Len(s)
          /\ (y + 1) + 1 = y + 2
      BY <1>3
    <3>2. SubSeq(s, 1, y + 1) \o SubSeq(s, (y + 1) + 1, n) = SubSeq(s, 1, n)
      BY <1>3, <3>1, ConcatAdjacentSubSeq, Zenon
    <3> QED
      BY <3>1, <3>2, Zenon
  <2>2. SubSeq(s, 1, n) = s
    BY <1>3, SubSeqFull, Zenon
  <2>3. SubSeq(s, 1, y + 1) = SubSeq(s, 1, y) \o <<s[y + 1]>>
    <3>1. 1 \in 1 .. Len(s) /\ y + 1 \in 1 .. Len(s) /\ (y + 1) - 1 = y
      BY <1>3
    <3>2. SubSeq(s, 1, y + 1) = SubSeq(s, 1, (y + 1) - 1) \o <<s[y + 1]>>
      BY <1>3, <3>1, SubSeqRecursiveSecond, Zenon
    <3> QED
      BY <3>1, <3>2, Zenon
  <2>4. pre \in Seq(Rows) /\ Len(pre) = y
    <3>1. 1 \in Int /\ y \in Int /\ \A i \in 1 .. y : s[i] \in Rows
      BY <1>3, ElementOfSeq
    <3> QED
      BY <1>3, <3>1, SubSeqProperties
  <2>5. post \in Seq(Rows)
    <3>1. y + 2 \in Int /\ n \in Int /\ \A i \in (y + 2) .. n : s[i] \in Rows
      BY <1>3, ElementOfSeq
    <3> QED
      BY <3>1, SubSeqProperties, Zenon
  <2> QED
    BY <1>3, <2>1, <2>2, <2>3, <2>4, <2>5, Zenon
<1> HIDE DEF pre, post, u, v
<1>6. Around(d, pre, u, v, post)
  BY <1>2, <1>3, <1>4, <1>5, Zenon DEF Around
<1> QED
  BY <1>6, Zenon

\* A row in its place, and the others with it.
RowPlaced(s, y, pre, row, post) ==
  /\ s \in Seq(Rows) /\ Len(s) = Len(pre) + 1 + Len(post)
  /\ Len(pre) \in Nat /\ Len(post) \in Nat /\ y = Len(pre)
  /\ s = (pre \o <<row>>) \o post /\ s[y + 1] = row
  /\ SubSeq(s, 1, y) = pre /\ SubSeq(s, 1, y + 1) = pre \o <<row>>
  /\ SubSeq(s, y + 2, Len(s)) = post

\* The lines of a document around its cursor are placed so.
LEMMA AroundParts ==
  ASSUME NEW d, NEW pre, NEW u, NEW v, NEW post, Around(d, pre, u, v, post)
  PROVE  RowPlaced(d.lines, d.y, pre, u \o v, post)
<1> SUFFICES ASSUME NEW s, s = d.lines, NEW row, row = u \o v
             PROVE  RowPlaced(s, d.y, pre, row, post)
  BY Zenon
<1>1. /\ pre \in Seq(Rows) /\ post \in Seq(Rows) /\ row \in Rows /\ <<row>> \in Seq(Rows)
      /\ s = (pre \o <<row>>) \o post /\ d.y = Len(pre)
  BY DEF Around
<1>0. pre \in Seq(Rows) /\ post \in Seq(Rows)
  BY <1>1, Zenon
<1>2. PICK r, y : r = <<row>> /\ y = d.y
  BY Zenon
<1>3. r \in Seq(Rows) /\ Len(r) = 1 /\ r[1] = row
  BY <1>1, <1>2, Zenon
<1>4. Len(pre) \in Nat /\ Len(post) \in Nat /\ y = Len(pre)
  BY <1>1, <1>2, LenProperties, Zenon
<1>5. PICK a : a = pre \o r
  BY Zenon
<1>6. a \in Seq(Rows) /\ Len(a) = y + 1
  <2>1. a \in Seq(Rows) /\ Len(a) = Len(pre) + Len(r)
    BY <1>0, <1>3, <1>5, ConcatProperties, Zenon
  <2> QED
    BY <1>3, <1>4, <2>1, Zenon
<1>7. /\ s \in Seq(Rows) /\ Len(s) = Len(a) + Len(post)
      /\ SubSeq(s, 1, Len(a)) = a /\ SubSeq(s, Len(a) + 1, Len(s)) = post
  BY <1>1, <1>2, <1>5, <1>6, Halves
<1>8. Len(a) = y + 1 /\ Len(a) + 1 = y + 2
  BY <1>4, <1>6
<1>9. s = pre \o (r \o post)
  <2>1. \A e, f, g \in Seq(Rows) : (e \o f) \o g = e \o (f \o g)
    BY ConcatAssociative
  <2> QED
    BY <1>1, <1>2, <1>3, <2>1, ZenonT(40)
<1>10. SubSeq(s, 1, y) = pre
  <2>1. PICK b : b = r \o post
    BY Zenon
  <2>2. b \in Seq(Rows) /\ s = pre \o b
    BY <1>1, <1>3, <1>9, <2>1, ConcatProperties, Zenon
  <2> QED
    BY <1>1, <1>4, <2>2, Halves
<1>11. s[y + 1] = row
  <2>1. a[y + 1] = row
    <3>1. \A i \in 1 .. (Len(pre) + Len(r)) : a[i] = IF i <= Len(pre) THEN pre[i] ELSE r[i - Len(pre)]
      BY <1>1, <1>3, <1>5, ConcatProperties, Zenon
    <3>2. y + 1 \in 1 .. (Len(pre) + Len(r)) /\ ~(y + 1 <= Len(pre)) /\ (y + 1) - Len(pre) = 1
      BY <1>3, <1>4
    <3> QED
      BY <1>3, <3>1, <3>2, Zenon
  <2>2. s = a \o post
    BY <1>1, <1>2, <1>5, Zenon
  <2>3. \A i \in 1 .. (Len(a) + Len(post)) : s[i] = IF i <= Len(a) THEN a[i] ELSE post[i - Len(a)]
    BY <1>0, <1>6, <2>2, ConcatProperties
  <2>4. y + 1 \in 1 .. (Len(a) + Len(post)) /\ y + 1 <= Len(a)
    BY <1>4, <1>8
  <2> QED
    BY <2>1, <2>3, <2>4, Zenon
<1> QED
  BY <1>1, <1>2, <1>4, <1>5, <1>7, <1>8, <1>10, <1>11, Zenon DEF RowPlaced

\* The text of a document, and the place of its cursor.
LEMMA AroundView ==
  ASSUME NEW d, NEW pre, NEW u, NEW v, NEW post, Around(d, pre, u, v, post)
  PROVE  /\ TextBefore(pre, u) \in Seq(Text) /\ TextAfter(v, post) \in Seq(Text)
         /\ Lead(pre) \in Seq(Text) /\ Trail(post) \in Seq(Text)
         /\ Joined(d.lines) = TextBefore(pre, u) \o TextAfter(v, post)
         /\ Place(d) = Len(TextBefore(pre, u))
         /\ CursorRow(d) = u \o v
<1>1. /\ pre \in Lines /\ post \in Lines /\ u \in Seq(Text) /\ v \in Seq(Text)
  BY RowsAreText, Zenon DEF Around
<1>2. PICK row, b, a, lead, trail :
        /\ row = u \o v /\ b = lead \o u /\ a = v \o trail
        /\ lead = Lead(pre) /\ trail = Trail(post)
  BY Zenon
<1>3. lead \in Seq(Text) /\ trail \in Seq(Text)
  BY <1>1, <1>2, LeadTrailType, Zenon
<1>4. row \in Seq(Text) /\ Len(row) = Len(u) + Len(v) /\ b \in Seq(Text) /\ a \in Seq(Text)
      /\ Len(b) = Len(lead) + Len(u)
  BY <1>1, <1>2, <1>3, ConcatProperties, Zenon
<1>5. row = u \o v
  BY <1>2, Zenon
<1>6. d.lines = (pre \o <<row>>) \o post /\ SubSeq(d.lines, 1, d.y + 1) = pre \o <<row>>
      /\ d.lines[d.y + 1] = row /\ d.x = Len(u)
  <2>1. d.lines = (pre \o <<row>>) \o post /\ SubSeq(d.lines, 1, d.y + 1) = pre \o <<row>>
        /\ d.lines[d.y + 1] = row
    <3>1. RowPlaced(d.lines, d.y, pre, row, post)
      BY <1>5, AroundParts, Zenon
    <3> QED
      BY <3>1, Zenon DEF RowPlaced
  <2> QED
    BY <2>1, Zenon DEF Around
<1>7. Joined(d.lines) = (lead \o row) \o trail
  <2>1. Joined((pre \o <<row>>) \o post) = (Lead(pre) \o row) \o Trail(post)
    BY <1>1, <1>4, JoinAround, Zenon
  <2> QED
    BY <1>2, <1>6, <2>1, Zenon
<1>8. (lead \o (u \o v)) \o trail = (lead \o u) \o (v \o trail)
  <2>1. (lead \o u) \o v = lead \o (u \o v)
    BY <1>1, <1>3, TextAssociative, ZenonT(40)
  <2>2. ((lead \o u) \o v) \o trail = (lead \o u) \o (v \o trail)
    <3>1. lead \o u \in Seq(Text)
      BY <1>1, <1>3, TextConcat, Zenon
    <3> QED
      BY <1>1, <1>3, <3>1, TextAssociative, ZenonT(40)
  <2> QED
    BY <2>1, <2>2, Zenon
<1>9. Joined(pre \o <<row>>) = lead \o row
  BY <1>1, <1>2, <1>4, JoinThrough, Zenon
<1>10. Len(lead \o row) = Len(lead) + Len(row)
  BY <1>3, <1>4, ConcatProperties, Zenon
<1>11. CursorRow(d) = row
  BY <1>6, Zenon DEF CursorRow, Row
<1>12. Place(d) = Len(b)
  <2>1. Place(d) = (Len(lead) + Len(row)) - Len(row) + Len(u)
    BY <1>6, <1>9, <1>10, <1>11, Zenon DEF Place
  <2>2. Len(lead) \in Nat /\ Len(row) \in Nat /\ Len(u) \in Nat
    BY <1>1, <1>3, <1>4, LenProperties, Zenon
  <2> QED
    BY <1>4, <2>1, <2>2
<1> QED
  BY <1>2, <1>3, <1>4, <1>7, <1>8, <1>11, <1>12, Zenon DEF TextBefore, TextAfter

\* And it is good if its lines are not too many.
LEMMA AroundGood ==
  ASSUME NEW d, NEW pre, NEW u, NEW v, NEW post, Around(d, pre, u, v, post),
         NEW lines, NEW y, NEW x, NEW scroll \in Nat, NEW dirty \in BOOLEAN,
         d = [lines |-> lines, y |-> y, x |-> x, scroll_y |-> scroll, dirty |-> dirty],
         Len(pre) + 1 + Len(post) =< MAX_LINES
  PROVE  Good(d)
<1>1. PICK row : row = u \o v
  BY Zenon
<1>2. /\ d.lines \in Seq(Rows) /\ Len(d.lines) = Len(pre) + 1 + Len(post)
      /\ Len(pre) \in Nat /\ Len(post) \in Nat /\ d.lines[d.y + 1] = row
  <2>1. RowPlaced(d.lines, d.y, pre, row, post)
    BY <1>1, AroundParts, Zenon
  <2> QED
    BY <2>1, Zenon DEF RowPlaced
<1>3. d.y = Len(pre) /\ d.x = Len(u) /\ u \in Seq(Letters) /\ v \in Seq(Letters)
  BY Zenon DEF Around
<1>4. Len(row) = Len(u) + Len(v) /\ Len(u) \in Nat /\ Len(v) \in Nat
  BY <1>1, <1>3, ConcatProperties, LenProperties, Zenon
<1>5. d.lines = lines /\ d.y = y /\ d.x = x
  BY Zenon
<1>6. d \in Docs
  BY <1>2, <1>3, <1>4, <1>5, Zenon DEF Docs
<1>7. d.y < Len(d.lines) /\ d.x =< Len(d.lines[d.y + 1]) /\ Len(d.lines) =< MAX_LINES
  <2>1. d.y < Len(d.lines) /\ Len(d.lines) =< MAX_LINES
    <3>1. PICK m, n, k : m = Len(pre) /\ n = Len(post) /\ k = Len(d.lines)
      BY Zenon
    <3>2. m \in Nat /\ n \in Nat /\ k = m + 1 + n /\ m + 1 + n =< MAX_LINES /\ d.y = m
      BY <1>2, <1>3, <3>1, Zenon
    <3>3. m < k /\ k =< MAX_LINES
      BY <3>2
    <3> QED
      BY <3>1, <3>2, <3>3, Zenon
  <2>2. Len(u) =< Len(row)
    BY <1>4
  <2> QED
    BY <1>2, <1>3, <2>1, <2>2, Zenon
<1> QED
  BY <1>6, <1>7, Zenon DEF Good

\* Another row in the place of the cursor's.
LEMMA RowReplaced ==
  ASSUME NEW s, NEW y, NEW pre, NEW row, NEW post, RowPlaced(s, y, pre, row, post),
         pre \in Seq(Rows), post \in Seq(Rows), NEW r \in Rows
  PROVE  [s EXCEPT ![y + 1] = r] = (pre \o <<r>>) \o post
<1>1. /\ s \in Seq(Rows) /\ Len(s) = Len(pre) + 1 + Len(post)
      /\ Len(pre) \in Nat /\ Len(post) \in Nat /\ y = Len(pre)
      /\ SubSeq(s, 1, y) = pre /\ SubSeq(s, y + 2, Len(s)) = post
  BY Zenon DEF RowPlaced
<1>2. PICK e, one, n : e = [s EXCEPT ![y + 1] = r] /\ one = <<r>> /\ n = Len(s)
  BY Zenon
<1>3. e \in Seq(Rows) /\ Len(e) = n /\ \A j \in 1 .. n : e[j] = IF j = y + 1 THEN r ELSE s[j]
  <2>1. y + 1 \in 1 .. Len(s)
    BY <1>1
  <2> QED
    BY <1>1, <1>2, <2>1, ExceptSeq
<1>4. one \in Seq(Rows) /\ Len(one) = 1 /\ one[1] = r
  BY <1>2
<1>5. PICK a, b : a = pre \o one /\ b = a \o post
  BY Zenon
<1>6. /\ a \in Seq(Rows) /\ Len(a) = Len(pre) + Len(one)
      /\ \A i \in 1 .. (Len(pre) + Len(one)) : a[i] = IF i <= Len(pre) THEN pre[i] ELSE one[i - Len(pre)]
  BY <1>4, <1>5, ConcatProperties, Zenon
<1>7. /\ b \in Seq(Rows) /\ Len(b) = Len(a) + Len(post)
      /\ \A i \in 1 .. (Len(a) + Len(post)) : b[i] = IF i <= Len(a) THEN a[i] ELSE post[i - Len(a)]
  BY <1>5, <1>6, ConcatProperties
<1>8. \A i \in 1 .. y : pre[i] = s[i]
  <2>1. 1 \in Int /\ y \in Int /\ \A i \in 1 .. y : s[i] \in Rows
    BY <1>1, ElementOfSeq
  <2>2. \A i \in 1 .. (y - 1 + 1) : SubSeq(s, 1, y)[i] = s[1 + i - 1]
    BY <2>1, SubSeqProperties
  <2>3. y - 1 + 1 = y /\ \A i \in 1 .. y : 1 + i - 1 = i
    BY <1>1
  <2> QED
    BY <1>1, <2>2, <2>3, Zenon
<1>9. \A i \in 1 .. Len(post) : post[i] = s[y + 1 + i]
  <2>0. PICK m : m = y + 2
    BY Zenon
  <2>1. m \in Int /\ n \in Int /\ n = Len(s) /\ \A i \in m .. n : s[i] \in Rows
    BY <1>1, <1>2, <2>0, ElementOfSeq
  <2>2. \A i \in 1 .. (n - m + 1) : SubSeq(s, m, n)[i] = s[m + i - 1]
    BY <2>1, SubSeqProperties
  <2>3. n - m + 1 = Len(post) /\ \A i \in 1 .. Len(post) : m + i - 1 = y + 1 + i
    BY <1>1, <1>2, <2>0
  <2>4. SubSeq(s, m, n) = post
    BY <1>1, <1>2, <2>0, Zenon
  <2> QED
    BY <2>2, <2>3, <2>4, Zenon
<1>10. Len(b) = n /\ Len(a) = y + 1 /\ Len(one) = 1
  BY <1>1, <1>2, <1>4, <1>6, <1>7, Zenon
<1>11. ASSUME NEW i \in 1 .. n PROVE e[i] = b[i]
  <2>1. CASE i <= y
    <3>1. i \in 1 .. y /\ i \in 1 .. (Len(pre) + Len(one)) /\ i \in 1 .. (Len(a) + Len(post))
          /\ i <= Len(pre) /\ i <= Len(a) /\ i # y + 1
      BY <1>1, <1>2, <1>10, <2>1
    <3> QED
      BY <1>3, <1>6, <1>7, <1>8, <3>1, Zenon
  <2>2. CASE i = y + 1
    <3>1. i \in 1 .. (Len(pre) + Len(one)) /\ i \in 1 .. (Len(a) + Len(post))
          /\ ~(i <= Len(pre)) /\ i <= Len(a) /\ i - Len(pre) = 1
      BY <1>1, <1>2, <1>10, <2>2
    <3> QED
      BY <1>3, <1>4, <1>6, <1>7, <2>2, <3>1, Zenon
  <2>3. CASE i > y + 1
    <3>1. i \in 1 .. (Len(a) + Len(post)) /\ ~(i <= Len(a)) /\ i - Len(a) \in 1 .. Len(post)
          /\ y + 1 + (i - Len(a)) = i /\ i # y + 1
      BY <1>1, <1>2, <1>10, <2>3
    <3>2. b[i] = post[i - Len(a)] /\ e[i] = s[i]
      BY <1>3, <1>7, <3>1, Zenon
    <3> QED
      BY <1>9, <3>1, <3>2, Zenon
  <2> QED
    BY <1>1, <1>2, <2>1, <2>2, <2>3
<1>12. e = b
  BY <1>3, <1>7, <1>10, <1>11, SeqEqual, Zenon
<1> QED
  BY <1>2, <1>5, <1>12, Zenon

\* A row in two parts, with x between them.
RowHalves(row, x, u, v) ==
  /\ row = u \o v /\ row \in Rows /\ Len(row) = Len(u) + Len(v)
  /\ Len(u) \in Nat /\ Len(v) \in Nat /\ x = Len(u)
  /\ SubSeq(row, 1, x) = u /\ SubSeq(row, x + 1, Len(row)) = v

\* The cursor divides its row so.
LEMMA AroundHalves ==
  ASSUME NEW d, NEW pre, NEW u, NEW v, NEW post, Around(d, pre, u, v, post), NEW row, row = CursorRow(d)
  PROVE  RowHalves(row, d.x, u, v)
<1>1. u \in Seq(Letters) /\ v \in Seq(Letters) /\ d.x = Len(u) /\ u \o v \in Rows
  BY Zenon DEF Around
<1>2. row = u \o v
  <2>1. CursorRow(d) = u \o v
    BY AroundView
  <2> QED
    BY <2>1, Zenon
<1>3. /\ Len(row) = Len(u) + Len(v)
      /\ SubSeq(row, 1, Len(u)) = u /\ SubSeq(row, Len(u) + 1, Len(row)) = v
  BY <1>1, <1>2, Halves
<1>4. Len(u) \in Nat /\ Len(v) \in Nat
  BY <1>1, LenProperties, Zenon
<1> QED
  BY <1>1, <1>2, <1>3, <1>4, Zenon DEF RowHalves

\* A document with one row changed.
LEMMA RowEdited ==
  ASSUME NEW d, Good(d), NEW pre, NEW u, NEW v, NEW post, Around(d, pre, u, v, post),
         NEW a \in Seq(Letters), NEW b \in Seq(Letters), a \o b \in Rows,
         NEW e, NEW dirty \in BOOLEAN,
         e = [lines |-> [d.lines EXCEPT ![d.y + 1] = a \o b], y |-> d.y, x |-> Len(a),
              scroll_y |-> d.scroll_y, dirty |-> dirty]
  PROVE  Around(e, pre, a, b, post) /\ Good(e)
<1>1. RowPlaced(d.lines, d.y, pre, u \o v, post)
  BY AroundParts, Zenon
<1>2. pre \in Seq(Rows) /\ post \in Seq(Rows) /\ d.y = Len(pre)
  BY Zenon DEF Around
<1>3. PICK r : r = a \o b
  BY Zenon
<1>4. [d.lines EXCEPT ![d.y + 1] = r] = (pre \o <<r>>) \o post
  <2>1. PICK s, y, row : s = d.lines /\ y = d.y /\ row = u \o v
    BY Zenon
  <2>2. RowPlaced(s, y, pre, row, post) /\ r \in Rows
    BY <1>1, <1>3, <2>1, Zenon
  <2>3. [s EXCEPT ![y + 1] = r] = (pre \o <<r>>) \o post
    BY <1>2, <2>2, RowReplaced
  <2> QED
    BY <2>1, <2>3, Zenon
<1>5. e.lines = (pre \o <<r>>) \o post /\ e.y = d.y /\ e.x = Len(a)
  BY <1>3, <1>4, Zenon
<1>6. Around(e, pre, a, b, post)
  BY <1>2, <1>3, <1>5, Zenon DEF Around
<1>7. Len(pre) + 1 + Len(post) =< MAX_LINES
  BY <1>1, Zenon DEF Good, RowPlaced
<1>8. d.scroll_y \in Nat
  BY GoodFacts, Zenon
<1>9. PICK lines : lines = [d.lines EXCEPT ![d.y + 1] = a \o b]
  BY Zenon
<1>10. e = [lines |-> lines, y |-> d.y, x |-> Len(a), scroll_y |-> d.scroll_y, dirty |-> dirty]
  BY <1>9, Zenon
<1> QED
  BY <1>6, <1>7, <1>8, <1>10, AroundGood, Zenon

\* A document is its fields.
LEMMA DocFields ==
  ASSUME NEW d, Good(d)
  PROVE  /\ d = [lines |-> d.lines, y |-> d.y, x |-> d.x, scroll_y |-> d.scroll_y, dirty |-> d.dirty]
         /\ d.dirty \in BOOLEAN /\ d.scroll_y \in Nat /\ d.y \in Nat /\ d.x \in Nat
  BY Zenon DEF Good, Docs

\* A character typed lands between the two parts of the cursor's line.
LEMMA InsertAround ==
  ASSUME NEW d, Good(d), NEW pre, NEW u, NEW v, NEW post, Around(d, pre, u, v, post),
         NEW ch \in Letters, NEW e, e = insert_char(d, ch)
  PROVE  e = d \/ (Around(e, pre, u \o <<ch>>, v, post) /\ Good(e))
<1>1. PICK row : row = CursorRow(d)
  BY Zenon
<1>2. /\ row = u \o v /\ row \in Rows /\ Len(row) = Len(u) + Len(v)
      /\ Len(u) \in Nat /\ Len(v) \in Nat /\ d.x = Len(u)
      /\ SubSeq(row, 1, d.x) = u /\ SubSeq(row, d.x + 1, Len(row)) = v
  <2>1. RowHalves(row, d.x, u, v)
    BY <1>1, AroundHalves, Zenon
  <2> QED
    BY <2>1, Zenon DEF RowHalves
<1>3. CASE Len(row) >= MAX_LINE_LEN - 1
  BY <1>1, <1>3, Zenon DEF insert_char
<1>4. CASE ~(Len(row) >= MAX_LINE_LEN - 1)
  <2>1. PICK c, a, r : c = <<ch>> /\ a = u \o c /\ r = a \o v
    BY Zenon
  <2>2. u \in Seq(Letters) /\ v \in Seq(Letters) /\ c \in Seq(Letters) /\ Len(c) = 1
    BY <2>1 DEF Around
  <2>3. a \in Seq(Letters) /\ Len(a) = Len(u) + 1
    BY <2>1, <2>2, ConcatProperties, Zenon
  <2>4. r \in Seq(Letters) /\ Len(r) = Len(a) + Len(v)
    BY <2>1, <2>2, <2>3, ConcatProperties, Zenon
  <2>5. r \in Rows
    BY <1>2, <1>4, <2>3, <2>4, EditorAssumption DEF Rows
  <2>6. Spliced(row, d.x, c, d.x + 1) = r
    BY <1>2, <2>1, Zenon DEF Spliced
  <2>7. e = [d EXCEPT !.lines[d.y + 1] = Spliced(@, d.x, c, d.x + 1), !.x = @ + 1]
    BY <1>1, <1>4, <2>1, Zenon DEF insert_char
  <2>8. d.lines[d.y + 1] = row
    BY <1>1, Zenon DEF CursorRow, Row
  <2>9. e = [lines |-> [d.lines EXCEPT ![d.y + 1] = r], y |-> d.y, x |-> Len(a),
             scroll_y |-> d.scroll_y, dirty |-> d.dirty]
    <3>1. d.x + 1 = Len(a)
      BY <1>2, <2>3, Zenon
    <3> QED
      BY <2>6, <2>7, <2>8, <3>1, DocFields, Zenon
  <2>10. a \o v \in Rows /\ d.dirty \in BOOLEAN
    BY <2>1, <2>5, DocFields, Zenon
  <2>11. e = [lines |-> [d.lines EXCEPT ![d.y + 1] = a \o v], y |-> d.y, x |-> Len(a),
              scroll_y |-> d.scroll_y, dirty |-> d.dirty]
    BY <2>1, <2>9, Zenon
  <2>12. Around(e, pre, a, v, post) /\ Good(e)
    BY <2>2, <2>3, <2>10, <2>11, RowEdited, Zenon
  <2> QED
    BY <2>1, <2>12, Zenon
<1> QED
  BY <1>3, <1>4, Zenon

\* Backspace in a line takes the last character of its first part.
LEMMA BackspaceAround ==
  ASSUME NEW d, Good(d), NEW pre, NEW w, NEW c, NEW v, NEW post,
         w \in Seq(Letters), c \in Letters, Around(d, pre, w \o <<c>>, v, post),
         NEW e, e = handle_backspace(d)
  PROVE  Around(e, pre, w, v, post) /\ Good(e)
<1>1. PICK row, one, u : row = CursorRow(d) /\ one = <<c>> /\ u = w \o one
  BY Zenon
<1>2. Around(d, pre, u, v, post)
  BY <1>1, Zenon
<1>3. /\ row = u \o v /\ row \in Rows /\ Len(row) = Len(u) + Len(v)
      /\ Len(u) \in Nat /\ Len(v) \in Nat /\ d.x = Len(u)
      /\ SubSeq(row, d.x + 1, Len(row)) = v
  <2>1. RowHalves(row, d.x, u, v)
    BY <1>1, <1>2, AroundHalves, Zenon
  <2> QED
    BY <2>1, Zenon DEF RowHalves
<1>4. w \in Seq(Letters) /\ one \in Seq(Letters) /\ v \in Seq(Letters) /\ Len(one) = 1
  BY <1>1, <1>2 DEF Around
<1>5. Len(u) = Len(w) + 1 /\ Len(w) \in Nat
  BY <1>1, <1>4, ConcatProperties, LenProperties, Zenon
<1>6. d.x > 0 /\ d.x - 1 = Len(w)
  BY <1>3, <1>5
<1>7. SubSeq(row, 1, d.x - 1) = w
  <2>1. PICK b : b = one \o v
    BY Zenon
  <2>2. b \in Seq(Letters)
    BY <1>4, <2>1, ConcatProperties, Zenon
  <2>3. row = w \o b
    <3>1. (w \o one) \o v = w \o (one \o v)
      BY <1>4, ConcatAssociative
    <3> QED
      BY <1>1, <1>3, <2>1, <3>1, Zenon
  <2>4. SubSeq(row, 1, Len(w)) = w
    BY <1>4, <2>2, <2>3, Halves
  <2> QED
    BY <1>6, <2>4, Zenon
<1>8. PICK r : r = w \o v
  BY Zenon
<1>9. r \in Rows
  <2>1. r \in Seq(Letters) /\ Len(r) = Len(w) + Len(v)
    BY <1>4, <1>8, ConcatProperties, Zenon
  <2> QED
    BY <1>3, <1>5, <2>1, EditorAssumption DEF Rows
<1>10. Spliced(row, d.x - 1, <<>>, d.x + 1) = r
  <2>1. w \o <<>> = w
    BY <1>4, ConcatEmptySeq, Zenon
  <2> QED
    BY <1>3, <1>7, <1>8, <2>1, Zenon DEF Spliced
<1>11. e = [d EXCEPT !.lines[d.y + 1] = Spliced(@, d.x - 1, <<>>, d.x + 1), !.x = @ - 1]
  BY <1>6, Zenon DEF handle_backspace
<1>12. d.lines[d.y + 1] = row
  BY <1>1, Zenon DEF CursorRow, Row
<1>13. e = [lines |-> [d.lines EXCEPT ![d.y + 1] = r], y |-> d.y, x |-> Len(w),
            scroll_y |-> d.scroll_y, dirty |-> d.dirty]
  BY <1>6, <1>10, <1>11, <1>12, DocFields, Zenon
<1>14. e = [lines |-> [d.lines EXCEPT ![d.y + 1] = w \o v], y |-> d.y, x |-> Len(w),
            scroll_y |-> d.scroll_y, dirty |-> d.dirty]
  BY <1>8, <1>13, Zenon
<1>15. w \o v \in Rows /\ d.dirty \in BOOLEAN
  BY <1>8, <1>9, DocFields, Zenon
<1> QED
  BY <1>2, <1>4, <1>14, <1>15, RowEdited, Zenon

\* Concatenation of rows is associative.
LEMMA RowsAssociative ==
  ASSUME NEW e \in Seq(Rows), NEW f \in Seq(Rows), NEW g \in Seq(Rows)
  PROVE  (e \o f) \o g = e \o (f \o g) /\ e \o f \in Seq(Rows)
<1> DEFINE R == Rows
<1>1. e \in Seq(R) /\ f \in Seq(R) /\ g \in Seq(R)
  BY Zenon
<1> HIDE DEF R
<1>2. (e \o f) \o g = e \o (f \o g) /\ e \o f \in Seq(R)
  BY <1>1, ConcatAssociative, ConcatProperties
<1> QED
  BY <1>2, Zenon DEF R

\* Two rows one by one.
LEMMA Pair ==
  ASSUME NEW e, NEW f
  PROVE  <<e>> \o <<f>> = <<e, f>>
<1>1. PICK S, a, b, c : S = {e, f} /\ a = <<e>> /\ b = <<f>> /\ c = <<e, f>>
  BY Zenon
<1>2. /\ a \in Seq(S) /\ Len(a) = 1 /\ a[1] = e /\ b \in Seq(S) /\ Len(b) = 1 /\ b[1] = f
      /\ c \in Seq(S) /\ Len(c) = 2 /\ c[1] = e /\ c[2] = f
  BY <1>1
<1>3. PICK t : t = a \o b
  BY Zenon
<1>4. /\ t \in Seq(S) /\ Len(t) = Len(a) + Len(b)
      /\ \A i \in 1 .. (Len(a) + Len(b)) : t[i] = IF i <= Len(a) THEN a[i] ELSE b[i - Len(a)]
  BY <1>2, <1>3, ConcatProperties, Zenon
<1>5. Len(t) = 2 /\ t[1] = e /\ t[2] = f
  BY <1>2, <1>4
<1>6. \A i \in 1 .. 2 : t[i] = c[i]
  BY <1>2, <1>5
<1>7. t = c
  BY <1>2, <1>4, <1>5, <1>6, SeqEqual, Zenon
<1> QED
  BY <1>1, <1>3, <1>7, Zenon

\* Enter ends the line before the cursor and begins one behind it.
LEMMA EnterAround ==
  ASSUME NEW d, Good(d), NEW pre, NEW u, NEW v, NEW post, Around(d, pre, u, v, post),
         NEW e, e = handle_enter(d)
  PROVE  e = d \/ (Around(e, pre \o <<u>>, <<>>, v, post) /\ Good(e))
<1>1. PICK row, s : row = CursorRow(d) /\ s = d.lines
  BY Zenon
<1>2. /\ row \in Rows /\ Len(row) = Len(u) + Len(v)
      /\ Len(u) \in Nat /\ Len(v) \in Nat
      /\ SubSeq(row, 1, d.x) = u /\ SubSeq(row, d.x + 1, Len(row)) = v
  <2>1. RowHalves(row, d.x, u, v)
    BY <1>1, AroundHalves, Zenon
  <2> QED
    BY <2>1, Zenon DEF RowHalves
<1>3. CASE Len(s) >= MAX_LINES - 1
  BY <1>1, <1>3, Zenon DEF handle_enter
<1>4. CASE ~(Len(s) >= MAX_LINES - 1)
  <2>1. /\ u \in Seq(Letters) /\ v \in Seq(Letters) /\ pre \in Seq(Rows) /\ post \in Seq(Rows)
        /\ d.y = Len(pre)
    BY Zenon DEF Around
  <2>2. u \in Rows /\ v \in Rows
    BY <1>2, <2>1, EditorAssumption DEF Rows
  <2>3. /\ Len(s) = Len(pre) + 1 + Len(post) /\ Len(pre) \in Nat /\ Len(post) \in Nat
        /\ SubSeq(s, 1, d.y) = pre /\ SubSeq(s, d.y + 2, Len(s)) = post
    <3>1. RowPlaced(d.lines, d.y, pre, u \o v, post)
      BY AroundParts, Zenon
    <3>2. RowPlaced(s, d.y, pre, u \o v, post)
      BY <1>1, <3>1, Zenon
    <3> QED
      BY <3>2, Zenon DEF RowPlaced
  <2>4. PICK a, b, q : a = <<u>> /\ b = <<v>> /\ q = pre \o a
    BY Zenon
  <2>5. a \in Seq(Rows) /\ b \in Seq(Rows) /\ Len(a) = 1 /\ a \o b = <<u, v>>
    <3>1. a \in Seq(Rows) /\ b \in Seq(Rows) /\ Len(a) = 1
      BY <2>2, <2>4
    <3>2. <<u>> \o <<v>> = <<u, v>>
      BY Pair, Zenon
    <3> QED
      BY <2>4, <3>1, <3>2, Zenon
  <2>6. q \in Seq(Rows) /\ Len(q) = Len(pre) + 1
    <3>1. q \in Seq(Rows) /\ Len(q) = Len(pre) + Len(a)
      BY <2>1, <2>4, <2>5, ConcatProperties, Zenon
    <3> QED
      BY <2>5, <3>1, Zenon
  <2>7. Spliced(s, d.y, <<u, v>>, d.y + 2) = (q \o b) \o post
    <3>1. (pre \o a) \o b = pre \o (a \o b)
      BY <2>1, <2>5, RowsAssociative, ZenonT(40)
    <3> QED
      BY <2>3, <2>4, <2>5, <3>1, Zenon DEF Spliced
  <2>8. e = [d EXCEPT !.lines = Spliced(@, d.y, <<u, v>>, d.y + 2), !.y = @ + 1, !.x = 0]
    BY <1>1, <1>2, <1>4, Zenon DEF handle_enter
  <2>9. PICK lines : lines = (q \o b) \o post
    BY Zenon
  <2>10. e = [lines |-> lines, y |-> d.y + 1, x |-> 0, scroll_y |-> d.scroll_y, dirty |-> d.dirty]
    BY <1>1, <2>7, <2>8, <2>9, DocFields, Zenon
  <2>11. Around(e, q, <<>>, v, post)
    <3>1. <<>> \in Seq(Letters) /\ <<>> \o v = v /\ Len(<<>>) = 0
      BY <2>1, ConcatEmptySeq
    <3>2. e.lines = (q \o b) \o post /\ e.y = d.y + 1 /\ e.x = 0
      BY <2>9, <2>10
    <3>3. e.y = Len(q)
      BY <2>1, <2>3, <2>6, <3>2, Zenon
    <3>4. <<>> \o v \in Rows /\ e.lines = (q \o <<<<>> \o v>>) \o post
      BY <2>2, <2>4, <3>1, <3>2, Zenon
    <3> QED
      BY <2>1, <2>6, <3>1, <3>2, <3>3, <3>4, Zenon DEF Around
  <2>12. Len(q) + 1 + Len(post) =< MAX_LINES
    BY <1>4, <2>3, <2>6, EditorAssumption
  <2>13. d.scroll_y \in Nat /\ d.dirty \in BOOLEAN
    BY DocFields, Zenon
  <2>14. Good(e)
    BY <2>10, <2>11, <2>12, <2>13, AroundGood, Zenon
  <2> QED
    BY <2>4, <2>11, <2>14, Zenon
<1> QED
  BY <1>3, <1>4, Zenon

\* Backspace at the start of a line joins it to the one before.
LEMMA JoinLinesAround ==
  ASSUME NEW d, Good(d), NEW q, NEW p, NEW v, NEW post,
         q \in Seq(Rows), p \in Rows, Around(d, q \o <<p>>, <<>>, v, post),
         NEW e, e = handle_backspace(d)
  PROVE  e = d \/ (Around(e, q, p, v, post) /\ Good(e))
<1>1. PICK one, pre, s : one = <<p>> /\ pre = q \o one /\ s = d.lines
  BY Zenon
<1>2. Around(d, pre, <<>>, v, post)
  BY <1>1, Zenon
<1>3. /\ v \in Seq(Letters) /\ pre \in Seq(Rows) /\ post \in Seq(Rows) /\ <<>> \o v \in Rows
      /\ d.y = Len(pre) /\ d.x = Len(<<>>)
  BY <1>2, Zenon DEF Around
<1>4. <<>> \o v = v /\ v \in Rows /\ d.x = 0
  BY <1>3, ConcatEmptySeq, Zenon
<1>5. /\ Len(s) = Len(pre) + 1 + Len(post) /\ Len(pre) \in Nat /\ Len(post) \in Nat
      /\ s = (pre \o <<v>>) \o post /\ s[d.y + 1] = v
      /\ SubSeq(s, d.y + 2, Len(s)) = post
  <2>1. RowPlaced(d.lines, d.y, pre, <<>> \o v, post)
    BY <1>2, AroundParts, Zenon
  <2>2. RowPlaced(s, d.y, pre, v, post)
    BY <1>1, <1>4, <2>1, Zenon
  <2> QED
    BY <2>2, Zenon DEF RowPlaced
<1>6. one \in Seq(Rows) /\ Len(one) = 1 /\ one[1] = p
  BY <1>1
<1>7. Len(pre) = Len(q) + 1 /\ Len(q) \in Nat
  <2>1. Len(pre) = Len(q) + Len(one) /\ Len(q) \in Nat
    BY <1>1, <1>6, ConcatProperties, LenProperties, Zenon
  <2> QED
    BY <1>6, <2>1, Zenon
<1>8. d.y > 0 /\ d.y - 1 = Len(q)
  BY <1>3, <1>7
<1>9. PICK b, t : b = <<v>> /\ t = b \o post
  BY Zenon
<1>10. b \in Seq(Rows) /\ t \in Seq(Rows)
  BY <1>3, <1>4, <1>9, ConcatProperties
<1>11. PICK z : z = one \o t
  BY Zenon
<1>12. s = q \o z /\ z \in Seq(Rows)
  <2>1. (pre \o b) \o post = pre \o (b \o post)
    <3>1. pre \in Seq(Rows) /\ b \in Seq(Rows) /\ post \in Seq(Rows)
      BY <1>3, <1>10, Zenon
    <3> QED
      BY <3>1, RowsAssociative
  <2>2. (q \o one) \o t = q \o (one \o t) /\ one \o t \in Seq(Rows)
    BY <1>6, <1>10, RowsAssociative, ZenonT(40)
  <2> QED
    BY <1>1, <1>5, <1>9, <1>11, <2>1, <2>2, Zenon
<1>13. SubSeq(s, 1, d.y - 1) = q
  <2>1. SubSeq(s, 1, Len(q)) = q
    BY <1>12, Halves
  <2> QED
    BY <1>8, <2>1, Zenon
<1>14. Row(d, d.y - 1) = p
  <2>1. \A i \in 1 .. (Len(one) + Len(t)) : z[i] = IF i <= Len(one) THEN one[i] ELSE t[i - Len(one)]
    BY <1>6, <1>10, <1>11, ConcatProperties, Zenon
  <2>2. Len(t) \in Nat /\ Len(z) = Len(one) + Len(t)
    BY <1>6, <1>10, <1>11, ConcatProperties, LenProperties, Zenon
  <2>3. z[1] = p
    BY <1>6, <2>1, <2>2
  <2>4. \A i \in 1 .. (Len(q) + Len(z)) : s[i] = IF i <= Len(q) THEN q[i] ELSE z[i - Len(q)]
    BY <1>12, ConcatProperties, Zenon
  <2>5. d.y \in 1 .. (Len(q) + Len(z)) /\ ~(d.y <= Len(q)) /\ d.y - Len(q) = 1 /\ (d.y - 1) + 1 = d.y
    BY <1>6, <1>7, <1>8, <2>2, <1>3
  <2>6. s[d.y] = p
    BY <2>3, <2>4, <2>5, Zenon
  <2> QED
    BY <1>1, <2>5, <2>6, Zenon DEF Row
<1>15. CursorRow(d) = v
  BY <1>1, <1>5, Zenon DEF CursorRow, Row
<1>16. CASE ~(Len(p) + Len(v) < MAX_LINE_LEN)
  BY <1>4, <1>14, <1>15, <1>16 DEF handle_backspace
<1>17. CASE Len(p) + Len(v) < MAX_LINE_LEN
  <2>1. PICK r, lines : r = p \o v /\ lines = (q \o <<r>>) \o post
    BY Zenon
  <2>2. p \in Seq(Letters) /\ Len(p) \in Nat /\ Len(v) \in Nat
    BY <1>3, LenProperties, Zenon DEF Rows
  <2>3. r \in Rows
    <3>1. r \in Seq(Letters) /\ Len(r) = Len(p) + Len(v)
      BY <1>3, <2>1, <2>2, ConcatProperties, Zenon
    <3> QED
      BY <1>17, <2>2, <3>1, EditorAssumption DEF Rows
  <2>4. e = [d EXCEPT !.lines = Spliced(@, d.y - 1, <<r>>, d.y + 2), !.y = @ - 1, !.x = Len(p)]
    <3>1. ~(d.x > 0) /\ d.y > 0 /\ Len(Row(d, d.y - 1)) + Len(CursorRow(d)) < MAX_LINE_LEN
      BY <1>4, <1>8, <1>14, <1>15, <1>17
    <3>2. e = [d EXCEPT !.lines = Spliced(@, d.y - 1, <<Row(d, d.y - 1) \o CursorRow(d)>>, d.y + 2),
                        !.y = @ - 1, !.x = Len(Row(d, d.y - 1))]
      BY <3>1, Zenon DEF handle_backspace
    <3> QED
      BY <1>14, <1>15, <2>1, <3>2, Zenon
  <2>5. Spliced(s, d.y - 1, <<r>>, d.y + 2) = lines
    BY <1>5, <1>13, <2>1, Zenon DEF Spliced
  <2>6. e = [lines |-> lines, y |-> Len(q), x |-> Len(p), scroll_y |-> d.scroll_y, dirty |-> d.dirty]
    BY <1>1, <1>8, <2>4, <2>5, DocFields, ZenonT(40)
  <2>7. Around(e, q, p, v, post)
    <3>1. e.lines = (q \o <<p \o v>>) \o post /\ e.y = Len(q) /\ e.x = Len(p)
      BY <2>1, <2>6
    <3>2. p \o v \in Rows
      BY <2>1, <2>3, Zenon
    <3> QED
      BY <1>3, <2>2, <3>1, <3>2, Zenon DEF Around
  <2>8. Len(q) + 1 + Len(post) =< MAX_LINES
    <3>1. Len(s) =< MAX_LINES
      BY <1>1, Zenon DEF Good
    <3> QED
      BY <1>5, <1>7, <3>1, EditorAssumption
  <2>9. d.scroll_y \in Nat /\ d.dirty \in BOOLEAN
    BY DocFields, Zenon
  <2>10. Good(e)
    BY <2>6, <2>7, <2>8, <2>9, AroundGood, Zenon
  <2> QED
    BY <2>7, <2>10, Zenon
<1> QED
  BY <1>16, <1>17, Zenon

\* A document whose text is b before the cursor and a behind it.
HasView(d, b, a) ==
  /\ Good(d)
  /\ \E pre, u, v, post : /\ Around(d, pre, u, v, post)
                          /\ b = TextBefore(pre, u) /\ a = TextAfter(v, post)

\* The text then is b and a, with the cursor between them.
LEMMA ViewFacts ==
  ASSUME NEW d, NEW b, NEW a, HasView(d, b, a)
  PROVE  /\ b \in Seq(Text) /\ a \in Seq(Text) /\ Good(d)
         /\ Joined(d.lines) = b \o a /\ Place(d) = Len(b)
<1>1. PICK pre, u, v, post : /\ Around(d, pre, u, v, post)
                             /\ b = TextBefore(pre, u) /\ a = TextAfter(v, post)
  BY Zenon DEF HasView
<1>2. /\ TextBefore(pre, u) \in Seq(Text) /\ TextAfter(v, post) \in Seq(Text)
      /\ Joined(d.lines) = TextBefore(pre, u) \o TextAfter(v, post)
      /\ Place(d) = Len(TextBefore(pre, u))
  <2>1. Around(d, pre, u, v, post)
    BY <1>1, Zenon
  <2>2. TextBefore(pre, u) \in Seq(Text) /\ TextAfter(v, post) \in Seq(Text)
    BY <2>1, AroundView, Zenon
  <2>3. Joined(d.lines) = TextBefore(pre, u) \o TextAfter(v, post)
    BY <2>1, AroundView
  <2>4. Place(d) = Len(TextBefore(pre, u))
    BY <2>1, AroundView, Zenon
  <2> QED
    BY <2>2, <2>3, <2>4, Zenon
<1> QED
  BY <1>1, <1>2, Zenon DEF HasView

\* Every good document has one.
LEMMA ViewExists ==
  ASSUME NEW d, Good(d)
  PROVE  \E b, a : HasView(d, b, a)
<1>1. PICK pre, u, v, post : Around(d, pre, u, v, post)
  BY AroundExists, Zenon
<1>2. HasView(d, TextBefore(pre, u), TextAfter(v, post))
  BY <1>1, Zenon DEF HasView
<1> QED
  BY <1>2, Zenon

\* A character typed goes where the cursor is, or is refused.
LEMMA InsertView ==
  ASSUME NEW d, NEW b, NEW a, HasView(d, b, a), NEW ch \in Letters, NEW e, e = insert_char(d, ch)
  PROVE  HasView(e, b, a) \/ HasView(e, b \o <<ch>>, a)
<1>1. PICK pre, u, v, post : /\ Around(d, pre, u, v, post)
                             /\ b = TextBefore(pre, u) /\ a = TextAfter(v, post)
  BY Zenon DEF HasView
<1>2. Good(d)
  BY Zenon DEF HasView
<1>3. e = d \/ (Around(e, pre, u \o <<ch>>, v, post) /\ Good(e))
  BY <1>1, <1>2, InsertAround, Zenon
<1>4. CASE e = d
  BY <1>4, Zenon
<1>5. CASE Around(e, pre, u \o <<ch>>, v, post) /\ Good(e)
  <2>1. TextBefore(pre, u \o <<ch>>) = TextBefore(pre, u) \o <<ch>>
    <3>1. Lead(pre) \in Seq(Text)
      BY <1>1, AroundView, Zenon
    <3>2. u \in Seq(Text) /\ <<ch>> \in Seq(Text)
      BY <1>1, RowsAreText DEF Around
    <3> QED
      BY <3>1, <3>2, TextAssociative, ZenonT(40) DEF TextBefore
  <2>2. b \o <<ch>> = TextBefore(pre, u \o <<ch>>)
    BY <1>1, <2>1, Zenon
  <2> QED
    BY <1>1, <1>5, <2>2, Zenon DEF HasView
<1> QED
  BY <1>3, <1>4, <1>5, Zenon

\* So does a line end.
LEMMA EnterView ==
  ASSUME NEW d, NEW b, NEW a, HasView(d, b, a), NEW e, e = handle_enter(d)
  PROVE  HasView(e, b, a) \/ HasView(e, b \o NL, a)
<1>1. PICK pre, u, v, post : /\ Around(d, pre, u, v, post)
                             /\ b = TextBefore(pre, u) /\ a = TextAfter(v, post)
  BY Zenon DEF HasView
<1>2. Good(d)
  BY Zenon DEF HasView
<1>3. e = d \/ (Around(e, pre \o <<u>>, <<>>, v, post) /\ Good(e))
  BY <1>1, <1>2, EnterAround, Zenon
<1>4. CASE e = d
  BY <1>4, Zenon
<1>5. CASE Around(e, pre \o <<u>>, <<>>, v, post) /\ Good(e)
  <2>1. TextBefore(pre \o <<u>>, <<>>) = TextBefore(pre, u) \o NL
    <3>1. pre \in Lines /\ u \in Seq(Text) /\ post \in Lines
      BY <1>1, RowsAreText, Zenon DEF Around
    <3>2. Lead(pre \o <<u>>) = (Lead(pre) \o u) \o NL
      BY <3>1, JoinAround, Zenon
    <3>3. Lead(pre \o <<u>>) \in Seq(Text)
      BY <1>5, AroundView, Zenon
    <3>4. Lead(pre \o <<u>>) \o <<>> = Lead(pre \o <<u>>)
      BY <3>3, ConcatEmptySeq, Zenon
    <3> QED
      BY <3>2, <3>4, Zenon DEF TextBefore
  <2>2. b \o NL = TextBefore(pre \o <<u>>, <<>>)
    BY <1>1, <2>1, Zenon
  <2> QED
    BY <1>1, <1>5, <2>2, Zenon DEF HasView
<1> QED
  BY <1>3, <1>4, <1>5, Zenon

\* Backspace takes the character before the cursor, or is refused.
LEMMA BackspaceView ==
  ASSUME NEW d, NEW b, NEW a, HasView(d, b, a), NEW e, e = handle_backspace(d)
  PROVE  HasView(e, b, a) \/ \E w \in Seq(Text), c \in Text : b = w \o <<c>> /\ HasView(e, w, a)
<1>1. PICK pre, u, v, post : /\ Around(d, pre, u, v, post)
                             /\ b = TextBefore(pre, u) /\ a = TextAfter(v, post)
  BY Zenon DEF HasView
<1>2. Good(d)
  BY Zenon DEF HasView
<1>3. u \in Seq(Letters) /\ pre \in Seq(Rows) /\ pre \in Lines /\ post \in Lines /\ d.x = Len(u) /\ d.y = Len(pre)
  BY <1>1, RowsAreText, Zenon DEF Around
<1>4. ASSUME NEW w \in Seq(Letters), NEW c \in Letters, u = Append(w, c)
      PROVE  \E z \in Seq(Text), x \in Text : b = z \o <<x>> /\ HasView(e, z, a)
  <2>1. u = w \o <<c>>
    BY <1>4, AppendIsConcat, Zenon
  <2>2. Around(d, pre, w \o <<c>>, v, post)
    BY <1>1, <2>1, Zenon
  <2>3. Around(e, pre, w, v, post) /\ Good(e)
    BY <1>2, <2>2, BackspaceAround, Zenon
  <2>4. TextBefore(pre, w) \in Seq(Text) /\ Lead(pre) \in Seq(Text)
    BY <2>3, AroundView, Zenon
  <2>5. w \in Seq(Text) /\ <<c>> \in Seq(Text) /\ c \in Text
    BY RowsAreText
  <2>6. TextBefore(pre, w) \o <<c>> = TextBefore(pre, w \o <<c>>)
    BY <2>4, <2>5, TextAssociative, ZenonT(40) DEF TextBefore
  <2>7. b = TextBefore(pre, w) \o <<c>>
    BY <1>1, <2>1, <2>6, Zenon
  <2>8. HasView(e, TextBefore(pre, w), a)
    BY <1>1, <2>3, Zenon DEF HasView
  <2> QED
    BY <2>4, <2>5, <2>7, <2>8, Zenon
<1>5. ASSUME u = <<>>, NEW q \in Seq(Rows), NEW p \in Rows, pre = Append(q, p)
      PROVE  HasView(e, b, a) \/ \E z \in Seq(Text), x \in Text : b = z \o <<x>> /\ HasView(e, z, a)
  <2>1. pre = q \o <<p>>
    BY <1>5, AppendIsConcat, Zenon
  <2>2. Around(d, q \o <<p>>, <<>>, v, post)
    BY <1>1, <1>5, <2>1, Zenon
  <2>3. e = d \/ (Around(e, q, p, v, post) /\ Good(e))
    BY <1>2, <2>2, JoinLinesAround, Zenon
  <2>4. CASE e = d
    BY <2>4, Zenon
  <2>5. CASE Around(e, q, p, v, post) /\ Good(e)
    <3>1. TextBefore(q, p) \in Seq(Text)
      BY <2>5, AroundView, Zenon
    <3>2. q \in Lines /\ p \in Seq(Text)
      BY RowsAreText, Zenon
    <3>3. Lead(q \o <<p>>) = (Lead(q) \o p) \o NL
      BY <1>3, <3>2, JoinAround, Zenon
    <3>4. b = TextBefore(q, p) \o NL
      <4>1. Lead(pre) \in Seq(Text)
        BY <1>1, AroundView, Zenon
      <4>2. Lead(pre) \o <<>> = Lead(pre)
        BY <4>1, ConcatEmptySeq, Zenon
      <4> QED
        BY <1>1, <1>5, <2>1, <3>3, <4>2, Zenon DEF TextBefore
    <3>5. HasView(e, TextBefore(q, p), a)
      BY <1>1, <2>5, Zenon DEF HasView
    <3>6. Newline \in Text
      BY Zenon DEF Text
    <3> QED
      BY <3>1, <3>4, <3>5, <3>6, Zenon DEF NL
  <2> QED
    BY <2>3, <2>4, <2>5, Zenon
<1>6. ASSUME u = <<>>, pre = <<>>
      PROVE  e = d
  <2>1. d.x = 0 /\ d.y = 0
    BY <1>3, <1>6, Zenon
  <2> QED
    BY <2>1 DEF handle_backspace
<1>7. u = <<>> \/ \E w \in Seq(Letters), c \in Letters : u = Append(w, c)
  BY <1>3, SequenceEmptyOrAppend, Zenon
<1>8. pre = <<>> \/ \E q \in Seq(Rows), p \in Rows : pre = Append(q, p)
  BY <1>3, SequenceEmptyOrAppend, Zenon
<1> QED
  BY <1>4, <1>5, <1>6, <1>7, <1>8, Zenon

\* The documents of which Good holds, as a set.
GoodDocs == {d \in Docs : Good(d)}

\* The characters of a file and of the clipboard.
LEMMA BytesAreText ==
  ASSUME NEW s \in LoadedFiles \cup Clips
  PROVE  Len(s) \in Nat /\ \A i \in 1 .. Len(s) : s[i] \in Text
<1>1. PICK C : C = {s[i] : i \in DOMAIN s}
  BY Zenon
<1>2. s \in Seq(C)
  BY <1>1, EditorAssumption, Zenon
<1>3. Len(s) \in Nat /\ DOMAIN s = 1 .. Len(s)
  BY <1>2, LenProperties, Zenon
<1>4. ASSUME NEW i \in 1 .. Len(s) PROVE s[i] \in Text
  <2>1. s[i] \in {s[j] : j \in DOMAIN s}
    BY <1>3, Zenon
  <2>2. s[i] \in UNION {{r[j] : j \in DOMAIN r} : r \in LoadedFiles \cup Clips}
    BY <2>1, Zenon
  <2> QED
    BY <2>2, Zenon DEF Text, Letters
<1> QED
  BY <1>3, <1>4, Zenon

\* A byte pasted goes where the cursor is, or is dropped.
LEMMA PasteByteView ==
  ASSUME NEW d, NEW b, NEW a, HasView(d, b, a), NEW ch \in Text, NEW e, e = PasteByte(d, ch)
  PROVE  HasView(e, b, a) \/ HasView(e, b \o <<ch>>, a)
<1>1. CASE ch = Newline
  <2>1. e = handle_enter(d) /\ <<ch>> = NL
    BY <1>1, Zenon DEF PasteByte, NL
  <2>2. HasView(e, b, a) \/ HasView(e, b \o NL, a)
    BY <2>1, EnterView, Zenon
  <2> QED
    BY <2>1, <2>2, Zenon
<1>2. CASE ch # Newline
  <2>1. ch \in Letters /\ e = insert_char(d, ch)
    BY <1>2, Zenon DEF PasteByte, Text
  <2> QED
    BY <2>1, InsertView, Zenon
<1> QED
  BY <1>1, <1>2, Zenon

\* So the document stays good.
LEMMA PasteByteGood ==
  ASSUME NEW d, Good(d), NEW ch \in Text
  PROVE  Good(PasteByte(d, ch))
<1>1. PICK b, a : HasView(d, b, a)
  BY ViewExists, Zenon
<1>2. PICK e : e = PasteByte(d, ch)
  BY Zenon
<1>3. HasView(e, b, a) \/ HasView(e, b \o <<ch>>, a)
  BY <1>1, <1>2, PasteByteView, Zenon
<1>4. Good(e)
  BY <1>3, Zenon DEF HasView
<1> QED
  BY <1>2, <1>4, Zenon

\* The documents p[0], p[1], ... that pasting the bytes of clip into d goes through.
PastedThrough(d, clip, N, p) ==
  /\ p \in [0..N -> GoodDocs] /\ p[0] = d
  /\ \A n \in 1..N : p[n] = PasteByte(p[n - 1], clip[n])
  /\ paste(d, clip) = p[N]

\* Pasting, byte by byte.
LEMMA PasteUnfolds ==
  ASSUME NEW d, Good(d), NEW clip \in Clips, NEW N \in Nat, N = Len(clip)
  PROVE  \E p : PastedThrough(d, clip, N, p)
<1> DEFINE S == GoodDocs
           Grow(r, n) == PasteByte(r, clip[n])
           step == [n \in 1..N |-> [r \in S |-> Grow(r, n)]]
           Equation(k) == k = [n \in 0..N |-> IF n = 0 THEN d ELSE Grow(k[n - 1], n)]
           p == CHOOSE k : Equation(k)
<1>1. N \in Nat /\ d \in S
  BY Zenon DEF GoodDocs, Good
<1>2. ASSUME NEW n \in 1..N, NEW r \in S PROVE Grow(r, n) \in S
  <2>1. clip[n] \in Text /\ Good(r)
    BY BytesAreText, Zenon DEF GoodDocs
  <2>2. Good(PasteByte(r, clip[n]))
    BY <2>1, PasteByteGood, Zenon
  <2> QED
    BY <2>2, Zenon DEF GoodDocs, Good
<1>3. paste(d, clip) = p[N]
  BY Zenon DEF paste
<1> HIDE DEF S, Grow
<1>4. \E k : Equation(k)
  <2>1. step \in [1..N -> [S -> S]]
    BY <1>2, Zenon
  <2>2. \A n \in 1..N, r \in S : step[n][r] = Grow(r, n)
    BY Zenon
  <2> HIDE DEF step
  <2>3. PICK k : IsRecursion(N, S, d, step, k)
    BY <1>1, <2>1, RecursionExists, Zenon
  <2>4. \A n \in 1..N : k[n] = Grow(k[n - 1], n)
    BY <1>1, <2>2, <2>3 DEF IsRecursion
  <2>5. Equation(k)
    BY <1>1, <2>3, <2>4 DEF IsRecursion
  <2> QED
    BY <2>5, Zenon
<1>5. Equation(p)
  BY <1>4, Zenon
<1> HIDE DEF p
<1>6. p[0] = d /\ \A n \in 1..N : p[n] = Grow(p[n - 1], n)
  BY <1>1, <1>5
<1>7. p \in [0..N -> S]
  <2> DEFINE P == {n \in 0..N : p[n] \in S}
  <2>1. 0 \in P
    BY <1>1, <1>6
  <2>2. ASSUME NEW n \in 1..N, n - 1 \in P PROVE n \in P
    BY <1>1, <1>2, <1>6, <2>2
  <2>3. \A n \in 0..N : n \in P
    <3> HIDE DEF P
    <3> QED
      BY <1>1, <2>1, <2>2, SetInduction, Zenon
  <2>4. \A n \in 0..N : p[n] \in S
    BY <2>3, Zenon
  <2> QED
    BY <1>5, <2>4, Zenon
<1>8. PastedThrough(d, clip, N, p)
  BY <1>3, <1>6, <1>7, Zenon DEF S, Grow, PastedThrough
<1> QED
  BY <1>8, Zenon

\* Pasting inserts a text where the cursor is.
LEMMA PasteView ==
  ASSUME NEW d, NEW b, NEW a, HasView(d, b, a), NEW clip \in Clips, NEW e, e = paste(d, clip)
  PROVE  \E new \in Seq(Text) : HasView(e, b \o new, a)
<1>1. PICK N : N = Len(clip)
  BY Zenon
<1>2. N \in Nat /\ \A n \in 1..N : clip[n] \in Text
  BY <1>1, BytesAreText, Zenon
<1>3. Good(d) /\ b \in Seq(Text)
  BY ViewFacts, Zenon
<1>4. PICK p :
        /\ p[0] = d
        /\ \A n \in 1..N : p[n] = PasteByte(p[n - 1], clip[n])
        /\ paste(d, clip) = p[N]
  <2>1. N \in Nat
    BY <1>2, Zenon
  <2>2. \E p : PastedThrough(d, clip, N, p)
    BY <1>1, <1>3, <2>1, PasteUnfolds, Zenon
  <2> QED
    BY <2>2, Zenon DEF PastedThrough
<1> DEFINE P == {n \in 0..N : \E new \in Seq(Text) : HasView(p[n], b \o new, a)}
<1>5. 0 \in P
  <2>1. b \o <<>> = b /\ <<>> \in Seq(Text)
    BY <1>3, ConcatEmptySeq
  <2>2. HasView(p[0], b \o <<>>, a)
    BY <1>4, <2>1, Zenon
  <2>3. 0 \in 0..N
    BY <1>2
  <2> QED
    BY <2>1, <2>2, <2>3, Zenon
<1>6. ASSUME NEW n \in 1..N, n - 1 \in P PROVE n \in P
  <2>1. PICK new \in Seq(Text) : HasView(p[n - 1], b \o new, a)
    BY <1>6, Zenon
  <2>2. p[n] = PasteByte(p[n - 1], clip[n]) /\ clip[n] \in Text /\ n \in 0..N
    BY <1>2, <1>4
  <2>3. HasView(p[n], b \o new, a) \/ HasView(p[n], (b \o new) \o <<clip[n]>>, a)
    BY <2>1, <2>2, PasteByteView, Zenon
  <2>4. CASE HasView(p[n], b \o new, a)
    BY <2>2, <2>4, Zenon
  <2>5. CASE HasView(p[n], (b \o new) \o <<clip[n]>>, a)
    <3>1. PICK one : one = <<clip[n]>>
      BY Zenon
    <3>2. one \in Seq(Text)
      BY <2>2, <3>1
    <3>3. (b \o new) \o one = b \o (new \o one)
      BY <1>3, <3>2, TextAssociative, ZenonT(40)
    <3>4. new \o one \in Seq(Text)
      BY <3>2, TextConcat, Zenon
    <3>5. HasView(p[n], b \o (new \o one), a)
      BY <2>5, <3>1, <3>3, Zenon
    <3> QED
      BY <2>2, <3>4, <3>5, Zenon
  <2> QED
    BY <2>3, <2>4, <2>5, Zenon
<1>7. \A n \in 0..N : n \in P
  <2> HIDE DEF P
  <2> QED
    BY <1>2, <1>5, <1>6, SetInduction, Zenon
<1>8. N \in P
  BY <1>2, <1>7
<1>9. e = p[N]
  BY <1>4, Zenon
<1> QED
  BY <1>8, <1>9, Zenon

\* What load_file has read: the lines fit the array, and if it is full no more
\* is read.
Loads ==
  {s \in [lines : Seq(Rows), line : Rows, full : BOOLEAN] :
     Len(s.lines) =< MAX_LINES /\ (Len(s.lines) = MAX_LINES => s.full)}

\* One byte keeps it so.
LEMMA LoadByteType ==
  ASSUME NEW s \in Loads, NEW ch \in Text
  PROVE  LoadByte(s, ch) \in Loads
<1>1. PICK ls, l, f : ls = s.lines /\ l = s.line /\ f = s.full
  BY Zenon
<1>2. /\ s = [lines |-> ls, line |-> l, full |-> f] /\ ls \in Seq(Rows) /\ l \in Rows /\ f \in BOOLEAN
      /\ Len(ls) =< MAX_LINES /\ (Len(ls) = MAX_LINES => f) /\ Len(ls) \in Nat
  BY <1>1, LenProperties, Zenon DEF Loads
<1>3. CASE f
  BY <1>1, <1>3, Zenon DEF LoadByte
<1>4. CASE ~f /\ ch = Newline
  <2>1. PICK t, g : t = Append(ls, l) /\ g = (Len(ls) + 1 >= MAX_LINES)
    BY Zenon
  <2>2. t \in Seq(Rows) /\ Len(t) = Len(ls) + 1
    BY <1>2, <2>1, AppendProperties, Zenon
  <2>3. LoadByte(s, ch) = [lines |-> t, line |-> <<>>, full |-> g]
    BY <1>1, <1>4, <2>1, Zenon DEF LoadByte
  <2>4. <<>> \in Rows
    BY EditorAssumption DEF Rows
  <2>5. Len(t) =< MAX_LINES /\ (Len(t) = MAX_LINES => g) /\ g \in BOOLEAN
    <3>1. Len(t) =< MAX_LINES /\ (Len(t) = MAX_LINES => Len(ls) + 1 >= MAX_LINES)
      BY <1>2, <1>4, <2>2, EditorAssumption
    <3>2. (Len(ls) + 1 >= MAX_LINES) \in BOOLEAN
      OBVIOUS
    <3> QED
      BY <2>1, <3>1, <3>2, Zenon
  <2> QED
    BY <2>2, <2>3, <2>4, <2>5 DEF Loads
<1>5. CASE ~f /\ ch # Newline
  <2>1. PICK t : t = IF Len(l) < MAX_LINE_LEN THEN Append(l, ch) ELSE l
    BY Zenon
  <2>2. ch \in Letters /\ l \in Seq(Letters) /\ Len(l) \in Nat /\ Len(l) =< MAX_LINE_LEN
    BY <1>2, <1>5, LenProperties, Zenon DEF Text, Rows
  <2>3. Append(l, ch) \in Seq(Letters) /\ Len(Append(l, ch)) = Len(l) + 1
    BY <2>2, AppendProperties, Zenon
  <2>4. t \in Rows
    BY <1>2, <2>1, <2>2, <2>3, EditorAssumption DEF Rows
  <2>5. LoadByte(s, ch) = [s EXCEPT !.line = t]
    BY <1>1, <1>5, <2>1, Zenon DEF LoadByte
  <2>6. LoadByte(s, ch) = [lines |-> ls, line |-> t, full |-> f]
    BY <1>2, <2>5, Zenon
  <2> QED
    BY <1>2, <2>4, <2>6 DEF Loads
<1> QED
  BY <1>2, <1>3, <1>4, <1>5, Zenon

\* A loaded file fits the array.
LEMMA LoadedFits ==
  ASSUME NEW bytes \in LoadedFiles
  PROVE  /\ load_file(bytes) \in Seq(Rows) /\ load_file(bytes) # <<>>
         /\ Len(load_file(bytes)) =< MAX_LINES
<1> DEFINE S == Loads
           N == Len(bytes)
           base == [lines |-> <<>>, line |-> <<>>, full |-> FALSE]
           Grow(r, n) == LoadByte(r, bytes[n])
           step == [n \in 1..N |-> [r \in S |-> Grow(r, n)]]
           Equation(k) == k = [n \in 0..N |-> IF n = 0 THEN base ELSE Grow(k[n - 1], n)]
           p == CHOOSE k : Equation(k)
           s == p[N]
           lines == IF s.line # <<>> /\ ~s.full THEN Append(s.lines, s.line) ELSE s.lines
<1>0. <<>> \in Rows
  BY EditorAssumption DEF Rows
<1>1. N \in Nat /\ base \in S
  BY <1>0, BytesAreText, EditorAssumption DEF Loads
<1>2. ASSUME NEW n \in 1..N, NEW r \in S PROVE Grow(r, n) \in S
  BY BytesAreText, LoadByteType, Zenon
<1>3. load_file(bytes) = IF lines = <<>> THEN <<<<>>>> ELSE lines
  BY Zenon DEF load_file
<1> HIDE DEF S, N, Grow, base
<1>4. \E k : Equation(k)
  <2>1. step \in [1..N -> [S -> S]]
    BY <1>2, Zenon
  <2>2. \A n \in 1..N, r \in S : step[n][r] = Grow(r, n)
    BY Zenon
  <2> HIDE DEF step
  <2>3. PICK k : IsRecursion(N, S, base, step, k)
    BY <1>1, <2>1, RecursionExists, Zenon
  <2>4. \A n \in 1..N : k[n] = Grow(k[n - 1], n)
    BY <1>1, <2>2, <2>3 DEF IsRecursion
  <2>5. Equation(k)
    BY <1>1, <2>3, <2>4 DEF IsRecursion
  <2> QED
    BY <2>5, Zenon
<1>5. Equation(p)
  BY <1>4, Zenon
<1> HIDE DEF p
<1>6. p[0] = base /\ \A n \in 1..N : p[n] = Grow(p[n - 1], n)
  BY <1>1, <1>5
<1>7. s \in S
  <2> DEFINE P == {n \in 0..N : p[n] \in S}
  <2>1. 0 \in P
    BY <1>1, <1>6
  <2>2. ASSUME NEW n \in 1..N, n - 1 \in P PROVE n \in P
    BY <1>1, <1>2, <1>6, <2>2
  <2>3. \A n \in 0..N : n \in P
    <3> HIDE DEF P
    <3> QED
      BY <1>1, <2>1, <2>2, SetInduction, Zenon
  <2> QED
    BY <1>1, <2>3
<1> HIDE DEF s
<1>8. lines \in Seq(Rows) /\ Len(lines) =< MAX_LINES
  <2>1. /\ s.lines \in Seq(Rows) /\ s.line \in Rows /\ s.full \in BOOLEAN /\ Len(s.lines) \in Nat
        /\ Len(s.lines) =< MAX_LINES /\ (Len(s.lines) = MAX_LINES => s.full)
    BY <1>7, LenProperties, Zenon DEF S, Loads
  <2>2. Append(s.lines, s.line) \in Seq(Rows) /\ Len(Append(s.lines, s.line)) = Len(s.lines) + 1
    BY <2>1, AppendProperties
  <2> QED
    BY <2>1, <2>2, EditorAssumption
<1> HIDE DEF lines
<1>9. <<<<>>>> \in Seq(Rows) /\ <<<<>>>> # <<>> /\ Len(<<<<>>>>) =< MAX_LINES
  BY <1>0, EditorAssumption
<1> QED
  BY <1>3, <1>8, <1>9, Zenon

\* The document the program starts with is good, and nothing is before its cursor.
LEMMA FreshGood ==
  ASSUME NEW bytes \in LoadedFiles, NEW d, d = FreshDoc(bytes)
  PROVE  Good(d) /\ Place(d) = 0
<1>1. PICK ls : ls = load_file(bytes)
  BY Zenon
<1>2. ls \in Seq(Rows) /\ ls # <<>> /\ Len(ls) =< MAX_LINES
  BY <1>1, LoadedFits, Zenon
<1>3. Len(ls) \in Nat /\ Len(ls) > 0
  BY <1>2, EmptySeq, LenProperties
<1>4. ls[1] \in Rows /\ Len(ls[1]) \in Nat
  BY <1>2, <1>3, ElementOfSeq, LenProperties DEF Rows
<1>5. d = [lines |-> ls, y |-> 0, x |-> 0, scroll_y |-> 0, dirty |-> FALSE]
  BY <1>1, Zenon DEF FreshDoc
<1>6. Good(d)
  BY <1>2, <1>3, <1>4, <1>5 DEF Good, Docs
<1>7. SubSeq(ls, 1, 1) = <<ls[1]>>
  <2>1. 1 \in 1 .. Len(ls) /\ 1 - 1 = 0
    BY <1>3
  <2>2. SubSeq(ls, 1, 1) = SubSeq(ls, 1, 1 - 1) \o <<ls[1]>>
    BY <1>2, <2>1, SubSeqRecursiveSecond, Zenon
  <2>3. SubSeq(ls, 1, 0) = <<>>
    BY <1>2, SubSeqEmpty
  <2>4. <<>> \o <<ls[1]>> = <<ls[1]>>
    <3>1. <<ls[1]>> \in Seq(Rows)
      BY <1>4
    <3> QED
      BY <3>1, ConcatEmptySeq, Zenon
  <2> QED
    BY <2>1, <2>2, <2>3, <2>4, Zenon
<1>8. Joined(<<ls[1]>>) = ls[1]
  BY <1>4, RowsAreText, JoinOne, Zenon
<1>9. CursorRow(d) = ls[1] /\ d.y + 1 = 1 /\ d.x = 0 /\ d.lines = ls
  BY <1>5 DEF CursorRow, Row
<1>10. Place(d) = Len(ls[1]) - Len(ls[1]) + 0
  BY <1>7, <1>8, <1>9, Zenon DEF Place
<1> QED
  BY <1>4, <1>6, <1>10

\* The steps of FlatText, from the text t with its cursor at k to t2 and k2.
Moved(t, k, t2, k2) == t2 = t /\ k2 \in 0 .. Len(t)

Inserted(t, k, t2, k2) ==
  LET n == Len(t2) - Len(t)
  IN  /\ n > 0 /\ k2 = k + n
      /\ t2 = SubSeq(t, 1, k) \o SubSeq(t2, k + 1, k + n) \o SubSeq(t, k + 1, Len(t))

Erased(t, k, t2, k2) ==
  /\ k > 0 /\ k2 = k - 1
  /\ t2 = SubSeq(t, 1, k - 1) \o SubSeq(t, k + 1, Len(t))

Cleared(t, k, t2, k2) ==
  \E from \in 0 .. k, to \in k .. Len(t) :
    /\ \A i \in from + 1 .. to : t[i] # Newline
    /\ from = 0 \/ t[from] = Newline
    /\ to = Len(t) \/ t[to + 1] = Newline
    /\ t2 = SubSeq(t, 1, from) \o SubSeq(t, to + 1, Len(t))
    /\ k2 = from

FlatStep(t, k, t2, k2) ==
  Moved(t, k, t2, k2) \/ Inserted(t, k, t2, k2) \/ Erased(t, k, t2, k2) \/ Cleared(t, k, t2, k2)

\* From one good document to another, by such a step.
DocStep(d, e) ==
  Good(e) /\ FlatStep(Joined(d.lines), Place(d), Joined(e.lines), Place(e))

\* The parts of a text cut at a place.
LEMMA TextHalves ==
  ASSUME NEW b \in Seq(Text), NEW a \in Seq(Text), NEW t, t = b \o a
  PROVE  /\ t \in Seq(Text) /\ Len(t) = Len(b) + Len(a) /\ Len(b) \in Nat /\ Len(a) \in Nat
         /\ SubSeq(t, 1, Len(b)) = b /\ SubSeq(t, Len(b) + 1, Len(t)) = a
<1>1. /\ t \in Seq(Text) /\ Len(t) = Len(b) + Len(a)
      /\ SubSeq(t, 1, Len(b)) = b /\ SubSeq(t, Len(b) + 1, Len(t)) = a
  BY Halves
<1> QED
  BY <1>1, LenProperties, Zenon

\* Where nothing of the text changes the cursor may move.
LEMMA MoveStep ==
  ASSUME NEW d, NEW e, Good(e), e.lines = d.lines
  PROVE  DocStep(d, e)
<1>1. PICK b, a : HasView(e, b, a)
  BY ViewExists, Zenon
<1>2. b \in Seq(Text) /\ a \in Seq(Text) /\ Joined(e.lines) = b \o a /\ Place(e) = Len(b)
  BY <1>1, ViewFacts, Zenon
<1>3. PICK t : t = b \o a
  BY Zenon
<1>4. Len(t) = Len(b) + Len(a) /\ Len(b) \in Nat /\ Len(a) \in Nat
  BY <1>2, <1>3, TextHalves, Zenon
<1>5. Place(e) \in 0 .. Len(t)
  BY <1>2, <1>4
<1>6. Joined(e.lines) = t /\ Joined(d.lines) = t
  BY <1>2, <1>3, Zenon
<1>7. Moved(Joined(d.lines), Place(d), Joined(e.lines), Place(e))
  BY <1>5, <1>6, Zenon DEF Moved
<1> QED
  BY <1>7, Zenon DEF DocStep, FlatStep

\* A text inserted at the cursor.
LEMMA InsertStep ==
  ASSUME NEW d, NEW e, NEW b, NEW a, NEW new \in Seq(Text),
         HasView(d, b, a), HasView(e, b \o new, a)
  PROVE  DocStep(d, e)
<1>1. /\ b \in Seq(Text) /\ a \in Seq(Text) /\ Joined(d.lines) = b \o a /\ Place(d) = Len(b)
  BY ViewFacts, Zenon
<1>2. PICK c : c = b \o new
  BY Zenon
<1>3. /\ c \in Seq(Text) /\ Good(e) /\ Joined(e.lines) = c \o a /\ Place(e) = Len(c)
  BY <1>2, ViewFacts, Zenon
<1>4. PICK t, t2 : t = b \o a /\ t2 = c \o a
  BY Zenon
<1>5. /\ t \in Seq(Text) /\ Len(t) = Len(b) + Len(a) /\ Len(b) \in Nat /\ Len(a) \in Nat
      /\ SubSeq(t, 1, Len(b)) = b /\ SubSeq(t, Len(b) + 1, Len(t)) = a
  BY <1>1, <1>4, TextHalves
<1>6. t2 \in Seq(Text) /\ Len(t2) = Len(c) + Len(a)
  BY <1>1, <1>3, <1>4, TextHalves
<1>7. Len(c) = Len(b) + Len(new) /\ Len(new) \in Nat
  BY <1>1, <1>2, TextConcat, Zenon
<1>8. Joined(d.lines) = t /\ Joined(e.lines) = t2
  BY <1>1, <1>3, <1>4, Zenon
<1>9. CASE new = <<>>
  <2>1. c = b
    BY <1>1, <1>2, <1>9, ConcatEmptySeq, Zenon
  <2>2. t2 = t /\ Len(b) \in 0 .. Len(t) /\ Place(e) = Len(b)
    BY <1>3, <1>4, <1>5, <2>1
  <2>3. Moved(t, Place(d), t2, Place(e))
    BY <2>2, Zenon DEF Moved
  <2> QED
    BY <1>3, <1>8, <2>3, Zenon DEF DocStep, FlatStep
<1>10. CASE new # <<>>
  <2>1. PICK n, k : n = Len(new) /\ k = Len(b)
    BY Zenon
  <2>2. n \in Nat /\ n > 0 /\ k \in Nat
    BY <1>5, <1>7, <1>10, <2>1, EmptySeq
  <2>3. Len(t2) - Len(t) = n /\ Len(c) = k + n
    BY <1>5, <1>6, <1>7, <2>1
  <2>4. SubSeq(t2, k + 1, k + n) = new
    <3>1. SubSeq(t2, 1, Len(c)) = c
      BY <1>1, <1>3, <1>4, TextHalves, Zenon
    <3>2. SubSeq(c, Len(b) + 1, Len(c)) = new
      BY <1>1, <1>2, TextHalves
    <3>3. \A i \in 1 .. (Len(b) + Len(new)) : c[i] = IF i <= Len(b) THEN b[i] ELSE new[i - Len(b)]
      BY <1>1, <1>2, ConcatProperties, Zenon
    <3>4. \A i \in 1 .. (Len(c) + Len(a)) : t2[i] = IF i <= Len(c) THEN c[i] ELSE a[i - Len(c)]
      BY <1>1, <1>3, <1>4, ConcatProperties
    <3>5. ASSUME NEW i \in 1 .. n PROVE t2[k + i] = new[i]
      <4>1. k + i \in 1 .. (Len(b) + Len(new)) /\ ~(k + i <= Len(b)) /\ (k + i) - Len(b) = i
            /\ k + i \in 1 .. (Len(c) + Len(a)) /\ k + i <= Len(c)
        BY <1>5, <1>7, <2>1, <2>2
      <4> QED
        BY <3>3, <3>4, <4>1, Zenon
    <3>6. k + Len(new) =< Len(t2)
      BY <1>5, <1>6, <1>7, <2>1
    <3> QED
      BY <1>6, <2>1, <2>2, <3>5, <3>6, StretchIs, Zenon
  <2>5. t2 = SubSeq(t, 1, k) \o SubSeq(t2, k + 1, k + n) \o SubSeq(t, k + 1, Len(t))
    BY <1>2, <1>4, <1>5, <2>1, <2>4, Zenon
  <2>6. Place(d) = k /\ Place(e) = k + n
    BY <1>1, <1>3, <2>1, <2>3, Zenon
  <2>7. Inserted(t, k, t2, k + n)
    BY <2>2, <2>3, <2>5, Zenon DEF Inserted
  <2> QED
    BY <1>3, <1>8, <2>6, <2>7, Zenon DEF DocStep, FlatStep
<1> QED
  BY <1>9, <1>10, Zenon

\* The character before the cursor erased.
LEMMA EraseStep ==
  ASSUME NEW d, NEW e, NEW w \in Seq(Text), NEW c \in Text, NEW a,
         HasView(d, w \o <<c>>, a), HasView(e, w, a)
  PROVE  DocStep(d, e)
<1>1. PICK one, b : one = <<c>> /\ b = w \o one
  BY Zenon
<1>2. /\ b \in Seq(Text) /\ a \in Seq(Text) /\ Joined(d.lines) = b \o a /\ Place(d) = Len(b)
  <2>1. HasView(d, b, a)
    BY <1>1, Zenon
  <2> QED
    BY <2>1, ViewFacts, Zenon
<1>3. Good(e) /\ Joined(e.lines) = w \o a /\ Place(e) = Len(w)
  BY ViewFacts, Zenon
<1>4. PICK t : t = b \o a
  BY Zenon
<1>5. one \in Seq(Text) /\ Len(one) = 1
  BY <1>1
<1>6. Len(b) = Len(w) + 1 /\ Len(w) \in Nat
  <2>1. Len(b) = Len(w) + Len(one) /\ Len(w) \in Nat
    BY <1>1, <1>5, TextConcat, Zenon
  <2> QED
    BY <1>5, <2>1, Zenon
<1>7. SubSeq(t, Len(b) + 1, Len(t)) = a
  BY <1>2, <1>4, TextHalves
<1>8. SubSeq(t, 1, Len(w)) = w
  <2>1. PICK z : z = one \o a
    BY Zenon
  <2>2. z \in Seq(Text)
    BY <1>2, <1>5, <2>1, TextConcat, Zenon
  <2>3. t = w \o z
    <3>1. (w \o one) \o a = w \o (one \o a)
      BY <1>2, <1>5, TextAssociative, ZenonT(40)
    <3> QED
      BY <1>1, <1>4, <2>1, <3>1, Zenon
  <2> QED
    BY <2>2, <2>3, TextHalves, Zenon
<1>9. PICK k : k = Len(b)
  BY Zenon
<1>10. k > 0 /\ k - 1 = Len(w)
  BY <1>6, <1>9
<1>11. Erased(t, k, w \o a, k - 1)
  BY <1>7, <1>8, <1>9, <1>10, Zenon DEF Erased
<1>12. Joined(d.lines) = t /\ Joined(e.lines) = w \o a /\ Place(d) = k /\ Place(e) = k - 1
  BY <1>2, <1>3, <1>4, <1>9, <1>10, Zenon
<1> QED
  BY <1>3, <1>11, <1>12, Zenon DEF DocStep, FlatStep

\* What lies before a line ends in a line end, what lies behind begins with one.
LEMMA LeadTrailEnds ==
  ASSUME NEW s \in Lines
  PROVE  /\ Lead(s) = <<>> \/ (Len(Lead(s)) > 0 /\ Lead(s)[Len(Lead(s))] = Newline)
         /\ Trail(s) = <<>> \/ (Len(Trail(s)) > 0 /\ Trail(s)[1] = Newline)
<1>1. CASE s = <<>>
  BY <1>1, Zenon DEF Lead, Trail
<1>2. CASE s # <<>>
  <2>1. PICK j, n, l, t : j = Joined(s) /\ n = NL /\ l = j \o n /\ t = n \o j
    BY Zenon
  <2>2. j \in Seq(Text) /\ n \in Seq(Text) /\ Len(n) = 1 /\ n[1] = Newline
    BY <1>2, <2>1, JoinType DEF NL, Text
  <2>3. /\ Len(l) = Len(j) + Len(n) /\ Len(j) \in Nat
        /\ \A i \in 1 .. (Len(j) + Len(n)) : l[i] = IF i <= Len(j) THEN j[i] ELSE n[i - Len(j)]
    BY <2>1, <2>2, ConcatProperties, LenProperties, Zenon
  <2>4. /\ Len(t) = Len(n) + Len(j)
        /\ \A i \in 1 .. (Len(n) + Len(j)) : t[i] = IF i <= Len(n) THEN n[i] ELSE j[i - Len(n)]
    BY <2>1, <2>2, ConcatProperties, Zenon
  <2>5. Len(l) > 0 /\ l[Len(l)] = Newline
    BY <2>2, <2>3
  <2>6. Len(t) > 0 /\ t[1] = Newline
    BY <2>2, <2>3, <2>4
  <2>7. Lead(s) = l /\ Trail(s) = t
    BY <1>2, <2>1, Zenon DEF Lead, Trail
  <2> QED
    BY <2>5, <2>6, <2>7, Zenon
<1> QED
  BY <1>1, <1>2, Zenon

\* A stretch of text without line ends taken out between two line ends.
LEMMA ClearText ==
  ASSUME NEW l \in Seq(Text), NEW u \in Seq(Letters), NEW v \in Seq(Letters), NEW r \in Seq(Text),
         l = <<>> \/ (Len(l) > 0 /\ l[Len(l)] = Newline),
         r = <<>> \/ (Len(r) > 0 /\ r[1] = Newline),
         NEW t, t = (l \o u) \o (v \o r)
  PROVE  Cleared(t, Len(l \o u), l \o r, Len(l))
<1>1. PICK m, b, c, z : m = u \o v /\ b = l \o m /\ c = m \o r /\ z = v \o r
  BY Zenon
<1>2. u \in Seq(Text) /\ v \in Seq(Text)
  BY RowsAreText, Zenon
<1>3. m \in Seq(Letters) /\ Len(m) = Len(u) + Len(v) /\ Len(u) \in Nat /\ Len(v) \in Nat
  BY <1>1, ConcatProperties, LenProperties, Zenon
<1>4. m \in Seq(Text)
  BY <1>3, RowsAreText, Zenon
<1>5. /\ b \in Seq(Text) /\ Len(b) = Len(l) + Len(m) /\ Len(l) \in Nat /\ Len(m) \in Nat
      /\ \A i \in 1 .. (Len(l) + Len(m)) : b[i] = IF i <= Len(l) THEN l[i] ELSE m[i - Len(l)]
  BY <1>1, <1>4, ConcatProperties, LenProperties, Zenon
<1>6. c \in Seq(Text) /\ z \in Seq(Text)
  BY <1>1, <1>2, <1>4, TextConcat, Zenon
<1>7. t = l \o c /\ t = b \o r
  <2>1. (l \o u) \o z = l \o (u \o z)
    BY <1>2, <1>6, TextAssociative, ZenonT(40)
  <2>2. (u \o v) \o r = u \o (v \o r)
    BY <1>2, TextAssociative, ZenonT(40)
  <2>3. (l \o m) \o r = l \o (m \o r)
    BY <1>4, TextAssociative, ZenonT(40)
  <2>4. t = (l \o u) \o z
    BY <1>1, Zenon
  <2> QED
    BY <1>1, <2>1, <2>2, <2>3, <2>4, Zenon
<1>8. SubSeq(t, 1, Len(l)) = l
  <2>1. \A x : x = l \o c => SubSeq(x, 1, Len(l)) = l
    BY <1>6, TextHalves
  <2> QED
    BY <1>7, <2>1, Zenon
<1>9. SubSeq(t, Len(b) + 1, Len(t)) = r /\ Len(t) = Len(b) + Len(r) /\ Len(r) \in Nat
  <2>1. b \in Seq(Text)
    BY <1>5, Zenon
  <2>2. \A x : x = b \o r =>
          SubSeq(x, Len(b) + 1, Len(x)) = r /\ Len(x) = Len(b) + Len(r) /\ Len(r) \in Nat
    BY <2>1, TextHalves
  <2> QED
    BY <1>7, <2>2, Zenon
<1>10. \A i \in 1 .. (Len(b) + Len(r)) : t[i] = IF i <= Len(b) THEN b[i] ELSE r[i - Len(b)]
  <2>1. b \in Seq(Text) /\ t = b \o r
    BY <1>5, <1>7, Zenon
  <2> QED
    BY <2>1, ConcatProperties
<1>11. PICK from, to, k : from = Len(l) /\ to = Len(b) /\ k = Len(l \o u)
  BY Zenon
<1>12. k = Len(l) + Len(u)
  BY <1>2, <1>11, TextConcat, Zenon
<1>13. from \in 0 .. k /\ to \in k .. Len(t)
  BY <1>3, <1>5, <1>9, <1>11, <1>12
<1>14. ASSUME NEW i \in from + 1 .. to PROVE t[i] # Newline
  <2>1. /\ i \in 1 .. (Len(b) + Len(r)) /\ i <= Len(b) /\ i \in 1 .. (Len(l) + Len(m)) /\ ~(i <= Len(l))
        /\ i - Len(l) \in 1 .. Len(m)
    BY <1>5, <1>9, <1>11
  <2>2. t[i] = m[i - Len(l)]
    BY <1>5, <1>10, <2>1, Zenon
  <2>3. m[i - Len(l)] \in Letters
    BY <1>3, <2>1, ElementOfSeq, Zenon
  <2> QED
    BY <2>2, <2>3, Zenon DEF Letters
<1>15. from = 0 \/ t[from] = Newline
  <2>1. CASE l = <<>>
    BY <1>11, <2>1, Zenon
  <2>2. CASE Len(l) > 0 /\ l[Len(l)] = Newline
    <3>1. from \in 1 .. (Len(b) + Len(r)) /\ from <= Len(b) /\ from \in 1 .. (Len(l) + Len(m)) /\ from <= Len(l)
      <4>1. /\ Len(b) = Len(l) + Len(m) /\ Len(l) \in Nat /\ Len(m) \in Nat /\ Len(r) \in Nat
            /\ from = Len(l) /\ Len(l) > 0
        BY <1>5, <1>9, <1>11, <2>2, Zenon
      <4>2. PICK x, y, z2, w : x = Len(l) /\ y = Len(m) /\ z2 = Len(r) /\ w = Len(b)
        BY Zenon
      <4>3. w = x + y /\ x \in Nat /\ y \in Nat /\ z2 \in Nat /\ from = x /\ x > 0
        BY <4>1, <4>2, Zenon
      <4>4. from \in 1 .. (w + z2) /\ from <= w /\ from \in 1 .. (x + y) /\ from <= x
        BY <4>3
      <4> QED
        BY <4>2, <4>4, Zenon
    <3> QED
      BY <1>5, <1>10, <1>11, <2>2, <3>1, Zenon
  <2> QED
    BY <2>1, <2>2, Zenon
<1>16. to = Len(t) \/ t[to + 1] = Newline
  <2>1. CASE r = <<>>
    BY <1>5, <1>9, <1>11, <2>1
  <2>2. CASE Len(r) > 0 /\ r[1] = Newline
    <3>1. to + 1 \in 1 .. (Len(b) + Len(r)) /\ ~(to + 1 <= Len(b)) /\ (to + 1) - Len(b) = 1
      BY <1>5, <1>9, <1>11, <2>2
    <3> QED
      BY <1>10, <2>2, <3>1, Zenon
  <2> QED
    BY <2>1, <2>2, Zenon
<1>17. l \o r = SubSeq(t, 1, from) \o SubSeq(t, to + 1, Len(t)) /\ Len(l) = from
  BY <1>8, <1>9, <1>11, Zenon
<1>18. Cleared(t, k, l \o r, Len(l))
  BY <1>13, <1>14, <1>15, <1>16, <1>17, Zenon DEF Cleared
<1> QED
  BY <1>11, <1>18, Zenon

\* Cut clears the line of the cursor.
LEMMA CutStep ==
  ASSUME NEW d, Good(d), NEW e, e = Edited([d EXCEPT !.lines[d.y + 1] = <<>>, !.x = 0])
  PROVE  DocStep(d, e)
<1>1. PICK pre, u, v, post : Around(d, pre, u, v, post)
  BY AroundExists, Zenon
<1>2. /\ pre \in Lines /\ post \in Lines /\ u \in Seq(Letters) /\ v \in Seq(Letters)
  BY <1>1, RowsAreText, Zenon DEF Around
<1>3. <<>> \in Seq(Letters) /\ <<>> \o <<>> = <<>> /\ Len(<<>>) = 0 /\ <<>> \in Rows
  BY EditorAssumption DEF Rows
<1>4. e = [lines |-> [d.lines EXCEPT ![d.y + 1] = <<>>], y |-> d.y, x |-> 0,
           scroll_y |-> d.scroll_y, dirty |-> TRUE]
  <2>1. PICK f : f = [d EXCEPT !.lines[d.y + 1] = <<>>, !.x = 0]
    BY Zenon
  <2>2. f = [lines |-> [d.lines EXCEPT ![d.y + 1] = <<>>], y |-> d.y, x |-> 0,
             scroll_y |-> d.scroll_y, dirty |-> d.dirty]
    <3>1. PICK nil : nil = <<>>
      BY Zenon
    <3>2. f = [d EXCEPT !.lines[d.y + 1] = nil, !.x = 0]
      BY <2>1, <3>1, Zenon
    <3>3. d = [lines |-> d.lines, y |-> d.y, x |-> d.x, scroll_y |-> d.scroll_y, dirty |-> d.dirty]
      BY DocFields, Zenon
    <3>4. f = [lines |-> [d.lines EXCEPT ![d.y + 1] = nil], y |-> d.y, x |-> 0,
               scroll_y |-> d.scroll_y, dirty |-> d.dirty]
      BY <3>2, <3>3, Zenon
    <3> QED
      BY <3>1, <3>4, Zenon
  <2>3. e = [f EXCEPT !.dirty = TRUE]
    BY <2>1, Zenon DEF Edited
  <2> QED
    BY <2>2, <2>3, Zenon
<1>5. e = [lines |-> [d.lines EXCEPT ![d.y + 1] = <<>> \o <<>>], y |-> d.y, x |-> Len(<<>>),
           scroll_y |-> d.scroll_y, dirty |-> TRUE]
  BY <1>3, <1>4, Zenon
<1>6. TRUE \in BOOLEAN /\ <<>> \o <<>> \in Rows
  BY <1>3, Zenon
<1>7. Around(e, pre, <<>>, <<>>, post) /\ Good(e)
  BY <1>1, <1>3, <1>5, <1>6, RowEdited, Zenon
<1>8. PICK l, r, t : l = Lead(pre) /\ r = Trail(post) /\ t = (l \o u) \o (v \o r)
  BY Zenon
<1>9. l \in Seq(Text) /\ r \in Seq(Text)
  BY <1>2, <1>8, LeadTrailType, Zenon
<1>10. /\ l = <<>> \/ (Len(l) > 0 /\ l[Len(l)] = Newline)
       /\ r = <<>> \/ (Len(r) > 0 /\ r[1] = Newline)
  <2>1. l = <<>> \/ (Len(l) > 0 /\ l[Len(l)] = Newline)
    BY <1>2, <1>8, LeadTrailEnds, Zenon
  <2>2. r = <<>> \/ (Len(r) > 0 /\ r[1] = Newline)
    BY <1>2, <1>8, LeadTrailEnds, Zenon
  <2> QED
    BY <2>1, <2>2, Zenon
<1>11. Joined(d.lines) = t /\ Place(d) = Len(l \o u)
  <2>1. Joined(d.lines) = TextBefore(pre, u) \o TextAfter(v, post) /\ Place(d) = Len(TextBefore(pre, u))
    BY <1>1, AroundView
  <2> QED
    BY <1>8, <2>1, Zenon DEF TextBefore, TextAfter
<1>12. Joined(e.lines) = l \o r /\ Place(e) = Len(l)
  <2>1. /\ Joined(e.lines) = TextBefore(pre, <<>>) \o TextAfter(<<>>, post)
        /\ Place(e) = Len(TextBefore(pre, <<>>))
    <3>1. PICK nil : nil = <<>>
      BY Zenon
    <3>2. Around(e, pre, nil, nil, post)
      BY <1>7, <3>1, Zenon
    <3>3. Joined(e.lines) = TextBefore(pre, nil) \o TextAfter(nil, post)
      BY <3>2, AroundView
    <3>4. Place(e) = Len(TextBefore(pre, nil))
      BY <3>2, AroundView, Zenon
    <3> QED
      BY <3>1, <3>3, <3>4, Zenon
  <2>2. TextBefore(pre, <<>>) = l /\ TextAfter(<<>>, post) = r
    BY <1>8, <1>9, ConcatEmptySeq, Zenon DEF TextBefore, TextAfter
  <2> QED
    BY <2>1, <2>2, Zenon
<1>13. Cleared(t, Len(l \o u), l \o r, Len(l))
  BY <1>2, <1>8, <1>9, <1>10, ClearText, Zenon
<1>14. Cleared(Joined(d.lines), Place(d), Joined(e.lines), Place(e))
  BY <1>11, <1>12, <1>13, Zenon
<1> QED
  BY <1>7, <1>14, Zenon DEF DocStep, FlatStep

\* A document marked as changed has the same text.
LEMMA EditedView ==
  ASSUME NEW d, NEW b, NEW a, HasView(d, b, a)
  PROVE  HasView(Edited(d), b, a)
<1>1. PICK e : e = Edited(d)
  BY Zenon
<1>2. Good(d)
  BY Zenon DEF HasView
<1>3. e = [lines |-> d.lines, y |-> d.y, x |-> d.x, scroll_y |-> d.scroll_y, dirty |-> TRUE]
  <2>1. d = [lines |-> d.lines, y |-> d.y, x |-> d.x, scroll_y |-> d.scroll_y, dirty |-> d.dirty]
    BY <1>2, DocFields, Zenon
  <2>2. e = [d EXCEPT !.dirty = TRUE]
    BY <1>1, Zenon DEF Edited
  <2> QED
    BY <2>1, <2>2, Zenon
<1>4. Good(e) /\ e.lines = d.lines /\ e.y = d.y /\ e.x = d.x
  BY <1>2, <1>3, Zenon DEF Good, Docs
<1>5. PICK pre, u, v, post : /\ Around(d, pre, u, v, post)
                             /\ b = TextBefore(pre, u) /\ a = TextAfter(v, post)
  BY Zenon DEF HasView
<1>6. Around(e, pre, u, v, post)
  BY <1>4, <1>5, Zenon DEF Around
<1>7. HasView(e, b, a)
  BY <1>4, <1>5, <1>6, Zenon DEF HasView
<1> QED
  BY <1>1, <1>7, Zenon

\* The keys that change the text.
LEMMA EditSteps ==
  ASSUME NEW d, Good(d)
  PROVE  /\ \A ch \in EditorChars : DocStep(d, Edited(insert_char(d, ch)))
         /\ DocStep(d, Edited(handle_enter(d)))
         /\ DocStep(d, Edited(handle_backspace(d)))
         /\ \A clip \in Clips : DocStep(d, paste(d, clip))
<1>1. PICK b, a : HasView(d, b, a)
  BY ViewExists, Zenon
<1>2. b \in Seq(Text) /\ b \o <<>> = b /\ <<>> \in Seq(Text)
  BY <1>1, ViewFacts, ConcatEmptySeq
<1>3. ASSUME NEW ch \in EditorChars PROVE DocStep(d, Edited(insert_char(d, ch)))
  <2>1. ch \in Letters /\ <<ch>> \in Seq(Text)
    BY EditorAssumption DEF Letters, Text
  <2>2. PICK e : e = insert_char(d, ch)
    BY Zenon
  <2>3. HasView(e, b, a) \/ HasView(e, b \o <<ch>>, a)
    BY <1>1, <2>1, <2>2, InsertView, Zenon
  <2>4. HasView(Edited(e), b \o <<>>, a) \/ HasView(Edited(e), b \o <<ch>>, a)
    BY <1>2, <2>3, EditedView, Zenon
  <2>5. DocStep(d, Edited(e))
    BY <1>1, <1>2, <2>1, <2>4, InsertStep, Zenon
  <2> QED
    BY <2>2, <2>5, Zenon
<1>4. DocStep(d, Edited(handle_enter(d)))
  <2>1. NL \in Seq(Text)
    BY DEF NL, Text
  <2>2. PICK e : e = handle_enter(d)
    BY Zenon
  <2>3. HasView(e, b, a) \/ HasView(e, b \o NL, a)
    BY <1>1, <2>2, EnterView, Zenon
  <2>4. HasView(Edited(e), b \o <<>>, a) \/ HasView(Edited(e), b \o NL, a)
    BY <1>2, <2>3, EditedView, Zenon
  <2>5. DocStep(d, Edited(e))
    BY <1>1, <1>2, <2>1, <2>4, InsertStep, Zenon
  <2> QED
    BY <2>2, <2>5, Zenon
<1>5. DocStep(d, Edited(handle_backspace(d)))
  <2>1. PICK e : e = handle_backspace(d)
    BY Zenon
  <2>2. HasView(e, b, a) \/ \E w \in Seq(Text), c \in Text : b = w \o <<c>> /\ HasView(e, w, a)
    BY <1>1, <2>1, BackspaceView, Zenon
  <2>3. CASE HasView(e, b, a)
    <3>1. HasView(Edited(e), b \o <<>>, a)
      BY <1>2, <2>3, EditedView, Zenon
    <3>2. DocStep(d, Edited(e))
      BY <1>1, <1>2, <3>1, InsertStep, Zenon
    <3> QED
      BY <2>1, <3>2, Zenon
  <2>4. ASSUME NEW w \in Seq(Text), NEW c \in Text, b = w \o <<c>>, HasView(e, w, a)
        PROVE  DocStep(d, Edited(e))
    <3>1. HasView(Edited(e), w, a)
      BY <2>4, EditedView, Zenon
    <3>2. HasView(d, w \o <<c>>, a)
      BY <1>1, <2>4, Zenon
    <3> QED
      BY <3>1, <3>2, EraseStep, Zenon
  <2> QED
    BY <2>1, <2>2, <2>3, <2>4, Zenon
<1>6. ASSUME NEW clip \in Clips PROVE DocStep(d, paste(d, clip))
  <2>1. PICK e : e = paste(d, clip)
    BY Zenon
  <2>2. PICK new \in Seq(Text) : HasView(e, b \o new, a)
    BY <1>1, <2>1, PasteView, Zenon
  <2>3. DocStep(d, e)
    BY <1>1, <2>2, InsertStep, Zenon
  <2> QED
    BY <2>1, <2>3, Zenon
<1> QED
  BY <1>3, <1>4, <1>5, <1>6, Zenon

\* The selection as the program's variables hold it.
Marks == [start : [y : Int, x : Int], is_selecting : BOOLEAN, outdated : BOOLEAN]

\* The inductive invariant: the document is good, and SelectionInText.
EditorInv == Good(doc) /\ mark \in Marks /\ SelectionInText

\* A step is one of the flat text, and of the selection's start: it is dropped,
\* outdated, put at the cursor, or left, and the last two only where the lines
\* are the same.
MarkStep(m, d, m2, e) ==
  /\ m2 \in Marks
  /\ \/ m2.start = NoPos
     \/ m2.outdated
     \/ e.lines = d.lines /\ m2.start = [y |-> d.y, x |-> d.x]
     \/ e.lines = d.lines /\ m2.start = m.start /\ m2.outdated = m.outdated

\* Every step of the program is such a step.
LEMMA EditorSteps ==
  ASSUME EditorInv, [EditorNext]_editorVars
  PROVE  DocStep(doc, doc') /\ MarkStep(mark, doc, mark', doc')
<1>1. Good(doc) /\ mark \in Marks
  BY Zenon DEF EditorInv
<1>2. /\ doc.y \in Nat /\ doc.x \in Nat /\ doc.scroll_y \in Nat /\ doc.dirty \in BOOLEAN
      /\ doc = [lines |-> doc.lines, y |-> doc.y, x |-> doc.x, scroll_y |-> doc.scroll_y, dirty |-> doc.dirty]
  BY <1>1, DocFields, Zenon
<1>3. mark = [start |-> mark.start, is_selecting |-> mark.is_selecting, outdated |-> mark.outdated]
      /\ mark.is_selecting \in BOOLEAN /\ mark.outdated \in BOOLEAN
  BY <1>1, Zenon DEF Marks
<1>4. NoPos \in [y : Int, x : Int] /\ [y |-> doc.y, x |-> doc.x] \in [y : Int, x : Int]
  BY <1>2 DEF NoPos
<1>5. MarkStep(mark, doc, Unmarked, doc')
  BY <1>3, <1>4, Zenon DEF MarkStep, Unmarked, Marks
<1>6. MarkStep(mark, doc, Outdated, doc')
  BY <1>1, <1>3, Zenon DEF MarkStep, Outdated, Marks
<1>7. doc'.lines = doc.lines => MarkStep(mark, doc, mark, doc') /\ MarkStep(mark, doc, MarkHere, doc')
  BY <1>1, <1>3, <1>4, Zenon DEF MarkStep, MarkHere, Marks
<1>8. ASSUME Good(doc'), doc'.lines = doc.lines PROVE DocStep(doc, doc')
  BY <1>8, MoveStep, Zenon
<1>9. CASE UNCHANGED editorVars
  BY <1>1, <1>7, <1>8, <1>9, Zenon DEF editorVars
<1>10. ASSUME NEW row \in MouseRows, NEW col \in MouseCols, MousePressed(row, col)
       PROVE  DocStep(doc, doc') /\ MarkStep(mark, doc, mark', doc')
  <2>1. PICK n : n = row + doc.scroll_y
    BY Zenon
  <2>2. n \in Int /\ col \in Nat
    BY <1>2, <2>1, EditorAssumption
  <2>3. CASE 0 =< n /\ n < Len(doc.lines)
    <3>1. doc' = [doc EXCEPT !.y = n, !.x = AtMost(col, Len(Row(doc, n)))]
      BY <1>10, <2>1, <2>3, Zenon DEF MousePressed
    <3>2. doc' = [lines |-> doc.lines, y |-> n, x |-> AtMost(col, Len(Row(doc, n))),
                  scroll_y |-> doc.scroll_y, dirty |-> doc.dirty]
      BY <1>2, <3>1, Zenon
    <3>3. doc.lines \in Seq(Rows) /\ Len(doc.lines) \in Nat /\ Len(doc.lines) =< MAX_LINES
      BY <1>1, GoodFacts, Zenon DEF Good
    <3>4. Row(doc, n) \in Rows
      BY <2>2, <2>3, <3>3, ElementOfSeq DEF Row
    <3>5. AtMost(col, Len(Row(doc, n))) \in Nat /\ AtMost(col, Len(Row(doc, n))) =< Len(Row(doc, n))
      <4>1. Len(Row(doc, n)) \in Nat
        BY <3>4, LenProperties, Zenon DEF Rows
      <4> QED
        BY <2>2, <4>1 DEF AtMost
    <3>6. doc' \in Docs
      BY <1>2, <2>2, <2>3, <3>2, <3>3, <3>5 DEF Docs
    <3>7. doc'.lines = doc.lines /\ doc'.y = n /\ doc'.x = AtMost(col, Len(Row(doc, n)))
      BY <3>2, Zenon
    <3>8. Good(doc')
      BY <2>3, <3>3, <3>5, <3>6, <3>7, Zenon DEF Good, Row
    <3>9. mark' = mark \/ mark' = [start |-> [y |-> doc.y, x |-> doc.x],
                                   is_selecting |-> TRUE, outdated |-> FALSE]
      BY <1>10, Zenon DEF MousePressed
    <3>10. MarkStep(mark, doc, mark', doc')
      <4>1. CASE mark' = mark
        BY <1>7, <3>7, <4>1, Zenon
      <4>2. CASE mark' = [start |-> [y |-> doc.y, x |-> doc.x], is_selecting |-> TRUE, outdated |-> FALSE]
        BY <1>4, <3>7, <4>2, Zenon DEF MarkStep, Marks
      <4> QED
        BY <3>9, <4>1, <4>2, Zenon
    <3> QED
      BY <1>8, <3>7, <3>8, <3>10, Zenon
  <2>4. CASE ~(0 =< n /\ n < Len(doc.lines))
    <3>1. doc' = doc /\ mark' = mark
      BY <1>10, <2>1, <2>4, Zenon DEF MousePressed
    <3> QED
      BY <1>1, <1>7, <1>8, <3>1, Zenon
  <2> QED
    BY <2>3, <2>4, Zenon
<1>11. CASE MouseReleased
  <2>1. doc' = doc /\ mark' = [mark EXCEPT !.is_selecting = FALSE]
    BY <1>11, Zenon DEF MouseReleased
  <2>2. MarkStep(mark, doc, mark', doc')
    BY <1>1, <1>3, <2>1, Zenon DEF MarkStep, Marks
  <2> QED
    BY <1>1, <1>8, <2>1, <2>2, Zenon
<1>12. CASE Arrow
  <2>1. PICK d \in Moves(doc) : doc' = d /\ mark' = Unmarked
    BY <1>12, Zenon DEF Arrow, Key
  <2>2. Good(doc') /\ doc'.lines = doc.lines
    BY <1>1, <2>1, MovesGood, Zenon
  <2> QED
    BY <1>5, <1>8, <2>1, <2>2, Zenon
<1>13. CASE ShiftArrow
  <2>1. PICK d \in Moves(doc) : doc' = d /\ mark' = MarkHere
    BY <1>13, Zenon DEF ShiftArrow, Key
  <2>2. Good(doc') /\ doc'.lines = doc.lines
    BY <1>1, <2>1, MovesGood, Zenon
  <2> QED
    BY <1>7, <1>8, <2>1, <2>2, Zenon
<1>14. CASE TypeChar
  <2>1. PICK ch \in EditorChars : doc' = Edited(insert_char(doc, ch)) /\ mark' = Unmarked
    BY <1>14, Zenon DEF TypeChar, Key
  <2>2. DocStep(doc, Edited(insert_char(doc, ch)))
    BY <1>1, EditSteps, Zenon
  <2> QED
    BY <1>5, <2>1, <2>2, Zenon
<1>15. CASE Enter
  <2>1. doc' = Edited(handle_enter(doc)) /\ mark' = Unmarked
    BY <1>15, Zenon DEF Enter, Key
  <2>2. DocStep(doc, Edited(handle_enter(doc)))
    BY <1>1, EditSteps, Zenon
  <2> QED
    BY <1>5, <2>1, <2>2, Zenon
<1>16. CASE Backspace
  <2>1. doc' = Edited(handle_backspace(doc)) /\ mark' = Unmarked
    BY <1>16, Zenon DEF Backspace, Key
  <2>2. DocStep(doc, Edited(handle_backspace(doc)))
    BY <1>1, EditSteps, Zenon
  <2> QED
    BY <1>5, <2>1, <2>2, Zenon
<1>17. CASE Copy \/ OtherKey \/ Quit \/ Ended
  <2>1. doc' = doc /\ mark' = mark
    BY <1>17, Zenon DEF Copy, OtherKey, Quit, Ended, Key, editorVars
  <2> QED
    BY <1>1, <1>7, <1>8, <2>1, Zenon
<1>18. CASE Cut
  <2>1. CASE CopyPanics(doc, mark.start)
    <3>1. doc' = doc /\ mark' = mark
      BY <1>18, <2>1, Zenon DEF Cut, Key
    <3> QED
      BY <1>1, <1>7, <1>8, <3>1, Zenon
  <2>2. CASE ~CopyPanics(doc, mark.start)
    <3>1. doc' = Edited([doc EXCEPT !.lines[doc.y + 1] = <<>>, !.x = 0]) /\ mark' = Outdated
      BY <1>18, <2>2, Zenon DEF Cut, Key
    <3>2. DocStep(doc, Edited([doc EXCEPT !.lines[doc.y + 1] = <<>>, !.x = 0]))
      BY <1>1, CutStep, Zenon
    <3> QED
      BY <1>6, <3>1, <3>2, Zenon
  <2> QED
    BY <2>1, <2>2, Zenon
<1>19. CASE Paste
  <2>1. PICK clip \in Clips : doc' = paste(doc, clip) /\ mark' = Outdated
    BY <1>19, Zenon DEF Paste, Key
  <2>2. DocStep(doc, paste(doc, clip))
    BY <1>1, EditSteps, Zenon
  <2> QED
    BY <1>6, <2>1, <2>2, Zenon
<1>20. CASE Save
  <2>1. PICK opened \in BOOLEAN : doc' = [doc EXCEPT !.dirty = @ /\ ~opened] /\ mark' = mark
    BY <1>20, Zenon DEF Save, Key
  <2>2. PICK dirty \in BOOLEAN : dirty = (doc.dirty /\ ~opened)
    BY <1>2, Zenon
  <2>3. doc' = [lines |-> doc.lines, y |-> doc.y, x |-> doc.x, scroll_y |-> doc.scroll_y, dirty |-> dirty]
    BY <1>2, <2>1, <2>2, Zenon
  <2>4. Good(doc') /\ doc'.lines = doc.lines
    BY <1>1, <1>2, <2>3, Zenon DEF Good, Docs
  <2> QED
    BY <1>7, <1>8, <2>1, <2>4, Zenon
<1> QED
  BY <1>9, <1>10, <1>11, <1>12, <1>13, <1>14, <1>15, <1>16, <1>17, <1>18, <1>19, <1>20, Zenon
     DEF EditorNext, KeyNext

\* The invariant holds of every state.
LEMMA EditorInvariant == EditorSpec => []EditorInv
<1>1. EditorInit => EditorInv
  <2> SUFFICES ASSUME EditorInit PROVE EditorInv
    BY Zenon
  <2>1. PICK bytes \in LoadedFiles : doc = FreshDoc(bytes)
    BY Zenon DEF EditorInit
  <2>2. Good(doc)
    BY <2>1, FreshGood, Zenon
  <2>3. mark \in Marks /\ SelectionInText
    BY DEF EditorInit, NoMark, NoPos, Marks, SelectionInText
  <2> QED
    BY <2>2, <2>3, Zenon DEF EditorInv
<1>2. EditorInv /\ [EditorNext]_editorVars => EditorInv'
  <2> SUFFICES ASSUME EditorInv, [EditorNext]_editorVars PROVE EditorInv'
    BY Zenon
  <2>1. DocStep(doc, doc') /\ MarkStep(mark, doc, mark', doc')
    BY EditorSteps, Zenon
  <2>2. Good(doc') /\ mark' \in Marks
    BY <2>1, Zenon DEF DocStep, MarkStep
  <2>3. ASSUME mark'.start = NoPos \/ mark'.outdated PROVE SelectionInText'
    BY <2>3, Zenon DEF SelectionInText
  <2>4. ASSUME doc'.lines = doc.lines, mark'.start = [y |-> doc.y, x |-> doc.x]
        PROVE  SelectionInText'
    <3>1. doc.y < Len(doc.lines) /\ doc.x =< Len(doc.lines[doc.y + 1])
      BY Zenon DEF EditorInv, Good
    <3> QED
      BY <2>4, <3>1 DEF SelectionInText, Row
  <2>5. ASSUME doc'.lines = doc.lines, mark'.start = mark.start, mark'.outdated = mark.outdated
        PROVE  SelectionInText'
    BY <2>5, Zenon DEF EditorInv, SelectionInText, Row
  <2>6. SelectionInText'
    BY <2>1, <2>3, <2>4, <2>5, Zenon DEF MarkStep
  <2> QED
    BY <2>2, <2>6, Zenon DEF EditorInv
<1> QED
  BY <1>1, <1>2, PTL DEF EditorSpec

\* SelectionInText for every array size, file, clipboard and place clicked: copy's
\* slices start where there is text, unless cut or paste came in between.
THEOREM SelectionStaysInText == EditorSpec => []SelectionInText
<1>1. EditorInv => SelectionInText
  BY Zenon DEF EditorInv
<1> QED
  BY <1>1, EditorInvariant, PTL

\* The array of lines implements the flat text, for every array size, file and
\* clipboard.
THEOREM EditorRefinesFlatText == EditorSpec => EditsFlatText
<1>1. EditorInit => Flat!FlatInit
  <2> SUFFICES ASSUME EditorInit PROVE Flat!FlatInit
    BY Zenon
  <2>1. PICK bytes \in LoadedFiles : doc = FreshDoc(bytes)
    BY Zenon DEF EditorInit
  <2>2. Place(doc) = 0
    BY <2>1, FreshGood, Zenon
  <2> QED
    BY <2>2, Zenon DEF Flat!FlatInit, Place
<1>2. EditorInv /\ [EditorNext]_editorVars => [Flat!FlatNext]_Flat!flatVars
  <2> SUFFICES ASSUME EditorInv, [EditorNext]_editorVars PROVE Flat!FlatNext
    BY Zenon
  <2>1. FlatStep(Joined(doc.lines), Place(doc), Joined(doc'.lines), Place(doc'))
    BY EditorSteps, Zenon DEF DocStep
  <2> QED
    BY <2>1, Zenon DEF Flat!FlatNext, Flat!MoveCursor, Flat!InsertText, Flat!EraseBefore, Flat!ClearLine,
                Flat!Before, Flat!After, FlatStep, Moved, Inserted, Erased, Cleared, Place, CursorRow, Row
<1> QED
  BY <1>1, <1>2, EditorInvariant, PTL DEF EditorSpec, EditsFlatText, Flat!FlatSpec
=============================================================================
