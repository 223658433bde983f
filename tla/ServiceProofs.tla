--------------------------- MODULE ServiceProofs ----------------------------
(***************************************************************************)
(* What the services above the scheduler keep: the normalisation of paths  *)
(* (Paths), the file syscalls over the RAM file system (Files), the line   *)
(* editor's history (ShellLine) and the listing of a FAT directory         *)
(* (FatDirectory), each for every value of its constants.  The inductive   *)
(* invariants are PathInv, Sound, HistoryInv and ScanInv.                  *)
(***************************************************************************)
EXTENDS Files, ShellLine, FatDirectory, ModArith, FiniteSetTheorems

-----------------------------------------------------------------------------
(* Paths: normalize keeps the names that no later stretch climbs above *)

\* The parts of read in a stretch that are of a kind.
Stretch(from, to, kind) == {k \in from .. to : read[k] \in kind}

\* They can be counted.
LEMMA CountType ==
  ASSUME NEW from \in Nat, NEW to \in Nat, NEW kind
  PROVE  /\ IsFiniteSet(Stretch(from, to, kind))
         /\ Count(from, to, kind) = Cardinality(Stretch(from, to, kind))
         /\ Count(from, to, kind) \in Nat
<1>1. IsFiniteSet(from .. to)
  BY FS_Interval
<1>2. Stretch(from, to, kind) \in SUBSET (from .. to)
  BY Zenon DEF Stretch
<1>3. IsFiniteSet(Stretch(from, to, kind))
  BY <1>1, <1>2, FS_Subset, Zenon
<1> QED
  BY <1>3, FS_CardinalityType, Zenon DEF Count, Stretch

\* Reading one more part leaves the counts up to the parts before it alone ...
LEMMA CountSame ==
  ASSUME read \in Seq(Parts), NEW part \in Parts, read' = Append(read, part),
         NEW from \in Nat \ {0}, NEW to \in 0 .. Len(read), NEW kind
  PROVE  Count(from, to, kind)' = Count(from, to, kind)
<1>1. \A k \in from .. to : read'[k] = read[k]
  OBVIOUS
<1>2. {k \in from .. to : read'[k] \in kind} = {k \in from .. to : read[k] \in kind}
  BY <1>1, Zenon
<1> QED
  BY <1>2, Zenon DEF Count

\* ... and adds one to those that reach it, if it is of the kind.
LEMMA CountNew ==
  ASSUME read \in Seq(Parts), NEW part \in Parts, read' = Append(read, part),
         NEW n, n = Len(read), NEW from \in 1 .. (n + 1), NEW kind
  PROVE  Count(from, n + 1, kind)' =
           Count(from, n, kind) + (IF part \in kind THEN 1 ELSE 0)
<1> DEFINE old == Stretch(from, n, kind)
           new == {k \in from .. (n + 1) : read'[k] \in kind}
<1>0. n \in Nat /\ from \in Nat
  OBVIOUS
<1>1. (\A k \in from .. n : read'[k] = read[k]) /\ read'[n + 1] = part
  OBVIOUS
<1>2. from .. (n + 1) = (from .. n) \cup {n + 1}
  BY <1>0
<1>3. new = IF part \in kind THEN old \cup {n + 1} ELSE old
  <2>1. \A k : k \in new <=> k \in old \/ (k = n + 1 /\ part \in kind)
    BY <1>0, <1>1, <1>2, Zenon DEF Stretch
  <2> QED
    BY <2>1, Zenon
<1>4. IsFiniteSet(old) /\ Count(from, n, kind) = Cardinality(old) /\ Cardinality(old) \in Nat
  BY <1>0, CountType, Zenon
<1>5. n + 1 \notin old
  BY <1>0 DEF Stretch
<1>6. Cardinality(old \cup {n + 1}) = Cardinality(old) + 1
  BY <1>4, <1>5, FS_AddElement, Zenon
<1>7. Count(from, n + 1, kind)' = Cardinality(new)
  BY Zenon DEF Count
<1> HIDE DEF new, old
<1>8. Cardinality(new) = Cardinality(old) + (IF part \in kind THEN 1 ELSE 0)
  BY <1>3, <1>4, <1>6
<1> QED
  BY <1>4, <1>7, <1>8, Zenon

\* Names less climbs, from behind i to the end.
Rise(i) == Count(i + 1, Len(read), Names) - Count(i + 1, Len(read), {".."})

\* The inductive invariant.  Behind a kept name the path descends by as many
\* levels as names are kept there: this says which name ".." takes away.
PathInv ==
  /\ read \in Seq(Parts) /\ components \in Seq(Names)
  /\ \A i \in Kept : Rise(i) = Cardinality(KeptAfter(i))
  /\ ComponentsAreKept

\* What is kept is finite.
LEMMA KeptFinite ==
  ASSUME read \in Seq(Parts)
  PROVE  /\ Kept \subseteq 1 .. Len(read) /\ IsFiniteSet(Kept) /\ Cardinality(Kept) \in Nat
         /\ \A i : /\ IsFiniteSet(KeptAfter(i)) /\ Cardinality(KeptAfter(i)) \in Nat
                   /\ KeptAfter(i) \subseteq Kept
<1>1. Kept \in SUBSET (1 .. Len(read)) /\ Len(read) \in Nat
  BY DEF Kept
<1>2. IsFiniteSet(1 .. Len(read))
  BY <1>1, FS_Interval
<1>3. IsFiniteSet(Kept)
  BY <1>1, <1>2, FS_Subset, Zenon
<1>4. \A i : KeptAfter(i) \in SUBSET Kept
  BY Zenon DEF KeptAfter
<1>5. \A i : IsFiniteSet(KeptAfter(i))
  BY <1>3, <1>4, FS_Subset, Zenon
<1> QED
  BY <1>1, <1>3, <1>4, <1>5, FS_CardinalityType, Zenon

\* No stretch from a kept name to the end climbs.
LEMMA RiseKept ==
  ASSUME read \in Seq(Parts), NEW i \in 1 .. Len(read)
  PROVE  /\ Rise(i) \in Int
         /\ i \in Kept => Rise(i) >= 0
<1> DEFINE n == Len(read)
           up == Count(i + 1, n, {".."})
           down == Count(i + 1, n, Names)
<1>1. n \in Nat /\ i + 1 \in Nat
  OBVIOUS
<1>2. up \in Nat /\ down \in Nat
  BY <1>1, CountType, Zenon
<1>3. CASE i = n
  <2>1. Stretch(i + 1, n, {".."}) = {} /\ Stretch(i + 1, n, Names) = {}
    BY <1>1, <1>3 DEF Stretch
  <2>2. up = 0 /\ down = 0
    BY <1>1, <2>1, CountType, FS_EmptySet
  <2> QED
    BY <2>2 DEF Rise
<1>4. CASE i # n
  <2>1. n \in (i + 1) .. n
    BY <1>1, <1>4
  <2>2. i \in Kept => up <= down
    BY <2>1, Zenon DEF Kept
  <2> QED
    BY <1>2, <2>2 DEF Rise
<1> QED
  BY <1>3, <1>4, Zenon

\* What a further part does to what is kept: it can only keep itself, if it is
\* a name, and take away the names above which it climbs.
LEMMA KeptNext ==
  ASSUME read \in Seq(Parts), NEW part \in Parts, read' = Append(read, part),
         NEW n, n = Len(read)
  PROVE  /\ n \in Nat /\ Len(read') = n + 1
         /\ \A i \in 1 .. n :
              /\ Rise(i)' = Rise(i) + (IF part \in Names THEN 1 ELSE 0)
                                    - (IF part = ".." THEN 1 ELSE 0)
              /\ i \in Kept' <=> i \in Kept /\ Rise(i)' >= 0
         /\ n + 1 \in Kept' <=> part \in Names
         /\ Rise(n + 1)' = 0
         /\ Kept' \subseteq 1 .. (n + 1)
<1>1. n \in Nat /\ Len(read') = n + 1 /\ read'[n + 1] = part /\ \A k \in 1 .. n : read'[k] = read[k]
  OBVIOUS
<1>2. Kept' = {i \in 1 .. (n + 1) :
                 /\ read'[i] \in Names
                 /\ \A j \in i + 1 .. (n + 1) :
                      Count(i + 1, j, {".."})' =< Count(i + 1, j, Names)'}
  BY <1>1, Zenon DEF Kept
<1>3. ASSUME NEW i \in 1 .. n
      PROVE  /\ Rise(i)' = Rise(i) + (IF part \in Names THEN 1 ELSE 0)
                                   - (IF part = ".." THEN 1 ELSE 0)
             /\ i \in Kept' <=> i \in Kept /\ Rise(i)' >= 0
  <2> DEFINE up == Count(i + 1, n, {".."})
             down == Count(i + 1, n, Names)
             up2 == Count(i + 1, n + 1, {".."})'
             down2 == Count(i + 1, n + 1, Names)'
  <2>1. up \in Nat /\ down \in Nat
    BY <1>1, CountType
  <2>2. i + 1 \in 1 .. (n + 1) /\ i + 1 \in Nat \ {0}
    BY <1>1
  <2>3. up2 = up + (IF part = ".." THEN 1 ELSE 0) /\ down2 = down + (IF part \in Names THEN 1 ELSE 0)
    <3>1. up2 = up + (IF part \in {".."} THEN 1 ELSE 0)
      BY <2>2, CountNew
    <3>2. down2 = down + (IF part \in Names THEN 1 ELSE 0)
      BY <2>2, CountNew
    <3> QED
      BY <3>1, <3>2, Zenon
  <2>4. Rise(i)' = down2 - up2 /\ Rise(i) = down - up
    BY <1>1, Zenon DEF Rise
  <2>5. i \in Kept <=> read[i] \in Names
                       /\ \A j \in i + 1 .. n : Count(i + 1, j, {".."}) =< Count(i + 1, j, Names)
    BY Zenon DEF Kept
  <2>6. i \in Kept' <=> read[i] \in Names
                        /\ \A j \in i + 1 .. (n + 1) :
                             Count(i + 1, j, {".."})' =< Count(i + 1, j, Names)'
    BY <1>1, <1>2
  <2>7. \A j \in i + 1 .. n : /\ Count(i + 1, j, {".."})' = Count(i + 1, j, {".."})
                              /\ Count(i + 1, j, Names)' = Count(i + 1, j, Names)
    <3>1. \A j \in i + 1 .. n : j \in 0 .. Len(read)
      BY <1>1
    <3> QED
      BY <2>2, <3>1, CountSame, Zenon
  <2>8. \A j : j \in i + 1 .. (n + 1) <=> j \in i + 1 .. n \/ j = n + 1
    BY <1>1
  <2>9. up2 =< down2 <=> Rise(i)' >= 0
    BY <2>1, <2>3, <2>4
  <2> HIDE DEF up, down
  <2>10. i \in Kept' <=> i \in Kept /\ up2 =< down2
    BY <2>5, <2>6, <2>7, <2>8, Zenon
  <2> QED
    BY <2>1, <2>3, <2>4, <2>9, <2>10
<1>4. n + 1 \in Kept' <=> part \in Names
  <2>1. \A j : ~(j \in (n + 1) + 1 .. (n + 1))
    BY <1>1
  <2> QED
    BY <1>1, <1>2, <2>1
<1>5. Rise(n + 1)' = 0
  <2>1. \A kind : {k \in (n + 1) + 1 .. (n + 1) : read'[k] \in kind} = {}
    BY <1>1
  <2>2. \A kind : Count((n + 1) + 1, n + 1, kind)' = 0
    BY <2>1, FS_EmptySet, Zenon DEF Count
  <2> QED
    BY <1>1, <2>2 DEF Rise
<1> QED
  BY <1>1, <1>2, <1>3, <1>4, <1>5, Zenon

\* A name is pushed and kept, behind all that was kept.
LEMMA NameKept ==
  ASSUME PathInv, NEW part \in Parts, part \in Names, part # "..", NEW n, n = Len(read),
         read' = Append(read, part), components' = Append(components, part)
  PROVE  PathInv'
<1>1. read \in Seq(Parts) /\ components \in Seq(Names)
  BY Zenon DEF PathInv
<1>2. read' \in Seq(Parts) /\ components' \in Seq(Names)
  BY <1>1
<1>3. Kept \subseteq 1 .. n /\ IsFiniteSet(Kept) /\ Cardinality(Kept) \in Nat
      /\ \A i : /\ IsFiniteSet(KeptAfter(i)) /\ Cardinality(KeptAfter(i)) \in Nat
                /\ KeptAfter(i) \subseteq Kept
  BY <1>1, KeptFinite, Zenon
<1>4. /\ n \in Nat
      /\ \A i \in 1 .. n : /\ Rise(i)' = Rise(i) + 1
                           /\ i \in Kept' <=> i \in Kept /\ Rise(i)' >= 0
      /\ n + 1 \in Kept' /\ Rise(n + 1)' = 0 /\ Kept' \subseteq 1 .. (n + 1)
  <2>1. \A i \in 1 .. n : Rise(i) \in Int
    BY <1>1, RiseKept, Zenon
  <2> QED
    BY <1>1, <2>1, KeptNext
<1>5. \A i \in Kept : Rise(i) \in Int /\ Rise(i) >= 0
  BY <1>1, <1>3, RiseKept, Zenon
<1>6. Kept' = Kept \cup {n + 1}
  <2>1. \A i \in 1 .. n : i \in Kept' <=> i \in Kept
    BY <1>4, <1>5
  <2>2. \A i : i \in 1 .. (n + 1) <=> i \in 1 .. n \/ i = n + 1
    BY <1>4
  <2> QED
    BY <1>3, <1>4, <2>1, <2>2, Zenon
<1>7. n + 1 \notin Kept
  BY <1>3, <1>4
<1>8. Cardinality(Kept') = Cardinality(Kept) + 1
  BY <1>3, <1>6, <1>7, FS_AddElement, Zenon
<1>9. KeptAfter(n + 1)' = {} /\ Cardinality({}) = 0
  BY <1>3, <1>4, <1>6, FS_EmptySet DEF KeptAfter
<1>10. ASSUME NEW i \in Kept
       PROVE  Cardinality(KeptAfter(i)') = Cardinality(KeptAfter(i)) + 1
  <2>1. KeptAfter(i)' = KeptAfter(i) \cup {n + 1}
    BY <1>3, <1>4, <1>6 DEF KeptAfter
  <2>2. n + 1 \notin KeptAfter(i)
    BY <1>3, <1>7, Zenon
  <2> QED
    BY <1>3, <2>1, <2>2, FS_AddElement, Zenon
<1>11. (\A i \in Kept : Rise(i) = Cardinality(KeptAfter(i))) /\ ComponentsAreKept
  BY Zenon DEF PathInv
<1>12. \A i \in Kept' : Rise(i)' = Cardinality(KeptAfter(i)')
  <2>1. \A i \in Kept : Rise(i)' = Cardinality(KeptAfter(i)')
    BY <1>3, <1>4, <1>10, <1>11, Zenon
  <2> QED
    BY <1>4, <1>6, <1>9, <2>1, Zenon
<1>13. Len(components) = Cardinality(Kept)
       /\ \A i \in Kept : components[Cardinality(Kept) - Cardinality(KeptAfter(i))] = read[i]
  BY <1>11, Zenon DEF ComponentsAreKept
<1>14. Len(components') = Cardinality(Kept')
  BY <1>1, <1>8, <1>13
<1>15. ASSUME NEW i \in Kept'
       PROVE  components'[Cardinality(Kept') - Cardinality(KeptAfter(i)')] = read'[i]
  <2>1. CASE i = n + 1
    <3>1. Cardinality(Kept') - Cardinality(KeptAfter(i)') = Len(components) + 1
      <4>1. Cardinality(KeptAfter(i)') = 0
        BY <1>9, <2>1, Zenon
      <4> QED
        BY <1>3, <1>8, <1>13, <4>1
    <3>2. components'[Len(components) + 1] = part /\ read'[n + 1] = part
      BY <1>1
    <3> QED
      BY <2>1, <3>1, <3>2, Zenon
  <2>2. CASE i \in Kept
    <3> DEFINE at == Cardinality(Kept) - Cardinality(KeptAfter(i))
    <3>1. Cardinality(Kept') - Cardinality(KeptAfter(i)') = at
      BY <1>3, <1>8, <1>10, <2>2
    <3>2. at \in 1 .. Len(components)
      <4>1. i \notin KeptAfter(i) /\ KeptAfter(i) \subseteq Kept /\ KeptAfter(i) # Kept
        BY <1>3, <1>4, <2>2 DEF KeptAfter
      <4>2. Cardinality(KeptAfter(i)) < Cardinality(Kept)
        BY <1>3, <4>1, FS_Subset
      <4> QED
        BY <1>3, <1>13, <4>2
    <3>3. read'[i] = read[i]
      BY <1>1, <1>3, <2>2
    <3>4. components'[at] = components[at]
      BY <1>1, <3>2
    <3> QED
      BY <1>13, <2>2, <3>1, <3>3, <3>4, Zenon
  <2> QED
    BY <1>6, <2>1, <2>2, Zenon
<1> QED
  BY <1>2, <1>12, <1>14, <1>15, Zenon DEF PathInv, ComponentsAreKept

\* A sequence without its last entry.
LEMMA Curtailed ==
  ASSUME NEW S, NEW s \in Seq(S), NEW p \in Nat, Len(s) = p + 1, NEW d, d = SubSeq(s, 1, p)
  PROVE  d \in Seq(S) /\ Len(d) = p /\ \A k \in 1 .. p : d[k] = s[k]
<1>1. (\A k \in 1 .. p : s[k] \in S) /\ 1 \in Int /\ p \in Int
  OBVIOUS
<1>2. /\ SubSeq(s, 1, p) \in Seq(S)
      /\ Len(SubSeq(s, 1, p)) = IF 1 <= p THEN p - 1 + 1 ELSE 0
      /\ \A i \in 1 .. (p - 1 + 1) : SubSeq(s, 1, p)[i] = s[1 + i - 1]
  BY <1>1, SubSeqProperties
<1> QED
  BY <1>2

\* ".." takes away the last name that is kept, and only that one.
LEMMA UpTakesLast ==
  ASSUME PathInv, ".." \notin Names, NEW n, n = Len(read), read' = Append(read, ".."),
         components # <<>>, components' = DropLast(components)
  PROVE  PathInv'
<1>1. read \in Seq(Parts) /\ components \in Seq(Names) /\ ".." \in Parts
  BY Zenon DEF PathInv, Parts
<1>2. read' \in Seq(Parts) /\ components' \in Seq(Names)
      /\ Len(components') = Len(components) - 1
      /\ \A k \in 1 .. (Len(components) - 1) : components'[k] = components[k]
  <2>1. components' = SubSeq(components, 1, Len(components) - 1) /\ Len(components) \in Nat \ {0}
    BY <1>1 DEF DropLast
  <2>2. Len(components) - 1 \in Nat /\ Len(components) = (Len(components) - 1) + 1
    BY <2>1
  <2> QED
    BY <1>1, <2>1, <2>2, Curtailed
<1>3. Kept \subseteq 1 .. n /\ IsFiniteSet(Kept) /\ Cardinality(Kept) \in Nat
      /\ \A i : /\ IsFiniteSet(KeptAfter(i)) /\ Cardinality(KeptAfter(i)) \in Nat
                /\ KeptAfter(i) \subseteq Kept
  BY <1>1, KeptFinite, Zenon
<1>4. /\ n \in Nat
      /\ \A i \in 1 .. n : /\ Rise(i) \in Int /\ Rise(i)' = Rise(i) - 1
                           /\ i \in Kept' <=> i \in Kept /\ Rise(i)' >= 0
      /\ n + 1 \notin Kept' /\ Kept' \subseteq 1 .. (n + 1)
  <2>1. \A i \in 1 .. n : Rise(i) \in Int
    BY <1>1, RiseKept, Zenon
  <2> QED
    BY <1>1, <2>1, KeptNext
<1>5. (\A i \in Kept : Rise(i) = Cardinality(KeptAfter(i))) /\ ComponentsAreKept
  BY Zenon DEF PathInv
<1>6. Len(components) = Cardinality(Kept)
      /\ \A i \in Kept : components[Cardinality(Kept) - Cardinality(KeptAfter(i))] = read[i]
  BY <1>5, Zenon DEF ComponentsAreKept
<1>7. PICK m \in Kept : \A k \in Kept : k <= m
  <2>1. Kept # {}
    <3>1. Len(components) # 0
      BY <1>1
    <3> QED
      BY <1>6, <3>1, FS_EmptySet, Zenon
  <2> DEFINE back == {b \in Nat : n - b \in Kept}
  <2>2. PICK k0 \in Kept : TRUE
    BY <2>1, Zenon
  <2>3. n - k0 \in back /\ back \subseteq Nat
    BY <1>3, <1>4, <2>2
  <2>4. PICK b \in back : \A c \in back : b <= c
    <3> HIDE DEF back
    <3> QED
      BY <2>3, LeastExists, Zenon
  <2>5. n - b \in Kept
    BY <2>4, Zenon
  <2>6. ASSUME NEW k \in Kept
        PROVE  k <= n - b
    <3>1. n - k \in back
      BY <1>3, <1>4
    <3>2. b <= n - k
      BY <2>4, <3>1, Zenon
    <3> QED
      BY <1>3, <1>4, <2>4, <3>2
  <2> QED
    BY <2>5, <2>6, Zenon
<1>8. m \in 1 .. n /\ KeptAfter(m) = {} /\ Cardinality(KeptAfter(m)) = 0
  <2>1. m \in 1 .. n /\ \A k \in Kept : k \in Int
    BY <1>3, <1>7
  <2>2. \A k \in Kept : ~(k > m)
    BY <1>7, <2>1
  <2>3. KeptAfter(m) = {}
    BY <2>2, Zenon DEF KeptAfter
  <2> QED
    BY <2>1, <2>3, FS_EmptySet, Zenon
<1>9. m \notin Kept'
  <2>1. Rise(m) = 0
    BY <1>5, <1>7, <1>8, Zenon
  <2>2. m \in Kept' => Rise(m) - 1 >= 0
    BY <1>4, <1>8, Zenon
  <2> QED
    BY <2>1, <2>2
<1>10. ASSUME NEW i \in Kept, i # m
       PROVE  /\ m \in KeptAfter(i) /\ i \in 1 .. n
              /\ Cardinality(KeptAfter(i)) >= 1
  <2>1. m \in KeptAfter(i)
    BY <1>3, <1>4, <1>7, <1>8, <1>10 DEF KeptAfter
  <2>2. Cardinality(KeptAfter(i)) # 0
    BY <1>3, <2>1, FS_EmptySet, Zenon
  <2> QED
    BY <1>3, <2>1, <2>2
<1>11. Kept' = Kept \ {m}
  <2>1. \A i \in 1 .. n : i \in Kept' <=> i \in Kept /\ i # m
    BY <1>4, <1>5, <1>9, <1>10
  <2>2. \A i : i \in 1 .. (n + 1) <=> i \in 1 .. n \/ i = n + 1
    BY <1>4
  <2> QED
    BY <1>3, <1>4, <2>1, <2>2, Zenon
<1>12. Cardinality(Kept') = Cardinality(Kept) - 1
  BY <1>3, <1>7, <1>11, FS_RemoveElement, Zenon
<1>13. ASSUME NEW i \in Kept, i # m
       PROVE  Cardinality(KeptAfter(i)') = Cardinality(KeptAfter(i)) - 1
  <2>1. KeptAfter(i)' = KeptAfter(i) \ {m}
    BY <1>11, Zenon DEF KeptAfter
  <2> QED
    BY <1>3, <1>10, <1>13, <2>1, FS_RemoveElement, Zenon
<1>14. \A i \in Kept' : Rise(i)' = Cardinality(KeptAfter(i)')
  BY <1>3, <1>4, <1>5, <1>11, <1>13
<1>15. ASSUME NEW i \in Kept'
       PROVE  components'[Cardinality(Kept') - Cardinality(KeptAfter(i)')] = read'[i]
  <2>1. i \in Kept /\ i # m /\ i \in 1 .. n
    BY <1>3, <1>11, Zenon
  <2> DEFINE at == Cardinality(Kept) - Cardinality(KeptAfter(i))
  <2>2. Cardinality(Kept') - Cardinality(KeptAfter(i)') = at
    BY <1>3, <1>12, <1>13, <2>1
  <2>3. at \in 1 .. (Len(components) - 1)
    <3>1. i \notin KeptAfter(i) /\ KeptAfter(i) \subseteq Kept /\ KeptAfter(i) # Kept
      BY <1>3, <1>4, <2>1 DEF KeptAfter
    <3>2. Cardinality(KeptAfter(i)) < Cardinality(Kept)
      BY <1>3, <3>1, FS_Subset
    <3>3. Cardinality(KeptAfter(i)) >= 1
      BY <1>10, <2>1, Zenon
    <3> QED
      BY <1>3, <1>6, <3>2, <3>3
  <2>4. read'[i] = read[i]
    BY <1>1, <2>1
  <2> QED
    BY <1>2, <1>6, <2>1, <2>2, <2>3, <2>4, Zenon
<1>16. Len(components') = Cardinality(Kept')
  BY <1>2, <1>6, <1>12, Zenon
<1> QED
  BY <1>2, <1>14, <1>15, <1>16, Zenon DEF PathInv, ComponentsAreKept

\* A "." changes nothing, and neither does ".." when nothing is kept.
LEMMA NothingTaken ==
  ASSUME PathInv, NEW part \in Parts, part \notin Names, part = ".." => components = <<>>,
         NEW n, n = Len(read), read' = Append(read, part), components' = components
  PROVE  PathInv'
<1>1. read \in Seq(Parts) /\ components \in Seq(Names)
  BY Zenon DEF PathInv
<1>2. read' \in Seq(Parts)
  BY <1>1
<1>3. Kept \subseteq 1 .. n /\ IsFiniteSet(Kept) /\ Cardinality(Kept) \in Nat
  BY <1>1, KeptFinite, Zenon
<1>4. /\ n \in Nat
      /\ \A i \in 1 .. n : /\ Rise(i) \in Int
                           /\ Rise(i)' = Rise(i) - (IF part = ".." THEN 1 ELSE 0)
                           /\ i \in Kept' <=> i \in Kept /\ Rise(i)' >= 0
      /\ n + 1 \notin Kept' /\ Kept' \subseteq 1 .. (n + 1)
  <2>1. \A i \in 1 .. n : Rise(i) \in Int
    BY <1>1, RiseKept, Zenon
  <2> QED
    BY <1>1, <2>1, KeptNext
<1>5. (\A i \in Kept : Rise(i) = Cardinality(KeptAfter(i))) /\ ComponentsAreKept
  BY Zenon DEF PathInv
<1>6. \A i : i \in 1 .. (n + 1) <=> i \in 1 .. n \/ i = n + 1
  BY <1>4
<1>7. Kept' = Kept /\ \A i \in Kept : Rise(i)' = Rise(i)
  <2>1. CASE part # ".."
    <3>1. \A i \in Kept : Rise(i) >= 0
      BY <1>1, <1>3, RiseKept, Zenon
    <3> QED
      <4>1. \A i \in 1 .. n : Rise(i)' = Rise(i)
        BY <1>4, <2>1
      <4>2. \A i \in 1 .. n : i \in Kept' <=> i \in Kept
        BY <1>4, <3>1, <4>1, Zenon
      <4> QED
        BY <1>3, <1>4, <1>6, <4>1, <4>2, Zenon
  <2>2. CASE part = ".."
    <3>1. Cardinality(Kept) = 0
      BY <1>5, <2>2, Zenon DEF ComponentsAreKept
    <3>2. Kept = {}
      BY <1>3, <3>1, FS_EmptySet, Zenon
    <3> QED
      BY <1>3, <1>4, <1>6, <3>2, Zenon
  <2> QED
    BY <2>1, <2>2, Zenon
<1>8. \A i : KeptAfter(i)' = KeptAfter(i)
  BY <1>7, Zenon DEF KeptAfter
<1>9. \A i \in Kept : read'[i] = read[i]
  BY <1>1, <1>3
<1> QED
  BY <1>1, <1>2, <1>5, <1>7, <1>8, <1>9, Zenon DEF PathInv, ComponentsAreKept

\* normalize's stack holds, for every path, exactly the names that no later
\* stretch of the path climbs above, in their order, whatever names a path is
\* made of and however long it is.
THEOREM NormalizeKeeps == PathSpec => []ComponentsAreKept
<1>1. PathInit => PathInv
  <2> SUFFICES ASSUME PathInit PROVE PathInv
    BY Zenon
  <2>1. read = <<>> /\ components = <<>>
    BY Zenon DEF PathInit
  <2>2. Kept = {}
    BY <2>1 DEF Kept
  <2> QED
    BY <2>1, <2>2, FS_EmptySet DEF PathInv, ComponentsAreKept
<1>2. PathInv /\ [PathNext]_pathVars => PathInv'
  <2> SUFFICES ASSUME PathInv, [PathNext]_pathVars PROVE PathInv'
    BY Zenon
  <2>1. CASE UNCHANGED pathVars
    <3>1. read' = read /\ components' = components
      BY <2>1, Zenon DEF pathVars
    <3>2. \A from, to, kind : Count(from, to, kind)' = Count(from, to, kind)
      BY <3>1, Zenon DEF Count
    <3>3. Kept' = Kept
      BY <3>1, <3>2, Zenon DEF Kept
    <3>4. \A i : KeptAfter(i)' = KeptAfter(i)
      BY <3>3, Zenon DEF KeptAfter
    <3>5. \A i : Rise(i)' = Rise(i)
      BY <3>1, <3>2, Zenon DEF Rise
    <3> QED
      BY <3>1, <3>3, <3>4, <3>5, Zenon DEF PathInv, ComponentsAreKept
  <2>2. CASE PathNext
    <3>1. PICK part \in Parts : read' = Append(read, part)
                                /\ components' = Consume(components, part)
      BY <2>2, Zenon DEF PathNext, NextPart
    <3>2. "." \notin Names /\ ".." \notin Names
      BY PathsAssumption, Zenon
    <3>3. PICK n : n = Len(read)
      BY Zenon
    <3>4. CASE part \in Names
      <4>1. components' = Append(components, part) /\ part # ".."
        BY <3>1, <3>2, <3>4, Zenon DEF Consume
      <4> QED
        BY <3>1, <3>3, <3>4, <4>1, NameKept, Zenon
    <3>5. CASE part = ".." /\ components # <<>>
      <4>1. components' = DropLast(components)
        <5>1. part # "." /\ part = ".." /\ part \notin Names /\ components # <<>>
          BY <3>2, <3>5, Zenon
        <5> QED
          BY <3>1, <5>1, Zenon DEF Consume
      <4> QED
        BY <3>1, <3>2, <3>3, <3>5, <4>1, UpTakesLast, Zenon
    <3>6. CASE part \notin Names /\ (part = ".." => components = <<>>)
      <4>1. part = "." \/ part = ".."
        BY <3>6, Zenon DEF Parts
      <4>2. components' = components
        BY <3>1, <3>6, <4>1, Zenon DEF Consume
      <4> QED
        BY <3>1, <3>3, <3>6, <4>2, NothingTaken, Zenon
    <3> QED
      BY <3>2, <3>4, <3>5, <3>6, Zenon
  <2> QED
    BY <2>1, <2>2, Zenon
<1>3. PathInv => ComponentsAreKept
  BY Zenon DEF PathInv
<1> QED
  BY <1>1, <1>2, <1>3, PTL DEF PathSpec

-----------------------------------------------------------------------------
(* The file syscalls: every open handle is within its file *)

\* An entry of a descriptor table.
Handle(len, h) ==
  \/ h.kind = "tar" /\ h = [kind |-> "tar", size |-> h.size] /\ h.size \in Nat
  \/ /\ h.kind = "ram" /\ h = [kind |-> "ram", file |-> h.file, cursor |-> h.cursor]
     /\ h.file \in DOMAIN len /\ h.cursor \in Nat /\ h.cursor =< len[h.file]

\* Finitely many files, each with its length.
Lengths(len) == IsFiniteSet(DOMAIN len) /\ len \in [DOMAIN len -> Nat]

\* A directory entry is a directory or a file that is there.
Entries(tree, len) == \A path \in DOMAIN tree : tree[path] \in {Dir} \cup DOMAIN len

\* The descriptor table of one task.
Table(len, t) ==
  t = [fd \in DOMAIN t |-> t[fd]] /\ \A fd \in DOMAIN t : Handle(len, t[fd])

\* Those of all tasks.
Tables(len, fds) ==
  fds = [t \in FileTasks |-> fds[t]] /\ \A t \in FileTasks : Table(len, fds[t])

\* The inductive invariant of the file syscalls.  Directory entries refer to
\* files that are there: this is what opening one relies on.
Sound(fs) ==
  /\ fs = [tree |-> fs.tree, len |-> fs.len, fds |-> fs.fds, cwd |-> fs.cwd]
  /\ Lengths(fs.len) /\ Entries(fs.tree, fs.len) /\ Tables(fs.len, fs.fds)

\* A change of some of the parts.
LEMMA SoundParts ==
  ASSUME NEW fs, NEW tree, NEW len, NEW fds, NEW cwd,
         fs = [tree |-> tree, len |-> len, fds |-> fds, cwd |-> cwd],
         Lengths(len), Entries(tree, len), Tables(len, fds)
  PROVE  Sound(fs)
  BY Zenon DEF Sound

\* A file that is added, or grows, leaves the handles within their files.
LEMMA HandleGrows ==
  ASSUME NEW len, NEW more, Lengths(len), Lengths(more), DOMAIN len \subseteq DOMAIN more,
         \A i \in DOMAIN len : len[i] =< more[i], NEW h, Handle(len, h)
  PROVE  Handle(more, h)
<1>1. CASE h.kind = "tar"
  BY <1>1, Zenon DEF Handle
<1>2. CASE h.kind = "ram"
  <2>1. h.file \in DOMAIN len /\ h.cursor \in Nat /\ h.cursor =< len[h.file]
    BY <1>2, Zenon DEF Handle
  <2>2. len[h.file] \in Nat /\ more[h.file] \in Nat /\ len[h.file] =< more[h.file]
    BY <2>1, Zenon DEF Lengths
  <2>3. h.cursor =< more[h.file]
    BY <2>1, <2>2
  <2> QED
    BY <1>2, <2>1, <2>3, Zenon DEF Handle
<1> QED
  BY <1>1, <1>2, Zenon DEF Handle

\* Hence so do all tables.
LEMMA TablesGrow ==
  ASSUME NEW len, NEW more, Lengths(len), Lengths(more), DOMAIN len \subseteq DOMAIN more,
         \A i \in DOMAIN len : len[i] =< more[i], NEW fds, Tables(len, fds)
  PROVE  Tables(more, fds)
  BY HandleGrows, Zenon DEF Tables, Table

\* Dropping the last reference to a file frees it: files an entry or a handle
\* refers to stay.
LEMMA CollectSound ==
  ASSUME NEW fs, Sound(fs)
  PROVE  Sound(Collect(fs))
<1> DEFINE left == [i \in DOMAIN fs.len \cap Referenced(fs) |-> fs.len[i]]
<1>1. fs = [tree |-> fs.tree, len |-> fs.len, fds |-> fs.fds, cwd |-> fs.cwd]
  BY Zenon DEF Sound
<1>2. Collect(fs) = [tree |-> fs.tree, len |-> left, fds |-> fs.fds, cwd |-> fs.cwd]
  <2>1. Collect(fs) = [fs EXCEPT !.len = left]
    BY Zenon DEF Collect
  <2> HIDE DEF left
  <2> QED
    BY <1>1, <2>1, Zenon
<1>3. /\ DOMAIN left = DOMAIN fs.len \cap Referenced(fs)
      /\ \A i \in DOMAIN left : left[i] = fs.len[i]
  BY Zenon
<1>4. Lengths(left)
  BY FS_Subset, Zenon DEF Sound, Lengths
<1> HIDE DEF left
<1>5. Entries(fs.tree, left)
  BY <1>3, Zenon DEF Sound, Entries, Referenced, Range
<1>6. Tables(left, fs.fds)
  <2> SUFFICES ASSUME NEW t \in FileTasks, NEW fd \in DOMAIN fs.fds[t]
               PROVE  Handle(left, fs.fds[t][fd])
    BY Zenon DEF Sound, Tables, Table
  <2> DEFINE h == fs.fds[t][fd]
  <2>1. Handle(fs.len, h)
    BY Zenon DEF Sound, Tables, Table
  <2>2. h.kind = "ram" => h.file \in Referenced(fs)
    BY DEF Referenced, RamHandles, Range
  <2> HIDE DEF h
  <2>3. Handle(left, h)
    BY <1>3, <2>1, <2>2, Zenon DEF Handle
  <2> QED
    BY <2>3, Zenon DEF h
<1> QED
  BY <1>2, <1>4, <1>5, <1>6, SoundParts, Zenon

\* Some id is free for a new file.
LEMMA FreshFileFree ==
  ASSUME NEW fs, Lengths(fs.len)
  PROVE  FreshFile(fs) \notin DOMAIN fs.len
<1> DEFINE ids == DOMAIN fs.len
           n == Cardinality(ids) + 1
<1>1. IsFiniteSet(ids) /\ Cardinality(ids) \in Nat
  BY FS_CardinalityType, Zenon DEF Lengths
<1>2. n \in Nat /\ n > Cardinality(ids)
  BY <1>1
<1>3. IsFiniteSet(1 .. n) /\ Cardinality(1 .. n) = n
  <2> HIDE DEF n
  <2> QED
    BY <1>2, FS_Interval, SMT
<1>4. ~(1 .. n \subseteq ids)
  <2> SUFFICES ASSUME (1 .. n) \subseteq ids PROVE FALSE
    BY Zenon
  <2>1. Cardinality(1 .. n) =< Cardinality(ids)
    <3> HIDE DEF n, ids
    <3> QED
      BY <1>1, FS_Subset, Zenon
  <2> HIDE DEF n, ids
  <2> QED
    BY <1>1, <1>2, <1>3, <2>1
<1> QED
  BY <1>4, Zenon DEF FreshFile

\* RamFs::open: the handle it returns is at the start of a file that is there.
LEMMA RamOpenSound ==
  ASSUME NEW fs, Sound(fs), NEW path, NEW r, r = ram_open(fs, path)
  PROVE  Sound(r.fs) /\ r.fs.fds = fs.fds /\ (r.ok => Handle(r.fs.len, r.handle))
<1>1. CASE ParentsExist(fs.tree, path) /\ path \notin DOMAIN fs.tree
  <2> DEFINE new == FreshFile(fs)
             tree == With(fs.tree, path, new)
             len == With(fs.len, new, 0)
  <2>1. /\ r = [ok |-> TRUE, handle |-> RamHandle(new),
                fs |-> [fs EXCEPT !.tree = tree, !.len = len]]
        /\ new \notin DOMAIN fs.len
    BY <1>1, FreshFileFree, Zenon DEF ram_open, Sound
  <2>2. fs = [tree |-> fs.tree, len |-> fs.len, fds |-> fs.fds, cwd |-> fs.cwd]
    BY Zenon DEF Sound
  <2> HIDE DEF new
  <2>3. /\ DOMAIN len = DOMAIN fs.len \cup {new} /\ len[new] = 0
        /\ \A i \in DOMAIN fs.len : len[i] = fs.len[i]
        /\ len = [i \in DOMAIN len |-> len[i]]
    BY <2>1, Zenon DEF With
  <2>4. /\ DOMAIN tree = DOMAIN fs.tree \cup {path} /\ tree[path] = new
        /\ \A p \in DOMAIN fs.tree : p # path => tree[p] = fs.tree[p]
    BY Zenon DEF With
  <2> HIDE DEF tree, len
  <2>5. r.ok /\ r.handle = RamHandle(new)
        /\ r.fs = [tree |-> tree, len |-> len, fds |-> fs.fds, cwd |-> fs.cwd]
    <3>1. r.ok /\ r.handle = RamHandle(new) /\ r.fs = [fs EXCEPT !.tree = tree, !.len = len]
      BY <2>1
    <3>2. ASSUME NEW now, now = [fs EXCEPT !.tree = tree, !.len = len]
          PROVE  now = [tree |-> tree, len |-> len, fds |-> fs.fds, cwd |-> fs.cwd]
      BY <2>2, <3>2, Zenon
    <3> QED
      BY <3>1, <3>2, Zenon
  <2>6. Lengths(len)
    BY <2>3, FS_AddElement DEF Lengths, Sound
  <2>7. Entries(tree, len)
    BY <2>3, <2>4, Zenon DEF Entries, Sound
  <2>8. Tables(len, fs.fds)
    <3>1. \A i \in DOMAIN fs.len : fs.len[i] =< len[i]
      BY <2>3 DEF Sound, Lengths
    <3> QED
      BY <2>3, <2>6, <3>1, TablesGrow, Zenon DEF Sound
  <2>9. Sound(r.fs)
    BY <2>5, <2>6, <2>7, <2>8, SoundParts, Zenon
  <2>10. Handle(len, RamHandle(new))
    BY <2>3 DEF Handle, RamHandle
  <2> QED
    BY <2>5, <2>9, <2>10
<1>2. CASE ParentsExist(fs.tree, path) /\ path \in DOMAIN fs.tree /\ fs.tree[path] # Dir
  <2> DEFINE file == fs.tree[path]
  <2>1. r = [ok |-> TRUE, handle |-> RamHandle(file), fs |-> fs]
    BY <1>2, Zenon DEF ram_open
  <2>2. file \in DOMAIN fs.len /\ fs.len[file] \in Nat
    BY <1>2, Zenon DEF Sound, Entries, Lengths
  <2> HIDE DEF file
  <2>3. Handle(fs.len, RamHandle(file))
    BY <2>2, SMTT(30) DEF Handle, RamHandle
  <2> QED
    BY <2>1, <2>3
<1>3. CASE \/ ~ParentsExist(fs.tree, path)
           \/ path \in DOMAIN fs.tree /\ fs.tree[path] = Dir
  <2>1. r = [ok |-> FALSE, fs |-> fs]
    BY <1>3, Zenon DEF ram_open
  <2> QED
    BY <2>1
<1> QED
  BY <1>1, <1>2, <1>3, Zenon

\* The same through the mounts.
LEMMA OpenSound ==
  ASSUME NEW fs, Sound(fs), NEW path, NEW r, r = vfs_open(fs, path)
  PROVE  Sound(r.fs) /\ r.fs.fds = fs.fds /\ (r.ok => Handle(r.fs.len, r.handle))
<1>1. CASE InRamFs(path)
  BY <1>1, RamOpenSound, Zenon DEF vfs_open
<1>2. CASE ~InRamFs(path) /\ path \in DOMAIN Tar
  <2> DEFINE n == Tar[path]
  <2>1. r = [ok |-> TRUE, handle |-> [kind |-> "tar", size |-> n], fs |-> fs] /\ n \in Nat
    BY <1>2, FilesAssumption, Zenon DEF vfs_open
  <2> HIDE DEF n
  <2> QED
    BY <2>1, SMTT(30) DEF Handle
<1>3. CASE ~InRamFs(path) /\ path \notin DOMAIN Tar
  BY <1>3, Zenon DEF vfs_open
<1> QED
  BY <1>1, <1>2, <1>3, Zenon

\* A new table for one task, over files of the same or greater length.
LEMMA TableSet ==
  ASSUME NEW len, NEW fds, Tables(len, fds), NEW t \in FileTasks, NEW new, Table(len, new)
  PROVE  Tables(len, [fds EXCEPT ![t] = new])
<1> DEFINE more == [fds EXCEPT ![t] = new]
<1>1. /\ more[t] = new /\ \A u \in FileTasks : u # t => more[u] = fds[u]
      /\ more = [u \in FileTasks |-> more[u]]
  BY Zenon DEF Tables
<1> HIDE DEF more
<1>2. Tables(len, more)
  BY <1>1, Zenon DEF Tables
<1> QED
  BY <1>2, Zenon DEF more

\* A task's table changes and nothing else.
LEMMA SoundTable ==
  ASSUME NEW fs, Sound(fs), NEW t \in FileTasks, NEW new, Table(fs.len, new),
         NEW fs2, fs2 = [fs EXCEPT !.fds[t] = new]
  PROVE  Sound(fs2)
<1> DEFINE fds == [fs.fds EXCEPT ![t] = new]
<1>1. fs = [tree |-> fs.tree, len |-> fs.len, fds |-> fs.fds, cwd |-> fs.cwd]
  BY Zenon DEF Sound
<1>2. fs2 = [fs EXCEPT !.fds = fds]
  BY Zenon
<1>3. Tables(fs.len, fds)
  BY TableSet, Zenon DEF Sound
<1> HIDE DEF fds
<1>4. fs2 = [tree |-> fs.tree, len |-> fs.len, fds |-> fds, cwd |-> fs.cwd]
  BY <1>1, <1>2, Zenon
<1> QED
  BY <1>3, <1>4, SoundParts, Zenon DEF Sound

\* The tree changes, without new files.
LEMMA SoundTree ==
  ASSUME NEW fs, Sound(fs), NEW tree, Entries(tree, fs.len),
         NEW fs2, fs2 = [fs EXCEPT !.tree = tree]
  PROVE  Sound(fs2)
<1>1. fs = [tree |-> fs.tree, len |-> fs.len, fds |-> fs.fds, cwd |-> fs.cwd]
  BY Zenon DEF Sound
<1>2. fs2 = [tree |-> tree, len |-> fs.len, fds |-> fs.fds, cwd |-> fs.cwd]
  BY <1>1, Zenon
<1> QED
  BY <1>2, SoundParts, Zenon DEF Sound

\* A handle moves in its file, or past its end, and the file grows to there.
LEMMA SoundCursor ==
  ASSUME NEW fs, Sound(fs), NEW t \in FileTasks, NEW fd \in DOMAIN fs.fds[t],
         fs.fds[t][fd].kind = "ram",
         NEW size \in Nat, size >= fs.len[fs.fds[t][fd].file],
         NEW c \in Nat, c =< size,
         NEW fs2, fs2 = [fs EXCEPT !.len[fs.fds[t][fd].file] = size,
                                   !.fds[t][fd].cursor = c]
  PROVE  Sound(fs2)
<1> DEFINE h == fs.fds[t][fd]
           file == h.file
           moved == [kind |-> "ram", file |-> file, cursor |-> c]
           len == [fs.len EXCEPT ![file] = size]
           table == [fs.fds[t] EXCEPT ![fd] = moved]
           fds == [fs.fds EXCEPT ![t] = table]
<1>1. fs = [tree |-> fs.tree, len |-> fs.len, fds |-> fs.fds, cwd |-> fs.cwd]
  BY Zenon DEF Sound
<1>2. /\ h = [kind |-> "ram", file |-> file, cursor |-> h.cursor] /\ file \in DOMAIN fs.len
  BY Zenon DEF Sound, Tables, Table, Handle
<1>3. [h EXCEPT !.cursor = c] = moved
  <2>1. [h EXCEPT !.cursor = c] = [[kind |-> "ram", file |-> file, cursor |-> h.cursor] EXCEPT !.cursor = c]
    BY <1>2, Zenon
  <2> HIDE DEF h
  <2> QED
    BY <2>1
<1>4. fs2 = [fs EXCEPT !.len = len, !.fds = fds]
  <2>1. fs2 = [fs EXCEPT !.len = [fs.len EXCEPT ![file] = size],
                         !.fds = [fs.fds EXCEPT ![t] = [fs.fds[t] EXCEPT ![fd] = [h EXCEPT !.cursor = c]]]]
    BY <1>1, Zenon
  <2> QED
    BY <1>3, <2>1, Zenon
<1>5. /\ DOMAIN len = DOMAIN fs.len /\ len[file] = size
      /\ \A i \in DOMAIN fs.len : i # file => len[i] = fs.len[i]
      /\ len = [i \in DOMAIN len |-> len[i]]
  BY <1>2, Zenon DEF Sound, Lengths
<1>6. /\ DOMAIN table = DOMAIN fs.fds[t] /\ table[fd] = moved
      /\ \A k \in DOMAIN fs.fds[t] : k # fd => table[k] = fs.fds[t][k]
      /\ table = [k \in DOMAIN table |-> table[k]]
  BY Zenon DEF Sound, Tables, Table
<1>7. /\ moved.kind = "ram" /\ moved.file = file /\ moved.cursor = c
      /\ moved = [kind |-> "ram", file |-> moved.file, cursor |-> moved.cursor]
  BY Zenon
<1>8. size >= fs.len[file]
  BY Zenon
<1> HIDE DEF file, len, moved, table, h
<1>9. Lengths(len)
  BY <1>5, Zenon DEF Sound, Lengths
<1>10. \A i \in DOMAIN fs.len : fs.len[i] =< len[i]
  BY <1>5, <1>8 DEF Sound, Lengths
<1>11. Tables(len, fs.fds)
  BY <1>5, <1>9, <1>10, TablesGrow, Zenon DEF Sound
<1>12. Handle(len, moved)
  BY <1>2, <1>5, <1>7, Zenon DEF Handle
<1>13. Table(len, table)
  BY <1>6, <1>11, <1>12, Zenon DEF Tables, Table
<1>14. Tables(len, fds)
  BY <1>11, <1>13, TableSet, Zenon
<1> HIDE DEF fds
<1>15. fs2 = [tree |-> fs.tree, len |-> len, fds |-> fds, cwd |-> fs.cwd]
  <2>1. ASSUME NEW now, now = [fs EXCEPT !.len = len, !.fds = fds]
        PROVE  now = [tree |-> fs.tree, len |-> len, fds |-> fds, cwd |-> fs.cwd]
    BY <1>1, <2>1, Zenon
  <2> QED
    BY <1>4, <2>1, Zenon
<1>16. Entries(fs.tree, len)
  BY <1>5, Zenon DEF Sound, Entries
<1> QED
  BY <1>9, <1>14, <1>15, <1>16, SoundParts, Zenon

\* The greater and the lesser of two numbers.
LEMMA MaxMin ==
  ASSUME NEW a \in Int, NEW b \in Int
  PROVE  /\ Max({a, b}) \in {a, b} /\ Max({a, b}) >= a /\ Max({a, b}) >= b
         /\ Min({a, b}) \in {a, b} /\ Min({a, b}) =< a /\ Min({a, b}) =< b
<1>1. \E x \in {a, b} : \A y \in {a, b} : x >= y
  OBVIOUS
<1>2. \E x \in {a, b} : \A y \in {a, b} : x =< y
  OBVIOUS
<1>3. Max({a, b}) \in {a, b} /\ \A y \in {a, b} : Max({a, b}) >= y
  BY <1>1, Zenon DEF Max
<1>4. Min({a, b}) \in {a, b} /\ \A y \in {a, b} : Min({a, b}) =< y
  BY <1>2, Zenon DEF Min
<1> QED
  BY <1>3, <1>4, Zenon

\* A handle moves within its file.
LEMMA SoundMove ==
  ASSUME NEW fs, Sound(fs), NEW t \in FileTasks, NEW fd \in DOMAIN fs.fds[t],
         fs.fds[t][fd].kind = "ram", NEW c \in Nat, c =< fs.len[fs.fds[t][fd].file],
         NEW fs2, fs2 = [fs EXCEPT !.fds[t][fd].cursor = c]
  PROVE  Sound(fs2)
<1> DEFINE h == fs.fds[t][fd]
           moved == [kind |-> "ram", file |-> h.file, cursor |-> c]
           table == [fs.fds[t] EXCEPT ![fd] = moved]
<1>1. h = [kind |-> "ram", file |-> h.file, cursor |-> h.cursor] /\ h.file \in DOMAIN fs.len
  BY Zenon DEF Sound, Tables, Table, Handle
<1>2. [h EXCEPT !.cursor = c] = moved
  <2>1. [h EXCEPT !.cursor = c] = [[kind |-> "ram", file |-> h.file, cursor |-> h.cursor] EXCEPT !.cursor = c]
    BY <1>1, Zenon
  <2> HIDE DEF h
  <2> QED
    BY <2>1
<1>3. fs2 = [fs EXCEPT !.fds[t] = table]
  <2>1. fs2 = [fs EXCEPT !.fds[t] = [fs.fds[t] EXCEPT ![fd] = [h EXCEPT !.cursor = c]]]
    BY Zenon
  <2> QED
    BY <1>2, <2>1, Zenon
<1>4. /\ DOMAIN table = DOMAIN fs.fds[t] /\ table[fd] = moved
      /\ \A k \in DOMAIN fs.fds[t] : k # fd => table[k] = fs.fds[t][k]
      /\ table = [k \in DOMAIN table |-> table[k]]
  BY Zenon DEF Sound, Tables, Table
<1>5. Handle(fs.len, moved)
  <2>1. /\ moved.kind = "ram" /\ moved.file = h.file /\ moved.cursor = c
        /\ moved = [kind |-> "ram", file |-> moved.file, cursor |-> moved.cursor]
        /\ c =< fs.len[h.file]
    BY Zenon
  <2> HIDE DEF moved, h
  <2> QED
    BY <1>1, <2>1, Zenon DEF Handle
<1> HIDE DEF h, moved, table
<1>6. Table(fs.len, table)
  BY <1>4, <1>5, Zenon DEF Sound, Tables, Table
<1> QED
  BY <1>3, <1>6, SoundTable, Zenon

\* Reading a file.
LEMMA FileReadSound ==
  ASSUME NEW fs, Sound(fs), NEW t \in FileTasks, NEW fd \in DOMAIN fs.fds[t], NEW count \in Nat
  PROVE  Sound(file_read(fs, t, fd, count).fs)
<1> DEFINE h == fs.fds[t][fd]
<1>1. CASE h.kind = "tar"
  <2>1. file_read(fs, t, fd, count) = [fs |-> fs, ret |-> Min({h.size, count})]
    BY <1>1, Zenon DEF file_read, IsOpen
  <2> QED
    BY <2>1
<1>2. CASE h.kind = "ram"
  <2> DEFINE available == Max({0, fs.len[h.file] - h.cursor})
             to_read == Min({available, count})
             c == h.cursor + to_read
             new == [fs EXCEPT !.fds[t][fd].cursor = @ + to_read]
  <2>1. file_read(fs, t, fd, count) = [fs |-> new, ret |-> to_read]
    BY <1>2, Zenon DEF file_read, IsOpen
  <2>2. h.file \in DOMAIN fs.len /\ h.cursor \in Nat /\ h.cursor =< fs.len[h.file]
    BY <1>2, Zenon DEF Sound, Tables, Table, Handle
  <2>3. fs.len[h.file] \in Nat
    BY <2>2, Zenon DEF Sound, Lengths
  <2>4. available \in Nat /\ available =< fs.len[h.file] - h.cursor
    <3> DEFINE room == fs.len[h.file] - h.cursor
    <3>1. room \in Nat
      BY <2>2, <2>3, SMTT(30)
    <3> HIDE DEF room, h
    <3>2. Max({0, room}) \in {0, room} /\ Max({0, room}) >= 0 /\ Max({0, room}) >= room
      BY <3>1, MaxMin
    <3>3. Max({0, room}) = room
      BY <3>1, <3>2
    <3> QED
      BY <3>1, <3>3 DEF room
  <2> HIDE DEF available, h
  <2>5. to_read \in Nat /\ to_read =< available
    <3>1. available \in Int /\ count \in Int
      BY <2>4
    <3>2. to_read \in {available, count} /\ to_read =< available
      BY <3>1, MaxMin, Zenon
    <3> QED
      BY <2>4, <3>2, Zenon
  <2> HIDE DEF to_read
  <2>6. c \in Nat /\ c =< fs.len[h.file]
    BY <2>2, <2>3, <2>4, <2>5
  <2>7. new = [fs EXCEPT !.fds[t][fd].cursor = c]
    BY Zenon DEF h
  <2> HIDE DEF c, new
  <2>8. Sound(new)
    BY <1>2, <2>6, <2>7, SoundMove, Zenon DEF h
  <2> QED
    BY <2>1, <2>8
<1>3. h.kind = "tar" \/ h.kind = "ram"
  BY Zenon DEF Sound, Tables, Table, Handle
<1> QED
  BY <1>1, <1>2, <1>3, Zenon

\* sys_read.
LEMMA ReadSound ==
  ASSUME NEW fs, Sound(fs), NEW t \in FileTasks, NEW fd \in DOMAIN fs.fds[t], NEW count \in Nat
  PROVE  Sound(sys_read(fs, t, fd, count).fs)
<1>1. Sound(file_read(fs, t, fd, count).fs)
  BY FileReadSound, Zenon
<1> QED
  BY <1>1, Zenon DEF sys_read

\* sys_write.
LEMMA WriteSound ==
  ASSUME NEW fs, Sound(fs), NEW t \in FileTasks, NEW fd \in DOMAIN fs.fds[t] \cup Console,
         NEW count \in Nat
  PROVE  Sound(sys_write(fs, t, fd, count).fs)
<1> DEFINE h == fs.fds[t][fd]
<1>0. CASE count = 0 \/ fd \in Console
  BY <1>0, Zenon DEF sys_write
<1> SUFFICES ASSUME count # 0, fd \notin Console, fd \in DOMAIN fs.fds[t]
             PROVE  Sound(sys_write(fs, t, fd, count).fs)
  BY <1>0, Zenon
<1>1. CASE h.kind = "tar"
  <2>1. sys_write(fs, t, fd, count) = [fs |-> fs, ret |-> Failed]
    BY <1>1, Zenon DEF sys_write, IsOpen
  <2> QED
    BY <2>1
<1>2. CASE h.kind = "ram"
  <2> DEFINE end == h.cursor + count
             size == Max({fs.len[h.file], end})
             new == [fs EXCEPT !.len[h.file] = Max({@, end}), !.fds[t][fd].cursor = end]
  <2>1. sys_write(fs, t, fd, count) = [fs |-> new, ret |-> count]
    BY <1>2, Zenon DEF sys_write, IsOpen
  <2>2. h.file \in DOMAIN fs.len /\ h.cursor \in Nat
    BY <1>2, Zenon DEF Sound, Tables, Table, Handle
  <2>3. fs.len[h.file] \in Nat /\ end \in Nat
    BY <2>2 DEF Sound, Lengths
  <2>4. new = [fs EXCEPT !.len[fs.fds[t][fd].file] = size, !.fds[t][fd].cursor = end]
    BY Zenon
  <2> HIDE DEF end, h, new
  <2>5. size \in Nat /\ size >= fs.len[h.file] /\ end =< size
    <3> DEFINE old == fs.len[h.file]
    <3>1. old \in Int /\ end \in Int
      BY <2>3
    <3> HIDE DEF old
    <3>2. Max({old, end}) \in {old, end} /\ Max({old, end}) >= old /\ Max({old, end}) >= end
      BY <3>1, MaxMin, Zenon
    <3>3. size \in {old, end} /\ size >= old /\ size >= end
      BY <3>2, Zenon DEF old
    <3> QED
      BY <2>3, <3>3, Zenon DEF old
  <2> HIDE DEF size
  <2>6. Sound(new)
    BY <1>2, <2>3, <2>4, <2>5, SoundCursor, Zenon DEF h
  <2> QED
    BY <2>1, <2>6
<1>3. h.kind = "tar" \/ h.kind = "ram"
  BY Zenon DEF Sound, Tables, Table, Handle
<1> QED
  BY <1>1, <1>2, <1>3, Zenon

\* sys_lseek.
LEMMA SeekSound ==
  ASSUME NEW fs, Sound(fs), NEW t \in FileTasks, NEW fd \in DOMAIN fs.fds[t], NEW offset \in Nat
  PROVE  Sound(seek(fs, t, fd, offset))
<1>1. CASE fs.fds[t][fd].kind = "ram" /\ offset =< fs.len[fs.fds[t][fd].file]
  <2>1. seek(fs, t, fd, offset) = [fs EXCEPT !.fds[t][fd].cursor = offset]
    BY <1>1, Zenon DEF seek, IsOpen
  <2> QED
    BY <1>1, <2>1, SoundMove
<1>2. CASE ~(fs.fds[t][fd].kind = "ram" /\ offset =< fs.len[fs.fds[t][fd].file])
  BY <1>2, Zenon DEF seek, IsOpen
<1> QED
  BY <1>1, <1>2, Zenon

\* sys_close, and the exit of exec from the old program's descriptors.
LEMMA CloseSound ==
  ASSUME NEW fs, Sound(fs), NEW t \in FileTasks
  PROVE  /\ \A fd : Sound(sys_close(fs, t, fd).fs)
         /\ Sound(Collect([fs EXCEPT !.fds[t] = <<>>]))
<1>1. ASSUME NEW fd
      PROVE  Sound(sys_close(fs, t, fd).fs)
  <2> DEFINE table == Without(fs.fds[t], fd)
             less == [fs EXCEPT !.fds[t] = table]
  <2>1. /\ DOMAIN table \subseteq DOMAIN fs.fds[t] /\ table = [k \in DOMAIN table |-> table[k]]
        /\ \A k \in DOMAIN table : table[k] = fs.fds[t][k]
    BY Zenon DEF Without
  <2>2. sys_close(fs, t, fd).fs = Collect(less)
    BY Zenon DEF sys_close
  <2> HIDE DEF table
  <2>3. Table(fs.len, table)
    BY <2>1, Zenon DEF Sound, Tables, Table
  <2>4. Sound(less)
    BY <2>3, SoundTable, Zenon
  <2> HIDE DEF less
  <2> QED
    BY <2>2, <2>4, CollectSound, Zenon
<1>2. Sound(Collect([fs EXCEPT !.fds[t] = <<>>]))
  <2> DEFINE less == [fs EXCEPT !.fds[t] = <<>>]
  <2>1. Table(fs.len, <<>>)
    BY DEF Table
  <2>2. Sound(less)
    BY <2>1, SoundTable, Zenon
  <2> HIDE DEF less
  <2>3. Sound(Collect(less))
    BY <2>2, CollectSound, Zenon
  <2> QED
    BY <2>3, Zenon DEF less
<1> QED
  BY <1>1, <1>2, Zenon

\* sys_open.
LEMMA SysOpenSound ==
  ASSUME NEW fs, Sound(fs), NEW t \in FileTasks, NEW p
  PROVE  Sound(sys_open(fs, t, p).fs)
<1> DEFINE opened == vfs_open(fs, resolve_user_path(fs, t, p))
           fd == LowestFree(fs.fds[t])
           table == With(fs.fds[t], fd, opened.handle)
           new == [opened.fs EXCEPT !.fds[t] = With(@, fd, opened.handle)]
<1>1. /\ Sound(opened.fs) /\ opened.fs.fds = fs.fds
      /\ opened.ok => Handle(opened.fs.len, opened.handle)
  BY OpenSound, Zenon
<1>2. CASE opened.ok
  <2>1. sys_open(fs, t, p) = [fs |-> new, ret |-> fd]
    BY <1>2, Zenon DEF sys_open
  <2> HIDE DEF opened, fd
  <2>2. /\ DOMAIN table = DOMAIN fs.fds[t] \cup {fd} /\ table[fd] = opened.handle
        /\ \A k \in DOMAIN fs.fds[t] : k # fd => table[k] = fs.fds[t][k]
        /\ table = [k \in DOMAIN table |-> table[k]]
    BY Zenon DEF With
  <2>3. new = [opened.fs EXCEPT !.fds[t] = table]
    BY <1>1, Zenon
  <2> HIDE DEF table
  <2>4. \A k \in DOMAIN fs.fds[t] : Handle(opened.fs.len, fs.fds[t][k])
    BY <1>1, Zenon DEF Sound, Tables, Table
  <2>5. Table(opened.fs.len, table)
    BY <1>1, <1>2, <2>2, <2>4, Zenon DEF Table
  <2> HIDE DEF new
  <2>6. Sound(new)
    BY <1>1, <2>3, <2>5, SoundTable, Zenon
  <2> QED
    BY <2>1, <2>6
<1>3. CASE ~opened.ok
  <2>1. sys_open(fs, t, p) = [fs |-> fs, ret |-> ENOENT]
    BY <1>3, Zenon DEF sys_open
  <2> QED
    BY <2>1
<1> QED
  BY <1>2, <1>3, Zenon

\* mkdir and remove, through the mounts.
LEMMA TreeSound ==
  ASSUME NEW fs, Sound(fs), NEW path
  PROVE  Sound(vfs_mkdir(fs, path)) /\ Sound(vfs_remove(fs, path))
<1>1. ASSUME NEW rel
      PROVE  Sound(ram_mkdir(fs, rel))
  <2> DEFINE tree == With(fs.tree, rel, Dir)
             new == [fs EXCEPT !.tree = tree]
  <2>1. ram_mkdir(fs, rel) = new \/ ram_mkdir(fs, rel) = fs
    BY Zenon DEF ram_mkdir
  <2>2. Entries(tree, fs.len)
    BY Zenon DEF With, Entries, Sound
  <2> HIDE DEF tree
  <2>3. Sound(new)
    BY <2>2, SoundTree, Zenon
  <2> HIDE DEF new
  <2> QED
    BY <2>1, <2>3, Zenon
<1>2. ASSUME NEW rel
      PROVE  Sound(ram_remove(fs, rel))
  <2> DEFINE tree == [q \in {p \in DOMAIN fs.tree : ~StartsWith(p, rel)} |-> fs.tree[q]]
             new == [fs EXCEPT !.tree = tree]
  <2>1. ram_remove(fs, rel) = Collect(new) \/ ram_remove(fs, rel) = fs
    BY Zenon DEF ram_remove
  <2>2. Entries(tree, fs.len)
    BY Zenon DEF Entries, Sound
  <2> HIDE DEF tree
  <2>3. Sound(new)
    BY <2>2, SoundTree, Zenon
  <2> HIDE DEF new
  <2> QED
    BY <2>1, <2>3, CollectSound, Zenon
<1> QED
  BY <1>1, <1>2, Zenon DEF vfs_mkdir, vfs_remove

\* The invariant holds initially.
LEMMA FilesInitSound == FilesInit => Sound(files)
<1> SUFFICES ASSUME FilesInit PROVE Sound(files)
  BY Zenon
<1> DEFINE none == [t \in FileTasks |-> <<>>]
<1>1. files = [tree |-> <<>>, len |-> <<>>, fds |-> none, cwd |-> none]
  BY Zenon DEF FilesInit
<1>2. Lengths(<<>>)
  <2>1. DOMAIN <<>> = {} /\ <<>> \in [{} -> Nat]
    OBVIOUS
  <2> QED
    BY <2>1, FS_EmptySet, Zenon DEF Lengths
<1>3. Entries(<<>>, <<>>)
  BY DEF Entries
<1>4. Tables(<<>>, none)
  BY DEF Tables, Table
<1> HIDE DEF none
<1> QED
  BY <1>1, <1>2, <1>3, <1>4, SoundParts, Zenon

\* Every syscall keeps it.
LEMMA FilesStep ==
  ASSUME Sound(files), [FilesNext]_files
  PROVE  Sound(files')
<1>1. ASSUME NEW t \in FileTasks, SysOpen(t) PROVE Sound(files')
  BY <1>1, SysOpenSound, Zenon DEF SysOpen
<1>2. ASSUME NEW t \in FileTasks, SysClose(t) \/ SysExecFiles(t) PROVE Sound(files')
  BY <1>2, CloseSound, Zenon DEF SysClose, SysExecFiles
<1>3. ASSUME NEW t \in FileTasks, SysRead(t) PROVE Sound(files')
  BY <1>3, ReadSound, FilesAssumption, Zenon DEF SysRead
<1>4. ASSUME NEW t \in FileTasks, SysWrite(t) PROVE Sound(files')
  BY <1>4, WriteSound, FilesAssumption, Zenon DEF SysWrite
<1>5. ASSUME NEW t \in FileTasks, SysLseek(t) PROVE Sound(files')
  BY <1>5, SeekSound, FilesAssumption, Zenon DEF SysLseek
<1>6. ASSUME NEW t \in FileTasks, SysChdir(t) PROVE Sound(files')
  <2>1. PICK p \in UserPaths : files' = [files EXCEPT !.cwd[t] =
                normalize(IF p.abs THEN p.parts ELSE @ \o p.parts)]
    BY <1>6, Zenon DEF SysChdir
  <2> DEFINE cwd == [files.cwd EXCEPT ![t] = normalize(IF p.abs THEN p.parts ELSE files.cwd[t] \o p.parts)]
  <2>2. files' = [files EXCEPT !.cwd = cwd]
    BY <2>1, Zenon
  <2> HIDE DEF cwd
  <2>3. files = [tree |-> files.tree, len |-> files.len, fds |-> files.fds, cwd |-> files.cwd]
    BY Zenon DEF Sound
  <2>4. files' = [tree |-> files.tree, len |-> files.len, fds |-> files.fds, cwd |-> cwd]
    BY <2>2, <2>3, Zenon
  <2> QED
    BY <2>4, SoundParts, Zenon DEF Sound
<1>7. ASSUME NEW t \in FileTasks, SysCreate(t) PROVE Sound(files')
  BY <1>7, OpenSound, Zenon DEF SysCreate
<1>8. ASSUME NEW t \in FileTasks, SysMkdir(t) \/ SysDelete(t) PROVE Sound(files')
  BY <1>8, TreeSound, Zenon DEF SysMkdir, SysDelete
<1>9. CASE UNCHANGED files
  BY <1>9, Zenon
<1> QED
  BY <1>1, <1>2, <1>3, <1>4, <1>5, <1>6, <1>7, <1>8, <1>9, Zenon DEF FilesNext

\* Every open handle refers to a file that is there and is within it, for any
\* tasks, paths, mounts and sizes: see CursorWithinFile.
THEOREM CursorWithinFileHolds == FilesSpec => []CursorWithinFile
<1>1. Sound(files) => CursorWithinFile
  <2> SUFFICES ASSUME Sound(files), NEW h \in RamHandles(files)
               PROVE  h.file \in DOMAIN files.len /\ h.cursor =< files.len[h.file]
    BY Zenon DEF CursorWithinFile
  <2>1. PICK t \in FileTasks : h \in Range(files.fds[t])
    BY Zenon DEF RamHandles
  <2>2. PICK fd \in DOMAIN files.fds[t] : h = files.fds[t][fd]
    BY <2>1, Zenon DEF Range
  <2>3. h.kind = "ram"
    BY Zenon DEF RamHandles
  <2>4. Handle(files.len, h)
    BY <2>2, Zenon DEF Sound, Tables, Table
  <2> QED
    BY <2>3, <2>4, Zenon DEF Handle
<1>2. Sound(files) /\ [FilesNext]_files => Sound(files)'
  BY FilesStep, Zenon
<1> QED
  BY <1>1, <1>2, FilesInitSound, PTL DEF FilesSpec

-----------------------------------------------------------------------------
(* ShellLine: the history ring *)

\* The ring holds the last HistorySize lines filed, each at its own index
\* modulo HistorySize, and history_index points at one of them or at none.
HistoryInv ==
  /\ \E S : filed \in Seq(S)
  /\ history_count = Len(filed)
  /\ DOMAIN history = 0..(HistorySize - 1)
  /\ \A k \in 1..Len(filed) :
       Len(filed) - k < HistorySize
         => history[(k - 1) % HistorySize] = filed[k]
  /\ history_index \in Int
  /\ -1 <= history_index /\ history_index < HistorySize
  /\ history_index >= 0 => history_index < Len(filed)

-----------------------------------------------------------------------------

\* What load_history finds for an index in range: the line filed that many
\* lines before the last.
LEMMA RecalledIsFiled ==
  ASSUME HistoryInv, NEW index \in Nat, index < HistorySize, index < Len(filed)
  PROVE  Recalled(index) = filed[Len(filed) - index]
<1>1. Len(filed) \in Nat
  BY LenProperties, Zenon DEF HistoryInv
<1>. DEFINE k == Len(filed) - index
<1>2. k \in 1..Len(filed) /\ Len(filed) - k < HistorySize
  BY <1>1, ShellAssumption
<1>3. history[(k - 1) % HistorySize] = filed[k]
  BY <1>2, Zenon DEF HistoryInv
<1>4. history_count - 1 - index = k - 1
  BY <1>1 DEF HistoryInv
<1>. QED
  BY <1>3, <1>4, Zenon DEF Recalled

\* add_to_history: the slot a new line takes is that of the line filed
\* HistorySize lines earlier, which is thereby forgotten, and of no later one.
LEMMA FilingKeepsRing ==
  ASSUME HistoryInv,
         history' = [history EXCEPT ![history_count % HistorySize] = line],
         filed' = Append(filed, line)
  PROVE  /\ \E S : filed' \in Seq(S)
         /\ Len(filed') = Len(filed) + 1
         /\ DOMAIN history' = 0..(HistorySize - 1)
         /\ \A k \in 1..Len(filed') :
              Len(filed') - k < HistorySize
                => history'[(k - 1) % HistorySize] = filed'[k]
<1>1. PICK S : filed \in Seq(S)
  BY Zenon DEF HistoryInv
<1>2. filed \in Seq(S \cup {line}) /\ Len(filed) \in Nat
  BY <1>1, LenProperties, ElementOfSeq
<1>3. /\ filed' \in Seq(S \cup {line})
      /\ Len(filed') = Len(filed) + 1
      /\ \A k \in 1..Len(filed) : filed'[k] = filed[k]
      /\ filed'[Len(filed) + 1] = line
  BY <1>2, AppendProperties
<1>4. DOMAIN history' = 0..(HistorySize - 1)
  BY Zenon DEF HistoryInv
<1>. DEFINE last == Len(filed)
<1>5. (last % HistorySize) \in 0..(HistorySize - 1)
  <2>1. last \in Int /\ HistorySize \in Nat \ {0}
    BY <1>2, ShellAssumption
  <2>. HIDE DEF last
  <2>. QED
    BY <2>1, DivMod, Zenon
<1>6. ASSUME NEW k \in 1..Len(filed'), Len(filed') - k < HistorySize
      PROVE  history'[(k - 1) % HistorySize] = filed'[k]
  <2>1. CASE k = last + 1
    <3>1. k - 1 = last
      BY <1>2, <2>1
    <3>. QED
      BY <1>3, <1>5, <2>1, <3>1, Zenon DEF HistoryInv
  <2>2. CASE k # last + 1
    <3>1. k \in 1..last /\ last - k < HistorySize /\ k - 1 \in Int
      BY <1>2, <1>3, <1>6, <2>2, ShellAssumption
    <3>2. k - 1 < last /\ last - (k - 1) < HistorySize
      BY <1>2, <1>3, <1>6, <3>1, ShellAssumption
    <3>3. /\ (k - 1) % HistorySize # last % HistorySize
          /\ ((k - 1) % HistorySize) \in 0..(HistorySize - 1)
      <4>. DEFINE a == k - 1
      <4>1. /\ a \in Int /\ last \in Int /\ HistorySize \in Nat \ {0}
            /\ a < last /\ last - a < HistorySize
        BY <1>2, <3>1, <3>2, ShellAssumption
      <4>. HIDE DEF a, last
      <4>2. a % HistorySize # last % HistorySize
        BY <4>1, ModApart, Zenon
      <4>3. (a % HistorySize) \in 0..(HistorySize - 1)
        BY <4>1, DivMod, Zenon
      <4>. QED
        BY <4>2, <4>3, Zenon DEF a
    <3>4. history'[(k - 1) % HistorySize] = history[(k - 1) % HistorySize]
      BY <3>3, Zenon DEF HistoryInv
    <3>. QED
      BY <1>3, <3>1, <3>4, Zenon DEF HistoryInv
  <2>. QED
    BY <2>1, <2>2, Zenon
<1>. QED
  BY <1>3, <1>4, <1>6, Zenon

-----------------------------------------------------------------------------

\* The shell starts with an empty ring.
LEMMA HistoryInitInv == ShellInit => HistoryInv
<1>. SUFFICES ASSUME ShellInit PROVE HistoryInv
  BY Zenon
<1>1. filed \in Seq({}) /\ Len(filed) = 0
  BY EmptySeq, Zenon DEF ShellInit
<1>2. DOMAIN history = 0..(HistorySize - 1) /\ history_index = -1 /\ history_count = 0
  BY Zenon DEF ShellInit
<1>3. \A k \in 1..Len(filed) : FALSE
  BY <1>1
<1>4. -1 < HistorySize
  BY ShellAssumption
<1>. QED
  BY <1>1, <1>2, <1>3, <1>4 DEF HistoryInv

\* Every key keeps the invariant; only Enter touches the ring.
LEMMA HistoryNextInv == HistoryInv /\ [ShellNext]_shellVars => HistoryInv'
<1>. SUFFICES ASSUME HistoryInv, [ShellNext]_shellVars PROVE HistoryInv'
  BY Zenon
<1>1. Len(filed) \in Nat
  BY LenProperties, Zenon DEF HistoryInv
<1>2. CASE KeyUp
  BY <1>1, <1>2, ShellAssumption DEF KeyUp, historyVars, HistoryInv
<1>3. CASE KeyDown
  BY <1>1, <1>3, ShellAssumption DEF KeyDown, historyVars, HistoryInv
<1>4. CASE KeyErase
  BY <1>4, Zenon DEF KeyErase, historyVars, HistoryInv
<1>5. CASE KeyTab
  BY <1>5, Zenon DEF KeyTab, historyVars, HistoryInv
<1>6. CASE KeyCancel
  BY <1>6, ShellAssumption DEF KeyCancel, historyVars, HistoryInv
<1>7. CASE KeyEnter
  <2>1. CASE line = <<>> \/ IsRepeat
    BY <1>7, <2>1, ShellAssumption DEF KeyEnter, historyVars, HistoryInv
  <2>2. CASE ~(line = <<>> \/ IsRepeat)
    <3>1. /\ history' = [history EXCEPT ![history_count % HistorySize] = line]
          /\ filed' = Append(filed, line)
          /\ history_count' = history_count + 1
          /\ history_index' = -1
      BY <1>7, <2>2, Zenon DEF KeyEnter
    <3>2. /\ \E S : filed' \in Seq(S)
          /\ Len(filed') = Len(filed) + 1
          /\ DOMAIN history' = 0..(HistorySize - 1)
          /\ \A k \in 1..Len(filed') :
               Len(filed') - k < HistorySize
                 => history'[(k - 1) % HistorySize] = filed'[k]
      BY <3>1, FilingKeepsRing, Zenon
    <3>3. history_count' = Len(filed')
      BY <3>1, <3>2, Zenon DEF HistoryInv
    <3>4. history_index' \in Int /\ -1 <= history_index' /\ history_index' < HistorySize
      BY <3>1, ShellAssumption
    <3>5. ~(history_index' >= 0)
      BY <3>1
    <3>. QED
      BY <3>2, <3>3, <3>4, <3>5, Zenon DEF HistoryInv
  <2>. QED
    BY <2>1, <2>2, Zenon
<1>8. CASE \E ch \in ShellChars : KeyTyped(ch)
  BY <1>8, Zenon DEF KeyTyped, historyVars, HistoryInv
<1>9. CASE UNCHANGED shellVars
  BY <1>9, Zenon DEF shellVars, HistoryInv
<1>. QED
  BY <1>2, <1>3, <1>4, <1>5, <1>6, <1>7, <1>8, <1>9, Zenon DEF ShellNext

\* In any sequence of keys, however often the ring has wrapped, the Up and
\* Down keys show the line filed as many lines ago as history_index says.
THEOREM HistoryRecallsRightLine == ShellSpec => RecallsFiledLine
<1>. DEFINE Step == /\ history_index' # history_index
                    /\ history_index' >= 0
                    => /\ history_index' < Len(filed)
                       /\ line' = filed[Len(filed) - history_index']
<1>1. ShellInit => HistoryInv
  BY HistoryInitInv, Zenon
<1>2. HistoryInv /\ [ShellNext]_shellVars => HistoryInv'
  BY HistoryNextInv, Zenon
<1>3. HistoryInv /\ [ShellNext]_shellVars => [Step]_shellVars
  <2>. SUFFICES ASSUME HistoryInv, ShellNext, history_index' # history_index,
                       history_index' >= 0
                PROVE  /\ history_index' < Len(filed)
                       /\ line' = filed[Len(filed) - history_index']
    BY Zenon
  <2>1. Len(filed) \in Nat
    BY LenProperties, Zenon DEF HistoryInv
  <2>2. KeyUp \/ KeyDown
    <3>1. KeyTab => history_index' = history_index
      BY Zenon DEF KeyTab
    <3>2. KeyErase \/ (\E ch \in ShellChars : KeyTyped(ch))
            => history_index' = history_index
      BY Zenon DEF KeyErase, KeyTyped
    <3>3. KeyCancel \/ KeyEnter => ~(history_index' >= 0)
      BY DEF KeyCancel, KeyEnter
    <3>. QED
      BY <3>1, <3>2, <3>3, Zenon DEF ShellNext
  <2>3. /\ history_index' \in Nat
        /\ history_index' < HistorySize /\ history_index' < Len(filed)
    BY <2>1, <2>2, ShellAssumption DEF KeyUp, KeyDown, HistoryInv
  <2>4. line' = Recalled(history_index')
    BY <2>2, <2>3 DEF KeyUp, KeyDown, HistoryInv
  <2>. QED
    BY <2>3, <2>4, RecalledIsFiled, Zenon
<1>. QED
  BY <1>1, <1>2, <1>3, PTL DEF ShellSpec, RecallsFiledLine

-----------------------------------------------------------------------------
(* FatDirectory: long names, put together from the slots before an entry *)

\* A slot has one run of fragments before it, and OwnName is made from it.
LEMMA RunIsUnique ==
  ASSUME NEW data, NEW i \in Nat, NEW n, NEW m, IsRun(data, i, n), IsRun(data, i, m)
  PROVE  n = m
<1>1. n \in 0 .. i - 1 /\ m \in 0 .. i - 1
  BY Zenon DEF IsRun
<1>2. ~(n < m)
  <2>1. SUFFICES ASSUME n < m PROVE FALSE
    BY Zenon
  <2>2. n # i - 1 /\ i - n - 1 \in i - m .. i - 1
    BY <1>1, <2>1
  <2> QED BY <2>2, Zenon DEF IsRun
<1>3. ~(m < n)
  <2>1. SUFFICES ASSUME m < n PROVE FALSE
    BY Zenon
  <2>2. m # i - 1 /\ i - m - 1 \in i - n .. i - 1
    BY <1>1, <2>1
  <2> QED BY <2>2, Zenon DEF IsRun
<1> QED BY <1>1, <1>2, <1>3

\* What OwnName is, once the run of fragments is known.
LEMMA OwnNameIs ==
  ASSUME NEW data, NEW i \in Nat, NEW n, IsRun(data, i, n)
  PROVE  OwnName(data, i) =
           IF n = 0 THEN <<data[i].short>>
           ELSE [k \in 1 .. n |-> data[i - k].fragment]
<1> DEFINE run == CHOOSE m \in 0 .. i - 1 : IsRun(data, i, m)
<1>1. n \in 0 .. i - 1
  BY Zenon DEF IsRun
<1>2. IsRun(data, i, run)
  BY <1>1, Zenon
<1>3. run = n
  BY <1>2, RunIsUnique, Zenon
<1> HIDE DEF run
<1>4. OwnName(data, i) = IF run = 0 THEN <<data[i].short>>
                         ELSE [k \in 1 .. run |-> data[i - k].fragment]
  BY Zenon DEF OwnName, run
<1> QED BY <1>3, <1>4, Zenon

\* What is appended to a directory changes no earlier slot's run and name.
LEMMA RunStays ==
  ASSUME NEW S, NEW data \in Seq(S), NEW x \in S, NEW i \in 1 .. Len(data) + 1,
         NEW n, IsRun(data, i, n)
  PROVE  IsRun(Append(data, x), i, n)
<1>1. /\ Len(data) \in Nat
      /\ \A j \in 1 .. Len(data) : Append(data, x)[j] = data[j]
  BY AppendProperties, LenProperties
<1>2. n \in 0 .. i - 1
  BY Zenon DEF IsRun
<1>3. \A j \in i - n .. i - 1 : Append(data, x)[j] = data[j]
  BY <1>1, <1>2
<1>4. n # i - 1 => Append(data, x)[i - n - 1] = data[i - n - 1]
  BY <1>1, <1>2
<1> QED BY <1>2, <1>3, <1>4, Zenon DEF IsRun

\* Nor its name.
LEMMA NameStays ==
  ASSUME NEW S, NEW data \in Seq(S), NEW x \in S, NEW i \in 1 .. Len(data),
         NEW n, IsRun(data, i, n)
  PROVE  OwnName(Append(data, x), i) = OwnName(data, i)
<1>1. /\ Len(data) \in Nat
      /\ \A j \in 1 .. Len(data) : Append(data, x)[j] = data[j]
  BY AppendProperties, LenProperties
<1>2. n \in 0 .. i - 1 /\ i \in Nat
  BY <1>1 DEF IsRun
<1>3. IsRun(Append(data, x), i, n)
  BY <1>1, RunStays
<1>4. \A k \in 1 .. n : Append(data, x)[i - k] = data[i - k]
  BY <1>1, <1>2
<1>5. [k \in 1 .. n |-> Append(data, x)[i - k].fragment] =
        [k \in 1 .. n |-> data[i - k].fragment]
  BY <1>4, Zenon
<1>6. Append(data, x)[i] = data[i]
  BY <1>1, Zenon
<1>7. OwnName(Append(data, x), i) =
        IF n = 0 THEN <<Append(data, x)[i].short>>
        ELSE [k \in 1 .. n |-> Append(data, x)[i - k].fragment]
  BY <1>2, <1>3, OwnNameIs, Zenon
<1>8. OwnName(data, i) = IF n = 0 THEN <<data[i].short>>
                         ELSE [k \in 1 .. n |-> data[i - k].fragment]
  BY <1>2, OwnNameIs, Zenon
<1>9. CASE n = 0
  BY <1>6, <1>7, <1>8, <1>9, Zenon
<1>10. CASE n # 0
  <2>1. OwnName(Append(data, x), i) =
          [k \in 1 .. n |-> Append(data, x)[i - k].fragment]
    BY <1>7, <1>10, Zenon
  <2>2. OwnName(data, i) = [k \in 1 .. n |-> data[i - k].fragment]
    BY <1>8, <1>10, Zenon
  <2> QED BY <1>5, <2>1, <2>2, Zenon
<1> QED BY <1>9, <1>10, Zenon

\* The run in front of the slot to come.
LEMMA RunEnds ==
  ASSUME NEW S, NEW data \in Seq(S), NEW x \in S, x.kind # "lfn"
  PROVE  IsRun(Append(data, x), Len(data) + 2, 0)
<1>1. Len(data) \in Nat /\ Append(data, x)[Len(data) + 1] = x
  BY AppendProperties, LenProperties
<1> QED BY <1>1 DEF IsRun

\* A fragment makes the run longer, anything else ends it.
LEMMA RunGrows ==
  ASSUME NEW S, NEW data \in Seq(S), NEW x \in S, x.kind = "lfn",
         NEW n, IsRun(data, Len(data) + 1, n)
  PROVE  IsRun(Append(data, x), Len(data) + 2, n + 1)
<1>1. /\ Len(data) \in Nat /\ Append(data, x)[Len(data) + 1] = x
      /\ \A j \in 1 .. Len(data) : Append(data, x)[j] = data[j]
  BY AppendProperties, LenProperties
<1>2. n \in 0 .. Len(data)
  BY <1>1 DEF IsRun
<1>3. \A j \in Len(data) + 1 - n .. Len(data) : Append(data, x)[j].kind = "lfn"
  BY <1>1, <1>2 DEF IsRun
<1>4. n # Len(data) => Append(data, x)[Len(data) - n].kind # "lfn"
  BY <1>1, <1>2 DEF IsRun
<1>5. \A j \in Len(data) + 2 - (n + 1) .. Len(data) + 2 - 1 :
        Append(data, x)[j].kind = "lfn"
  BY <1>1, <1>2, <1>3
<1>6. n + 1 = Len(data) + 2 - 1
        \/ Append(data, x)[Len(data) + 2 - (n + 1) - 1].kind # "lfn"
  <2>1. Len(data) + 2 - (n + 1) - 1 = Len(data) - n
    BY <1>1, <1>2
  <2> QED BY <1>1, <1>2, <1>4, <2>1
<1>7. n + 1 \in 0 .. Len(data) + 2 - 1
  BY <1>1, <1>2
<1> QED BY <1>5, <1>6, <1>7 DEF IsRun

\* The files and directories of a directory, and their place among them, as it
\* grows.
LEMMA ListedGrows ==
  ASSUME NEW S, NEW data \in Seq(S), NEW x \in S
  PROVE  ListedSlots(Append(data, x)) =
           IF x.kind \in {"file", "dir"} THEN ListedSlots(data) \cup {Len(data) + 1}
           ELSE ListedSlots(data)
<1>1. /\ Len(data) \in Nat /\ Append(data, x)[Len(data) + 1] = x
      /\ Len(Append(data, x)) = Len(data) + 1
      /\ \A j \in 1 .. Len(data) : Append(data, x)[j] = data[j]
  BY AppendProperties, LenProperties
<1>2. 1 .. Len(data) + 1 = (1 .. Len(data)) \cup {Len(data) + 1}
  BY <1>1
<1> QED BY <1>1, <1>2, Zenon DEF ListedSlots

\* There are finitely many of them, so a place is a number.
LEMMA ListedFinite ==
  ASSUME NEW S, NEW data \in Seq(S)
  PROVE  /\ IsFiniteSet(ListedSlots(data)) /\ Cardinality(ListedSlots(data)) \in Nat
         /\ \A i \in 1 .. Len(data) :
              /\ IsFiniteSet({j \in ListedSlots(data) : j =< i})
              /\ Cardinality({j \in ListedSlots(data) : j =< i})
                   \in 0 .. Cardinality(ListedSlots(data))
<1>1. IsFiniteSet(1 .. Len(data))
  BY FS_Interval, LenProperties
<1>2. ListedSlots(data) \subseteq 1 .. Len(data)
  BY Zenon DEF ListedSlots
<1>3. IsFiniteSet(ListedSlots(data)) /\ Cardinality(ListedSlots(data)) \in Nat
  BY <1>1, <1>2, FS_Subset, FS_CardinalityType, Zenon
<1>4. ASSUME NEW i \in 1 .. Len(data)
      PROVE  /\ IsFiniteSet({j \in ListedSlots(data) : j =< i})
             /\ Cardinality({j \in ListedSlots(data) : j =< i})
                  \in 0 .. Cardinality(ListedSlots(data))
  <2> DEFINE T == {j \in ListedSlots(data) : j =< i}
  <2>1. T \subseteq ListedSlots(data)
    BY Zenon
  <2> HIDE DEF T
  <2>2. IsFiniteSet(T) /\ Cardinality(T) =< Cardinality(ListedSlots(data))
    BY <1>3, <2>1, FS_Subset, Zenon
  <2>3. Cardinality(T) \in Nat
    BY <2>2, FS_CardinalityType, Zenon
  <2>4. IsFiniteSet(T) /\ Cardinality(T) \in 0 .. Cardinality(ListedSlots(data))
    BY <1>3, <2>2, <2>3
  <2> QED BY <2>4, Zenon DEF T
<1> QED BY <1>3, <1>4, Zenon

PlaceOfSlot(data, i) == Cardinality({j \in ListedSlots(data) : j =< i})

\* What the entries listed so far are.
Named(data, e) ==
  /\ Len(e) = Cardinality(ListedSlots(data))
  /\ \A i \in ListedSlots(data) :
       /\ e[PlaceOfSlot(data, i)] = Entry(OwnName(data, i), data[i])
       /\ \E n : IsRun(data, i, n)

\* Places count from one.
LEMMA PlaceInEntries ==
  ASSUME NEW S, NEW data \in Seq(S), NEW i \in ListedSlots(data)
  PROVE  PlaceOfSlot(data, i) \in 1 .. Cardinality(ListedSlots(data))
<1>1. i \in 1 .. Len(data) /\ i \in Nat
  BY LenProperties DEF ListedSlots
<1> DEFINE T == {j \in ListedSlots(data) : j =< i}
<1>2. i \in T
  BY <1>1
<1>3. IsFiniteSet(T) /\ Cardinality(T) \in 0 .. Cardinality(ListedSlots(data))
  BY <1>1, ListedFinite, Zenon
<1> HIDE DEF T
<1>4. Cardinality(T) # 0
  BY <1>2, <1>3, FS_EmptySet, Zenon
<1>5. Cardinality(ListedSlots(data)) \in Nat
  BY ListedFinite, Zenon
<1>6. Cardinality(T) \in 1 .. Cardinality(ListedSlots(data))
  BY <1>3, <1>4, <1>5
<1> QED BY <1>6, Zenon DEF T, PlaceOfSlot

\* A slot that is added changes the place of no earlier one.
LEMMA PlaceStays ==
  ASSUME NEW S, NEW data \in Seq(S), NEW x \in S, NEW i \in ListedSlots(data)
  PROVE  PlaceOfSlot(Append(data, x), i) = PlaceOfSlot(data, i)
<1>1. i \in 1 .. Len(data) /\ Len(data) \in Nat
  BY LenProperties, Zenon DEF ListedSlots
<1>2. ~(Len(data) + 1 =< i)
  BY <1>1
<1>3. {j \in ListedSlots(Append(data, x)) : j =< i} = {j \in ListedSlots(data) : j =< i}
  BY <1>2, ListedGrows, Zenon
<1> QED BY <1>3, Zenon DEF PlaceOfSlot

\* It takes the last place itself, when it is a file or a directory.
LEMMA PlaceOfLast ==
  ASSUME NEW S, NEW data \in Seq(S), NEW x \in S, x.kind \in {"file", "dir"}
  PROVE  /\ PlaceOfSlot(Append(data, x), Len(data) + 1) =
              Cardinality(ListedSlots(data)) + 1
         /\ Cardinality(ListedSlots(Append(data, x))) = Cardinality(ListedSlots(data)) + 1
<1>1. /\ ListedSlots(Append(data, x)) = ListedSlots(data) \cup {Len(data) + 1}
      /\ Len(data) \in Nat
  BY ListedGrows, LenProperties, Zenon
<1>2. Len(data) + 1 \notin ListedSlots(data) /\ ListedSlots(data) \subseteq 1 .. Len(data)
  BY <1>1 DEF ListedSlots
<1>3. Cardinality(ListedSlots(data) \cup {Len(data) + 1}) =
        Cardinality(ListedSlots(data)) + 1
  BY <1>2, ListedFinite, FS_AddElement, Zenon
<1>4. {j \in ListedSlots(Append(data, x)) : j =< Len(data) + 1} =
        ListedSlots(Append(data, x))
  BY <1>1, <1>2
<1> QED BY <1>1, <1>3, <1>4, Zenon DEF PlaceOfSlot

\* The fragments collected are those of the run before the slot to come.
Collected(data, l) ==
  \E n : /\ IsRun(data, Len(data) + 1, n) /\ Len(l) = n
         /\ \A k \in 1 .. n : l[k] = data[Len(data) - n + k].fragment

\* The name made from the collected fragments is the next slot's own.
LEMMA CollectedName ==
  ASSUME NEW S, NEW data \in Seq(S), NEW x \in S, NEW F, NEW l \in Seq(F),
         Collected(data, l)
  PROVE  OwnName(Append(data, x), Len(data) + 1) =
           IF l = <<>> THEN <<x.short>> ELSE Reversed(l)
<1>1. PICK n : /\ IsRun(data, Len(data) + 1, n) /\ Len(l) = n
               /\ \A k \in 1 .. n : l[k] = data[Len(data) - n + k].fragment
  BY Zenon DEF Collected
<1>2. PICK d, i : d = Append(data, x) /\ i = Len(data) + 1
  BY Zenon
<1>3. /\ i \in Nat /\ i \in 1 .. Len(data) + 1 /\ i >= 1 /\ d[i] = x
      /\ \A j \in 1 .. i - 1 : d[j] = data[j]
  BY <1>2, AppendProperties, LenProperties
<1>4. IsRun(data, i, n) /\ n \in 0 .. i - 1
  BY <1>1, <1>2, Zenon DEF IsRun
<1>5. \A k \in 1 .. n : l[k] = data[i - 1 - n + k].fragment
  BY <1>1, <1>2, LenProperties
<1>6. IsRun(d, i, n)
  BY <1>2, <1>3, <1>4, RunStays, Zenon
<1>7. OwnName(d, i) = IF n = 0 THEN <<d[i].short>>
                      ELSE [k \in 1 .. n |-> d[i - k].fragment]
  BY <1>3, <1>6, OwnNameIs, Zenon
<1>8. (l = <<>>) <=> (n = 0)
  BY <1>1, EmptySeq, Zenon
<1>9. OwnName(d, i) = IF l = <<>> THEN <<x.short>> ELSE Reversed(l)
  <2>1. CASE n = 0
    BY <1>3, <1>7, <1>8, <2>1, Zenon
  <2>2. CASE n # 0
    <3>1. ASSUME NEW k \in 1 .. n
          PROVE  d[i - k].fragment = l[n + 1 - k]
      <4>1. /\ n + 1 - k \in 1 .. n /\ i - k \in 1 .. i - 1
            /\ i - 1 - n + (n + 1 - k) = i - k
        BY <1>3, <1>4
      <4> QED BY <1>3, <1>5, <4>1, Zenon
    <3>2. Reversed(l) = [k \in 1 .. n |-> l[n + 1 - k]]
      BY <1>1, Zenon DEF Reversed
    <3>3. OwnName(d, i) = [k \in 1 .. n |-> d[i - k].fragment]
      BY <1>7, <2>2, Zenon
    <3>4. [k \in 1 .. n |-> d[i - k].fragment] = [k \in 1 .. n |-> l[n + 1 - k]]
      BY <3>1, Zenon
    <3> QED BY <1>8, <2>2, <3>2, <3>3, <3>4, Zenon
  <2> QED BY <2>1, <2>2, Zenon
<1> QED BY <1>2, <1>9, Zenon

\* A fragment joins the run, any other slot ends it.
LEMMA CollectedGrows ==
  ASSUME NEW S, NEW data \in Seq(S), NEW x \in S, x.kind = "lfn",
         NEW F, NEW l \in Seq(F), x.fragment \in F, Collected(data, l)
  PROVE  Collected(Append(data, x), Append(l, x.fragment))
<1>1. PICK n : /\ IsRun(data, Len(data) + 1, n) /\ Len(l) = n
               /\ \A k \in 1 .. n : l[k] = data[Len(data) - n + k].fragment
  BY Zenon DEF Collected
<1>2. PICK d, m, h : d = Append(data, x) /\ m = Len(d) /\ h = Append(l, x.fragment)
  BY Zenon
<1>3. /\ m \in Nat /\ m >= 1 /\ Len(data) = m - 1 /\ d[m] = x
      /\ \A j \in 1 .. m - 1 : d[j] = data[j]
  BY <1>2, AppendProperties, LenProperties
<1>4. n \in 0 .. m - 1
  BY <1>1, <1>3 DEF IsRun
<1>5. /\ Len(h) = n + 1 /\ h[n + 1] = x.fragment
      /\ \A k \in 1 .. n : h[k] = l[k]
  BY <1>1, <1>2, AppendProperties
<1>6. IsRun(d, m + 1, n + 1)
  <2>1. IsRun(Append(data, x), Len(data) + 2, n + 1)
    BY <1>1, RunGrows, Zenon
  <2>2. Len(data) + 2 = m + 1
    BY <1>3
  <2> QED BY <1>2, <2>1, <2>2, Zenon
<1>7. \A k \in 1 .. n : l[k] = data[m - 1 - n + k].fragment
  BY <1>1, <1>3, Zenon
<1>8. ASSUME NEW k \in 1 .. n + 1
      PROVE  h[k] = d[m - (n + 1) + k].fragment
  <2>1. CASE k = n + 1
    <3>1. m - (n + 1) + k = m
      BY <1>3, <1>4, <2>1
    <3> QED BY <1>3, <1>5, <2>1, <3>1, Zenon
  <2>2. CASE k # n + 1
    <3>1. /\ k \in 1 .. n /\ m - (n + 1) + k = m - 1 - n + k
          /\ m - 1 - n + k \in 1 .. m - 1
      BY <1>3, <1>4, <2>2
    <3>2. h[k] = l[k] /\ l[k] = data[m - 1 - n + k].fragment
      BY <1>5, <1>7, <3>1, Zenon
    <3>3. d[m - 1 - n + k] = data[m - 1 - n + k]
      BY <1>3, <3>1, Zenon
    <3> QED BY <3>1, <3>2, <3>3, Zenon
  <2> QED BY <2>1, <2>2, Zenon
<1>9. Collected(d, h)
  BY <1>2, <1>5, <1>6, <1>8, Zenon DEF Collected
<1> QED BY <1>2, <1>9, Zenon

\* Any other slot leaves nothing collected: the short entry uses the fragments
\* up, and a deleted slot or a label drops them.
LEMMA CollectedEnds ==
  ASSUME NEW S, NEW data \in Seq(S), NEW x \in S, x.kind # "lfn"
  PROVE  Collected(Append(data, x), <<>>)
<1>1. Len(data) \in Nat /\ Len(Append(data, x)) + 1 = Len(data) + 2
  BY AppendProperties, LenProperties
<1>2. IsRun(Append(data, x), Len(Append(data, x)) + 1, 0)
  BY <1>1, RunEnds, Zenon
<1> QED BY <1>2 DEF Collected

\* The entries listed stay right when a slot is added that is not listed, and
\* when one is added that is.
LEMMA NamedBefore ==
  ASSUME NEW S, NEW data \in Seq(S), NEW x \in S, NEW e, Named(data, e),
         NEW i \in ListedSlots(data)
  PROVE  /\ e[PlaceOfSlot(Append(data, x), i)] =
              Entry(OwnName(Append(data, x), i), Append(data, x)[i])
         /\ \E n : IsRun(Append(data, x), i, n)
<1>1. i \in 1 .. Len(data) /\ Len(data) \in Nat
  BY LenProperties, Zenon DEF ListedSlots
<1>2. PICK n : IsRun(data, i, n)
  BY Zenon DEF Named
<1>3. IsRun(Append(data, x), i, n)
  BY <1>1, <1>2, RunStays
<1>4. OwnName(Append(data, x), i) = OwnName(data, i)
  BY <1>1, <1>2, NameStays, Zenon
<1>5. Append(data, x)[i] = data[i]
  BY <1>1, AppendProperties
<1>6. e[PlaceOfSlot(data, i)] = Entry(OwnName(data, i), data[i])
  BY Zenon DEF Named
<1> QED BY <1>3, <1>4, <1>5, <1>6, PlaceStays, Zenon

\* A slot that is no file and no directory leaves the list as it is.
LEMMA NamedStays ==
  ASSUME NEW S, NEW data \in Seq(S), NEW x \in S, x.kind \notin {"file", "dir"},
         NEW e, Named(data, e)
  PROVE  Named(Append(data, x), e)
<1>1. ListedSlots(Append(data, x)) = ListedSlots(data)
  BY ListedGrows, Zenon
<1>2. Len(e) = Cardinality(ListedSlots(data))
  BY Zenon DEF Named
<1>3. \A i \in ListedSlots(data) :
        /\ e[PlaceOfSlot(Append(data, x), i)] =
             Entry(OwnName(Append(data, x), i), Append(data, x)[i])
        /\ \E n : IsRun(Append(data, x), i, n)
  BY NamedBefore, Zenon
<1> QED BY <1>1, <1>2, <1>3, Zenon DEF Named

\* One that is adds its own entry at the end of the list.
LEMMA NamedGrows ==
  ASSUME NEW S, NEW data \in Seq(S), NEW x \in S, x.kind \in {"file", "dir"},
         NEW E, NEW e \in Seq(E), Named(data, e), NEW new \in E,
         new = Entry(OwnName(Append(data, x), Len(data) + 1), x),
         NEW n, IsRun(data, Len(data) + 1, n)
  PROVE  Named(Append(data, x), Append(e, new))
<1>1. /\ Len(data) \in Nat /\ Append(data, x)[Len(data) + 1] = x
  BY AppendProperties, LenProperties
<1>2. ListedSlots(Append(data, x)) = ListedSlots(data) \cup {Len(data) + 1}
  BY ListedGrows, Zenon
<1>3. Len(e) = Cardinality(ListedSlots(data)) /\ Len(e) \in Nat
  BY LenProperties, Zenon DEF Named
<1>4. /\ Len(Append(e, new)) = Len(e) + 1 /\ Append(e, new)[Len(e) + 1] = new
      /\ \A k \in 1 .. Len(e) : Append(e, new)[k] = e[k]
  BY AppendProperties
<1>5. /\ PlaceOfSlot(Append(data, x), Len(data) + 1) = Len(e) + 1
      /\ Cardinality(ListedSlots(Append(data, x))) = Len(e) + 1
  BY <1>3, PlaceOfLast
<1>6. ASSUME NEW i \in ListedSlots(data)
      PROVE  /\ Append(e, new)[PlaceOfSlot(Append(data, x), i)] =
                  Entry(OwnName(Append(data, x), i), Append(data, x)[i])
             /\ \E m : IsRun(Append(data, x), i, m)
  <2>1. PlaceOfSlot(Append(data, x), i) \in 1 .. Len(e)
    BY <1>3, PlaceInEntries, PlaceStays, Zenon
  <2>2. /\ e[PlaceOfSlot(Append(data, x), i)] =
             Entry(OwnName(Append(data, x), i), Append(data, x)[i])
        /\ \E m : IsRun(Append(data, x), i, m)
    BY NamedBefore, Zenon
  <2>3. Append(e, new)[PlaceOfSlot(Append(data, x), i)] =
          e[PlaceOfSlot(Append(data, x), i)]
    BY <1>4, <2>1, Zenon
  <2> QED BY <2>2, <2>3, Zenon
<1>7. /\ Append(e, new)[PlaceOfSlot(Append(data, x), Len(data) + 1)] =
           Entry(OwnName(Append(data, x), Len(data) + 1),
                 Append(data, x)[Len(data) + 1])
      /\ \E m : IsRun(Append(data, x), Len(data) + 1, m)
  <2>1. IsRun(Append(data, x), Len(data) + 1, n)
    BY <1>1, RunStays
  <2> QED BY <1>1, <1>4, <1>5, <2>1, Zenon
<1> QED BY <1>2, <1>4, <1>5, <1>6, <1>7, Zenon DEF Named

\* The inductive invariant: until the end marker the collected fragments are
\* the run before the slot to come, and the entries are right.
ScanAt(data, s, e, l, b, E, F) ==
  /\ s = [entries |-> e, lfn |-> l, stopped |-> b] /\ b \in BOOLEAN
  /\ e \in Seq(E) /\ l \in Seq(F) /\ Named(data, e)
  /\ b \/ Collected(data, l)

ScanInv ==
  /\ slots \in Seq(SlotKinds)
  /\ \E e, l, b, E, F : ScanAt(slots, scan, e, l, b, E, F)

\* One turn of the loop of read_directory, for any directory read so far.
LEMMA ScanSlotKeeps ==
  ASSUME NEW S, NEW data \in Seq(S), NEW x \in S, NEW s, NEW a \in BOOLEAN,
         NEW e, NEW l, NEW E, NEW F, ScanAt(data, s, e, l, FALSE, E, F)
  PROVE  \E e2, l2, b2, E2, F2 :
           ScanAt(Append(data, x), ScanSlot(s, x, a), e2, l2, b2, E2, F2)
<1>1. /\ s = [entries |-> e, lfn |-> l, stopped |-> FALSE]
      /\ e \in Seq(E) /\ l \in Seq(F) /\ Named(data, e) /\ Collected(data, l)
  BY Zenon DEF ScanAt
<1>2. CASE x.kind = "end" /\ ~a
  <2>1. ScanSlot(s, x, a) = [entries |-> e, lfn |-> l, stopped |-> TRUE]
    BY <1>1, <1>2, Zenon DEF ScanSlot
  <2>2. Named(Append(data, x), e)
    BY <1>1, <1>2, NamedStays, Zenon
  <2> QED BY <1>1, <2>1, <2>2, Zenon DEF ScanAt
<1>3. CASE x.kind = "lfn"
  <2> DEFINE F2 == F \cup {x.fragment}
  <2>1. ScanSlot(s, x, a) =
          [entries |-> e, lfn |-> Append(l, x.fragment), stopped |-> FALSE]
    BY <1>1, <1>3, Zenon DEF ScanSlot
  <2>2. Named(Append(data, x), e)
    BY <1>1, <1>3, NamedStays, Zenon
  <2>3. l \in Seq(F2) /\ x.fragment \in F2
    BY <1>1
  <2> HIDE DEF F2
  <2>4. Append(l, x.fragment) \in Seq(F2)
    BY <2>3, AppendProperties, Zenon
  <2>5. Collected(Append(data, x), Append(l, x.fragment))
    BY <1>1, <1>3, <2>3, CollectedGrows, Zenon
  <2> QED BY <1>1, <2>1, <2>2, <2>4, <2>5, Zenon DEF ScanAt
<1>4. CASE x.kind \in {"file", "dir"}
  <2> DEFINE new == Entry(LongOrShort(s, x), x)
             E2 == E \cup {new}
  <2>1. ScanSlot(s, x, a) =
          [entries |-> Append(e, new), lfn |-> <<>>, stopped |-> FALSE]
    <3> HIDE DEF new
    <3> QED BY <1>1, <1>4, Zenon DEF ScanSlot, new
  <2>2. LongOrShort(s, x) = OwnName(Append(data, x), Len(data) + 1)
    BY <1>1, CollectedName, Zenon DEF LongOrShort
  <2>3. new = Entry(OwnName(Append(data, x), Len(data) + 1), x)
    BY <2>2, Zenon
  <2>4. e \in Seq(E2) /\ new \in E2
    BY <1>1
  <2> HIDE DEF new, E2
  <2>5. PICK n : IsRun(data, Len(data) + 1, n)
    BY <1>1, Zenon DEF Collected
  <2>6. Named(Append(data, x), Append(e, new))
    BY <1>1, <1>4, <2>3, <2>4, <2>5, NamedGrows, Zenon
  <2>7. Append(e, new) \in Seq(E2)
    BY <2>4, AppendProperties, Zenon
  <2>8. Collected(Append(data, x), <<>>)
    BY <1>4, CollectedEnds, Zenon
  <2>9. <<>> \in Seq(F)
    OBVIOUS
  <2> QED BY <2>1, <2>6, <2>7, <2>8, <2>9, Zenon DEF ScanAt
<1>5. CASE ~(x.kind = "end" /\ ~a) /\ x.kind \notin {"lfn", "file", "dir"}
  <2>1. ScanSlot(s, x, a) = [entries |-> e, lfn |-> <<>>, stopped |-> FALSE]
    BY <1>1, <1>5, Zenon DEF ScanSlot
  <2>2. Named(Append(data, x), e)
    BY <1>1, <1>5, NamedStays, Zenon
  <2>3. Collected(Append(data, x), <<>>)
    BY <1>5, CollectedEnds, Zenon
  <2>4. <<>> \in Seq(F)
    OBVIOUS
  <2> QED BY <1>1, <2>1, <2>2, <2>3, <2>4, Zenon DEF ScanAt
<1> QED BY <1>2, <1>3, <1>4, <1>5, Zenon

\* The invariant holds before the first slot.
LEMMA ScanStarts == ScanInit => ScanInv
<1> SUFFICES ASSUME ScanInit PROVE ScanInv
  BY Zenon
<1>1. slots = <<>> /\ scan = [entries |-> <<>>, lfn |-> <<>>, stopped |-> FALSE]
  BY Zenon DEF ScanInit, NothingScanned
<1>2. ListedSlots(<<>>) = {}
  BY DEF ListedSlots
<1>3. Named(<<>>, <<>>)
  BY <1>2, FS_EmptySet, Zenon DEF Named
<1>4. IsRun(<<>>, Len(<<>>) + 1, 0)
  BY DEF IsRun
<1>5. Collected(<<>>, <<>>)
  BY <1>4 DEF Collected
<1>6. ScanAt(slots, scan, <<>>, <<>>, FALSE, {}, {})
  BY <1>1, <1>3, <1>5 DEF ScanAt
<1>7. slots \in Seq(SlotKinds)
  BY <1>1
<1> QED BY <1>6, <1>7, Zenon DEF ScanInv

\* Every slot read keeps it.
LEMMA ScanKeeps == ScanInv /\ [ScanningNext]_scanVars => ScanInv'
<1> SUFFICES ASSUME ScanInv, [ScanningNext]_scanVars PROVE ScanInv'
  BY Zenon
<1>1. PICK e, l, b, E, F : ScanAt(slots, scan, e, l, b, E, F)
  BY Zenon DEF ScanInv
<1>2. CASE UNCHANGED scanVars
  BY <1>2, Zenon DEF ScanInv, scanVars
<1>3. ASSUME NEW slot \in SlotKinds, ScanNext(slot)
      PROVE  ScanInv'
  <2>1. b = FALSE
    BY <1>1, <1>3, Zenon DEF ScanNext, ScanAt
  <2>2. AfterLfn(slots', Len(slots')) \in BOOLEAN
    BY Zenon DEF AfterLfn, IsLfn
  <2>3. slots \in Seq(SlotKinds)
    BY Zenon DEF ScanInv
  <2>4. PICK data, s, a : data = slots /\ s = scan
                          /\ a = AfterLfn(slots', Len(slots'))
    BY Zenon
  <2>5. slots' = Append(data, slot) /\ scan' = ScanSlot(s, slot, a)
    BY <1>3, <2>4, Zenon DEF ScanNext
  <2>6. ScanAt(data, s, e, l, FALSE, E, F) /\ a \in BOOLEAN
        /\ data \in Seq(SlotKinds)
    BY <1>1, <2>1, <2>2, <2>3, <2>4, Zenon
  <2>7. \E e2, l2, b2, E2, F2 :
          ScanAt(Append(data, slot), ScanSlot(s, slot, a), e2, l2, b2, E2, F2)
    BY <2>6, ScanSlotKeeps, Zenon
  <2>8. Append(data, slot) \in Seq(SlotKinds)
    BY <2>6, AppendProperties, Zenon
  <2> QED BY <2>5, <2>7, <2>8, Zenon DEF ScanInv
<1> QED BY <1>2, <1>3, Zenon DEF ScanningNext

\* It says that the entries listed have their own names.
LEMMA ScanSafe == ScanInv => EntriesNamedByOwnFragments
BY DEF ScanInv, ScanAt, Named, PlaceOfSlot, EntriesNamedByOwnFragments

\* read_directory lists the files and directories of any directory, of any
\* length, each named by its own fragments.
THEOREM DirectoryEntriesOwnNames == ScanSpec => []EntriesNamedByOwnFragments
BY ScanStarts, ScanKeeps, ScanSafe, PTL DEF ScanSpec
=============================================================================
