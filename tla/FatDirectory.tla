---------------------------- MODULE FatDirectory ----------------------------
(* The scan of a FAT32 directory (read_directory in fs/fat32.rs), a slot at a
   time, with the long-name fragments it collects on the way.  A name is the
   sequence of its fragments, or of its one short name.

     slots   the raw slots scanned so far     scan  the loop's state *)
EXTENDS Integers, Sequences, FiniteSets

CONSTANTS SlotKinds,               \* slots a directory is made of
          MaxSlots                 \* bound: slots scanned

VARIABLES slots, scan

scanVars == <<slots, scan>>

IsLfn(slot) == slot.kind \in {"lfn", "deleted_lfn"}

NothingScanned == [entries |-> <<>>, lfn |-> <<>>, stopped |-> FALSE]

Reversed(s) == [k \in 1 .. Len(s) |-> s[Len(s) + 1 - k]]

LongOrShort(s, slot) == IF s.lfn = <<>> THEN <<slot.short>> ELSE Reversed(s.lfn)

Entry(name, slot) ==
  [name |-> name, is_directory |-> slot.kind = "dir", first |-> slot.first,
   size |-> slot.size]

\* A deleted entry does not drop the fragments before it: mutant.
ScanSlot_keeps_fragments(s, slot, afterLfn) ==
  IF s.stopped \/ slot.kind = "deleted" THEN s
  ELSE CASE slot.kind = "end" /\ ~afterLfn -> [s EXCEPT !.stopped = TRUE]
         [] slot.kind = "lfn" -> [s EXCEPT !.lfn = Append(@, slot.fragment)]
         [] slot.kind \in {"file", "dir"} ->
              [s EXCEPT !.lfn = <<>>,
                        !.entries = Append(@, Entry(LongOrShort(s, slot), slot))]
         [] OTHER -> [s EXCEPT !.lfn = <<>>]

\* One turn of the loop.  An end marker right after a long-name slot does not
\* stop it.  The checksum that ties fragments to their short name is computed
\* and not compared.
ScanSlot(s, slot, afterLfn) ==
  IF s.stopped THEN s
  ELSE CASE slot.kind = "end" /\ ~afterLfn -> [s EXCEPT !.stopped = TRUE]
         [] slot.kind = "lfn" -> [s EXCEPT !.lfn = Append(@, slot.fragment)]
         [] slot.kind \in {"file", "dir"} ->
              [s EXCEPT !.lfn = <<>>,
                        !.entries = Append(@, Entry(LongOrShort(s, slot), slot))]
         [] OTHER -> [s EXCEPT !.lfn = <<>>]

AfterLfn(data, i) == i > 1 /\ IsLfn(data[i - 1])

-----------------------------------------------------------------------------
(* The loop, on any directory *)

ScanInit == slots = <<>> /\ scan = NothingScanned

ScanNext(slot) ==
  /\ Len(slots) < MaxSlots /\ ~scan.stopped
  /\ slots' = Append(slots, slot)
  /\ scan' = ScanSlot(scan, slot, AfterLfn(slots', Len(slots')))

ScanningNext == \E slot \in SlotKinds : ScanNext(slot)

ScanSpec == ScanInit /\ [][ScanningNext]_scanVars

-----------------------------------------------------------------------------
(* Properties *)

\* The n slots right before slot i are live long-name fragments, the one before
\* them is not.
IsRun(data, i, n) ==
  /\ n \in 0 .. i - 1
  /\ \A j \in i - n .. i - 1 : data[j].kind = "lfn"
  /\ n = i - 1 \/ data[i - n - 1].kind # "lfn"

\* The name slot i should have: the run of fragments right before it, last one
\* first, or else its short name.
OwnName(data, i) ==
  LET run == CHOOSE n \in 0 .. i - 1 : IsRun(data, i, n)
  IN  IF run = 0 THEN <<data[i].short>>
      ELSE [k \in 1 .. run |-> data[i - k].fragment]

ListedSlots(data) == {i \in 1 .. Len(data) : data[i].kind \in {"file", "dir"}}

\* read_directory lists exactly the files and directories before the end marker,
\* each once and in order, and an entry is named by the unbroken run of live
\* fragments right before it, last one first, or else by its short name:
\* fragments of a deleted or skipped entry never reach a later name.
EntriesNamedByOwnFragments ==
  /\ Len(scan.entries) = Cardinality(ListedSlots(slots))
  /\ \A i \in ListedSlots(slots) :
       scan.entries[Cardinality({j \in ListedSlots(slots) : j =< i})] =
         Entry(OwnName(slots, i), slots[i])
=============================================================================
