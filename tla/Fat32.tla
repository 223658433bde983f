------------------------------- MODULE Fat32 -------------------------------
(* The read-only FAT32 driver (fs/fat32.rs): cluster chains, path
   lookup in the directories that FatDirectory scans, and the reads and seeks of
   an open file, over a disk some of whose sectors cannot be read.

   A sector holds SectorSize bytes, each named by its place <<lba, offset>>; a
   directory entry (slot) takes a whole sector.  A name is the sequence of its
   long-name fragments, or of its one short name; names are taken up to case.
   The FAT is acyclic: cluster_chain does not end on a cyclic one.

     disk      [fat, bad]: cluster -> entry, and the unreadable sectors
     handle    [clusters, position, file_size, first] of the open Fat32File
     delivered the last read: [at, asked, data] *)
EXTENDS FatDirectory, SequencesExt

CONSTANTS SectorSize, SectorsPerCluster,
          FatStart, DataStart,     \* fat_start_lba, data_start_lba
          RootCluster, FatEoc,     \* root_cluster, FAT_EOC_MIN
          Fats,                    \* the FATs the disk may have
          DirSectors,              \* lba -> slot, for the directories' sectors
          FatPaths,                \* paths asked for, split into components
          ReadSizes, SeekOffsets

ASSUME Fat32Assumption ==
  /\ SectorSize \in Nat \ {0} /\ SectorsPerCluster \in Nat \ {0}
  /\ DataStart > FatStart

VARIABLES disk, handle, delivered

fatVars == <<disk, handle, delivered>>

ClusterBytes == SectorsPerCluster * SectorSize

Least(a, b) == IF a =< b THEN a ELSE b

-----------------------------------------------------------------------------
(* Sectors and clusters *)
cluster_to_lba(cluster) == DataStart + (cluster - 2) * SectorsPerCluster

\* How many sectors read_sectors gets before one that cannot be read.
read_sectors(lba, count) ==
  CHOOSE n \in 0 .. count :
    /\ \A i \in 0 .. n - 1 : lba + i \notin disk.bad
    /\ n = count \/ lba + n \in disk.bad

FatSector(cluster) == FatStart + (cluster * 4) \div SectorSize

\* 0, which ends a chain, when the sector cannot be read.
read_fat_entry(cluster) ==
  IF FatSector(cluster) \in disk.bad THEN 0 ELSE disk.fat[cluster]

InChain(cluster) == 2 =< cluster /\ cluster < FatEoc

cluster_chain(start) ==
  LET follow[c \in Nat] ==
        IF InChain(c) THEN <<c>> \o follow[read_fat_entry(c)] ELSE <<>>
  IN  follow[start]

\* The slots of a chain.  What a bad sector cuts off a cluster is not left out
\* in place: the next cluster follows at once, and the buffer's end stays zero.
EndSlot == [kind |-> "end", short |-> "", fragment |-> "", first |-> 0, size |-> 0]

read_cluster_chain(clusters) ==
  LET got == FlattenSeq([i \in 1 .. Len(clusters) |->
               LET lba == cluster_to_lba(clusters[i])
               IN  [j \in 1 .. read_sectors(lba, SectorsPerCluster) |->
                      DirSectors[lba + j - 1]]])
  IN  [i \in 1 .. Len(clusters) * SectorsPerCluster |->
         IF i =< Len(got) THEN got[i] ELSE EndSlot]

-----------------------------------------------------------------------------
(* A directory read, and Fat32Fs: lookup and open *)

read_directory(cluster) ==
  LET data == read_cluster_chain(cluster_chain(cluster))
      after[i \in 0 .. Len(data)] ==
        IF i = 0 THEN NothingScanned
        ELSE ScanSlot(after[i - 1], data[i], AfterLfn(data, i))
  IN  after[Len(data)].entries

NotFound == [name |-> <<>>, is_directory |-> FALSE, first |-> -1, size |-> 0]

\* The first entry with the component's name; a file met before the last
\* component ends the lookup.
find_entry(parts) ==
  LET Named(entries, name) == SelectInSeq(entries, LAMBDA e : e.name = name)
      reached[k \in 0 .. Len(parts)] ==
        IF k = 0
        THEN [name |-> <<>>, is_directory |-> TRUE, first |-> RootCluster,
              size |-> 0]
        ELSE IF ~reached[k - 1].is_directory THEN NotFound
        ELSE LET entries == read_directory(reached[k - 1].first)
                 i == Named(entries, parts[k])
             IN  IF i = 0 THEN NotFound ELSE entries[i]
  IN  reached[Len(parts)]

Closed == [clusters |-> <<>>, position |-> 0, file_size |-> 0, first |-> -1]
Nothing == [at |-> 0, asked |-> 0, data |-> <<>>]

\* Sectors of the FAT and of the clusters; at most one of them is unreadable.
Sectors ==
  FatStart .. DataStart - 1 \cup
    UNION {cluster_to_lba(c) .. cluster_to_lba(c) + SectorsPerCluster - 1 :
             c \in UNION {DOMAIN fat : fat \in Fats}}

FatInit ==
  /\ disk \in [fat : Fats, bad : {{}} \cup {{s} : s \in Sectors}]
  /\ handle = Closed /\ delivered = Nothing

\* open: a directory or a missing entry is refused.
FatOpen(parts) ==
  LET entry == find_entry(parts)
  IN  /\ entry # NotFound /\ ~entry.is_directory
      /\ handle' = [clusters |-> cluster_chain(entry.first), position |-> 0,
                    file_size |-> entry.size, first |-> entry.first]
      /\ delivered' = Nothing
      /\ UNCHANGED disk

-----------------------------------------------------------------------------
(* Fat32File *)

\* The bytes of one cluster from an offset in it, at most want of them.
ReadCluster(cluster, offset, want) ==
  LET lba == cluster_to_lba(cluster) + offset \div SectorSize
      skip == offset % SectorSize
      to_read == Least(want, ClusterBytes - offset)
      needed == (skip + to_read + SectorSize - 1) \div SectorSize
      got == read_sectors(lba, needed) * SectorSize
      copied == IF got =< skip THEN 0 ELSE Least(got - skip, to_read)
  IN  [k \in 1 .. copied |->
         <<lba + (skip + k - 1) \div SectorSize, (skip + k - 1) % SectorSize>>]

\* Every cluster is entered at the first one's offset: mutant.
OffsetIn_always(h, ci) == h.position % ClusterBytes

OffsetIn(h, ci) ==
  IF ci = h.position \div ClusterBytes THEN h.position % ClusterBytes ELSE 0

\* The loop goes on to the next cluster after a short read.
fat_read(h, count) ==
  LET start == h.position \div ClusterBytes
      max == Least(count, h.file_size - h.position)
      bytes[ci \in start .. Len(h.clusters)] ==
        IF ci = start THEN <<>>
        ELSE bytes[ci - 1] \o
               ReadCluster(h.clusters[ci], OffsetIn(h, ci - 1),
                           max - Len(bytes[ci - 1]))
  IN  IF start >= Len(h.clusters) \/ h.position >= h.file_size
      THEN <<>> ELSE bytes[Len(h.clusters)]

FatRead(count) ==
  /\ handle # Closed
  /\ delivered' = [at |-> handle.position, asked |-> count,
                   data |-> fat_read(handle, count)]
  /\ handle' = [handle EXCEPT !.position = @ + Len(delivered'.data)]
  /\ UNCHANGED disk

FatSeek(offset) ==
  /\ handle # Closed /\ offset =< handle.file_size
  /\ handle' = [handle EXCEPT !.position = offset]
  /\ delivered' = Nothing
  /\ UNCHANGED disk

FatNext ==
  \/ \E parts \in FatPaths : FatOpen(parts)
  \/ \E count \in ReadSizes : FatRead(count)
  \/ \E offset \in SeekOffsets : FatSeek(offset)

FatSpec == FatInit /\ [][FatNext]_fatVars

-----------------------------------------------------------------------------
(* Properties *)

\* The file's clusters as its FAT has them, readable or not.
TrueChain(first) ==
  LET follow[c \in Nat] ==
        IF InChain(c) THEN <<c>> \o follow[disk.fat[c]] ELSE <<>>
  IN  IF first = -1 THEN <<>> ELSE follow[first]

\* The place on the disk of the file's byte p.
PlaceOf(p) ==
  LET c == TrueChain(handle.first)[p \div ClusterBytes + 1]
  IN  <<cluster_to_lba(c) + (p % ClusterBytes) \div SectorSize, p % SectorSize>>

\* The bytes from the position of the read up to p can all be got at: their
\* sectors are readable, and so are the FAT entries of the clusters before.
Intact(p) ==
  /\ \A q \in delivered.at .. p : PlaceOf(q)[1] \notin disk.bad
  /\ \A i \in 1 .. p \div ClusterBytes :
       FatSector(TrueChain(handle.first)[i]) \notin disk.bad

\* A read delivers the file's own bytes from the position on, in order and none
\* missing, as many as were asked for and the file has, whatever the position
\* and the length are relative to sectors and clusters, up to the first sector
\* that cannot be read; and never more than was asked for.  (What follows an
\* unreadable sector in the buffer is not the file's.)
FatReadsFile ==
  LET last == Least(delivered.at + delivered.asked, handle.file_size) - 1
      wanted == {p \in delivered.at .. last :
                   p \div ClusterBytes < Len(TrueChain(handle.first))}
  IN  /\ Len(delivered.data) =< Cardinality(wanted)
      /\ \A p \in wanted :
           Intact(p) => /\ p - delivered.at < Len(delivered.data)
                        /\ delivered.data[p - delivered.at + 1] = PlaceOf(p)
=============================================================================
