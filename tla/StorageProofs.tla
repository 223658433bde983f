--------------------------- MODULE StorageProofs ----------------------------
(***************************************************************************)
(* Physical frames for every bitmap size, memory map, set of reserved      *)
(* pages and set of run lengths; the disk driver on top of them for every  *)
(* set of sectors and contents and any number of commands; the kernel heap *)
(* for every heap size, header size, split threshold and set of layouts;   *)
(* and the object store of Beast FS for every set of paths, users and      *)
(* contents, every hash function and every bound on the space.             *)
(*                                                                         *)
(* The total of bytes the object store counts is a sum over a finite set   *)
(* that the code adds to and takes from in any order: a section shows that *)
(* such a sum does not depend on the order.                                *)
(***************************************************************************)
EXTENDS Ahci, KernelHeap, ObjectStore, ModArith, FiniteSetTheorems

-----------------------------------------------------------------------------
(* FrameAllocator.  The property mentions a cardinality, so the bitmap must *)
(* be known to be finite: it is a set of pages.                             *)

\* The inductive invariant: the bitmap describes pages, and the partition.
FramesInv ==
  /\ pmm \in [bitmap : SUBSET Pages, FREE_PAGES : Int]
  /\ FramesPartition

-----------------------------------------------------------------------------
(* What the operations on the bitmap rest on *)

\* A set of page numbers that is not empty has a lowest: what the scan of
\* alloc_page and of alloc_contiguous stops at.
LEMMA LowestIsMember ==
  ASSUME NEW S \in SUBSET Nat, S # {}
  PROVE  Lowest(S) \in S
  BY LeastExists, Zenon DEF Lowest

\* Every set of pages is finite.
LEMMA PagesFinite ==
  ASSUME NEW S \in SUBSET Pages
  PROVE  IsFiniteSet(S) /\ Cardinality(S) \in Nat /\ S \subseteq Nat
<1>1. IsFiniteSet(Pages)
  BY FramesAssumption, FS_Interval DEF Pages
<1>2. IsFiniteSet(S)
  BY <1>1, FS_Subset, Zenon
<1>3. Cardinality(S) \in Nat
  BY <1>2, FS_CardinalityType, Zenon
<1>4. S \subseteq Nat
  BY FramesAssumption DEF Pages
<1>. QED
  BY <1>2, <1>3, <1>4, Zenon

\* A run of count pages has count pages.
LEMMA RunSize ==
  ASSUME NEW start \in Nat, NEW count \in Nat
  PROVE  IsFiniteSet(RunAt(start, count)) /\ Cardinality(RunAt(start, count)) = count
<1>1. start + count - 1 \in Int /\ (start > start + count - 1 <=> count = 0)
  OBVIOUS
<1>. QED
  BY <1>1, FS_Interval DEF RunAt

-----------------------------------------------------------------------------
(* The operations *)

\* init: the bitmap is what is usable and not reserved, and is counted right.
LEMMA FramesInitInv == FramesInit => FramesInv
<1>. SUFFICES ASSUME FramesInit PROVE FramesInv
  BY Zenon
<1>. DEFINE usable == UsablePages(UsableEntries)
<1>1. usable \in SUBSET Pages /\ usable \ Reserved \in SUBSET Pages
  BY Zenon DEF UsablePages
<1>2. /\ IsFiniteSet(usable) /\ Cardinality(usable) \in Nat
      /\ Cardinality(usable \ Reserved) \in Nat
  BY <1>1, PagesFinite, Zenon
<1>3. Cardinality(usable \ Reserved)
        = Cardinality(usable) - Cardinality(usable \cap Reserved)
  BY <1>2, FS_Difference, Zenon
<1>4. /\ pmm.bitmap = usable \ Reserved
      /\ pmm.FREE_PAGES = Cardinality(usable) - Cardinality(usable \cap Reserved)
      /\ pmm = [bitmap |-> pmm.bitmap, FREE_PAGES |-> pmm.FREE_PAGES]
      /\ held = {}
  BY Zenon DEF FramesInit, pmm_init
<1>. HIDE DEF usable
<1>5. FramesPartition
  <2>. USE DEF usable
  <2>. QED BY <1>3, <1>4, Zenon DEF FramesPartition
<1>6. pmm \in [bitmap : SUBSET Pages, FREE_PAGES : Int]
  BY <1>1, <1>2, <1>3, <1>4
<1>. QED
  BY <1>5, <1>6, Zenon DEF FramesInv

\* alloc_page moves the lowest free page, if there is one, to the caller.
LEMMA AllocPageInv == FramesInv /\ AllocPage => FramesInv'
<1>. SUFFICES ASSUME FramesInv, AllocPage PROVE FramesInv'
  BY Zenon
<1>1. pmm.bitmap \in SUBSET Pages /\ pmm.FREE_PAGES = Cardinality(pmm.bitmap)
  BY Zenon DEF FramesInv, FramesPartition
<1>2. IsFiniteSet(pmm.bitmap) /\ Cardinality(pmm.bitmap) \in Nat /\ pmm.bitmap \subseteq Nat
  BY <1>1, PagesFinite, Zenon
<1>3. CASE pmm.bitmap = {}
  BY <1>3, Zenon DEF AllocPage, alloc_page, FramesInv, FramesPartition
<1>4. CASE pmm.bitmap # {}
  <2>. DEFINE page == Lowest(pmm.bitmap)
  <2>1. page \in pmm.bitmap /\ page # NoPage
    BY <1>2, <1>4, LowestIsMember, FramesAssumption
  <2>2. /\ pmm' = [bitmap |-> pmm.bitmap \ {page}, FREE_PAGES |-> pmm.FREE_PAGES - 1]
        /\ held' = held \cup {page}
    BY <1>4, <2>1, Zenon DEF AllocPage, alloc_page
  <2>. HIDE DEF page
  <2>3. Cardinality(pmm.bitmap \ {page}) = Cardinality(pmm.bitmap) - 1
    BY <1>2, <2>1, FS_RemoveElement, Zenon
  <2>. QED
    BY <1>1, <1>2, <2>1, <2>2, <2>3 DEF FramesInv, FramesPartition
<1>. QED
  BY <1>3, <1>4, Zenon

\* free_page of a page the caller holds gives it back, once.
LEMMA FreePageInv ==
  ASSUME NEW page \in held, FramesInv, FreePage(page)
  PROVE  FramesInv'
<1>1. pmm.bitmap \in SUBSET Pages /\ pmm.FREE_PAGES = Cardinality(pmm.bitmap)
  BY Zenon DEF FramesInv, FramesPartition
<1>2. IsFiniteSet(pmm.bitmap) /\ Cardinality(pmm.bitmap) \in Nat
  BY <1>1, PagesFinite, Zenon
<1>3. page \in Pages /\ page \notin pmm.bitmap
  BY Zenon DEF FramesInv, FramesPartition, UsablePages
<1>4. ~(page >= MaxPages)
  BY <1>3, FramesAssumption DEF Pages
<1>5. /\ pmm' = [bitmap |-> pmm.bitmap \cup {page}, FREE_PAGES |-> pmm.FREE_PAGES + 1]
      /\ held' = held \ {page}
  BY <1>3, <1>4, Zenon DEF FreePage, free_page
<1>6. Cardinality(pmm.bitmap \cup {page}) = Cardinality(pmm.bitmap) + 1
  BY <1>2, <1>3, FS_AddElement, Zenon
<1>. QED
  BY <1>1, <1>2, <1>3, <1>5, <1>6 DEF FramesInv, FramesPartition

\* alloc_contiguous moves a whole run, if there is one, to the caller.
LEMMA AllocContiguousInv ==
  ASSUME NEW count \in RunLengths, FramesInv, AllocContiguous(count)
  PROVE  FramesInv'
<1>1. pmm.bitmap \in SUBSET Pages /\ pmm.FREE_PAGES = Cardinality(pmm.bitmap)
  BY Zenon DEF FramesInv, FramesPartition
<1>2. IsFiniteSet(pmm.bitmap) /\ Cardinality(pmm.bitmap) \in Nat /\ pmm.bitmap \subseteq Nat
  BY <1>1, PagesFinite, Zenon
<1>3. count \in Nat
  BY AllocatorAssumption, Zenon
<1>4. CASE count = 0 \/ RunStarts(pmm, count) = {}
  BY <1>4, Zenon DEF AllocContiguous, alloc_contiguous, FramesInv, FramesPartition
<1>5. CASE ~(count = 0 \/ RunStarts(pmm, count) = {})
  <2>. DEFINE start == Lowest(RunStarts(pmm, count))
              run == RunAt(start, count)
  <2>1. RunStarts(pmm, count) \in SUBSET Nat
    BY <1>2, Zenon DEF RunStarts
  <2>2. start \in RunStarts(pmm, count)
    BY <1>5, <2>1, LowestIsMember, Zenon
  <2>3. start \in Nat /\ start # NoPage /\ run \subseteq pmm.bitmap
    BY <2>1, <2>2, FramesAssumption DEF RunStarts
  <2>4. /\ pmm' = [bitmap |-> pmm.bitmap \ run, FREE_PAGES |-> pmm.FREE_PAGES - count]
        /\ held' = held \cup run
    BY <1>5, <2>3, Zenon DEF AllocContiguous, alloc_contiguous
  <2>5. Cardinality(run) = count
    BY <1>3, <2>3, RunSize, Zenon
  <2>. HIDE DEF start, run
  <2>6. pmm.bitmap \cap run = run
    BY <2>3, Zenon
  <2>7. Cardinality(pmm.bitmap \ run) = Cardinality(pmm.bitmap) - count
    BY <1>2, <2>5, <2>6, FS_Difference, ZenonT(40)
  <2>. QED
    BY <1>1, <1>2, <1>3, <2>3, <2>4, <2>7 DEF FramesInv, FramesPartition
<1>. QED
  BY <1>4, <1>5, Zenon

-----------------------------------------------------------------------------

\* However the calls of alloc_page, free_page and alloc_contiguous follow one
\* another, no page has two holders, none is lost, no reserved page is handed
\* out, and FREE_PAGES counts the free pages.
THEOREM FramesNeverShared == FramesSpec => []FramesPartition
<1>1. FramesInit => FramesInv
  BY FramesInitInv, Zenon
<1>2. FramesInv /\ [FramesNext]_frameVars => FramesInv'
  <2>. SUFFICES ASSUME FramesInv, [FramesNext]_frameVars PROVE FramesInv'
    BY Zenon
  <2>1. CASE AllocPage
    BY <2>1, AllocPageInv, Zenon
  <2>2. CASE \E page \in held : FreePage(page)
    BY <2>2, FreePageInv, Zenon
  <2>3. CASE \E count \in RunLengths : AllocContiguous(count)
    BY <2>3, AllocContiguousInv, Zenon
  <2>4. CASE UNCHANGED frameVars
    BY <2>4, Zenon DEF frameVars, FramesInv, FramesPartition
  <2>. QED
    BY <2>1, <2>2, <2>3, <2>4, Zenon DEF FramesNext
<1>3. FramesInv => FramesPartition
  BY Zenon DEF FramesInv
<1>. QED
  BY <1>1, <1>2, <1>3, PTL DEF FramesSpec

-----------------------------------------------------------------------------
(* Ahci *)

Ops == {"read", "write"}
AnyData == SectorData \cup {0}
Tables == {Table(op, lba, buf) : op \in Ops, lba \in Lbas, buf \in Pages}
Contents == {Other} \cup {Sector(d) : d \in AnyData} \cup Tables
MaybePage == Pages \cup {NoPage}

AhciTypeOK ==
  /\ ahci \in [pc : {"off", "idle", "table", "issue", "wait", "reissue", "finish"},
               clb : MaybePage, fb : MaybePage, buf : MaybePage, ct : MaybePage,
               op : Ops \cup {"none"}, lba : Lbas \cup {0}, ok : BOOLEAN,
               timedOut : BOOLEAN]
  /\ hba \in [clb : MaybePage, fb : MaybePage, slot : MaybePage, CI : BOOLEAN,
              err : BOOLEAN, cmd : {Other} \cup Tables]
  /\ page_data \in [Pages -> Contents]
  /\ disk \in [Lbas -> AnyData]

\* Where the driver is in a call.
HasBuffer == ahci.pc \in {"table", "issue", "wait", "reissue", "finish"}
HasTable == ahci.pc \in {"issue", "wait"}

\* The pages of the allocator are pages of the bitmap, and those of a command
\* are taken.
Owned ==
  /\ pmm.bitmap \subseteq Pages /\ held \subseteq Pages
  /\ HasBuffer => /\ ahci.buf \in Pages \ pmm.bitmap
                  /\ ahci.op \in Ops /\ ahci.lba \in Lbas
  /\ HasTable => /\ ahci.ct \in Pages \ pmm.bitmap
                 /\ ahci.ct # ahci.buf
  /\ hba.CI \/ HasTable \/ ahci.pc = "reissue" => hba.slot \in Pages

ThisCommand == Table(ahci.op, ahci.lba, ahci.buf)

\* Until a command times out, the port works on the driver's command only, and
\* what it has finished without an error has moved the sector.
InStep ==
  /\ ahci.pc # "reissue"
  /\ HasTable => hba.slot = ahci.ct /\ page_data[ahci.ct] = ThisCommand
  /\ hba.CI => ahci.pc = "wait"
  /\ hba.cmd # Other => hba.CI /\ hba.cmd = ThisCommand
  /\ ahci.pc = "wait" /\ ~hba.CI /\ ~hba.err => page_data[ahci.buf].data = disk[ahci.lba]
  /\ ahci.pc = "finish" /\ ahci.ok => page_data[ahci.buf].data = disk[ahci.lba]
  /\ answer.ok => /\ ahci.pc = "idle"
                  /\ answer.lba \in Lbas
                  /\ answer.data = disk[answer.lba]

AhciInv == AhciTypeOK /\ Owned /\ (~ahci.timedOut => InStep)

-----------------------------------------------------------------------------
(* Pages and what they hold *)

\* What a page holds: the kinds are told apart, and a table says what it says.
LEMMA ContentsFacts ==
  /\ Other \in Contents /\ Other \notin Tables
  /\ \A d \in AnyData : Sector(d) \in Contents /\ Sector(d).data = d
  /\ \A op \in Ops, lba \in Lbas, buf \in Pages :
       /\ Table(op, lba, buf) \in Contents /\ Table(op, lba, buf) \in Tables
       /\ Table(op, lba, buf).op = op /\ Table(op, lba, buf).lba = lba
       /\ Table(op, lba, buf).buf = buf
       /\ Table(op, lba, buf).kind = "table"
  /\ \A c \in Contents : c.data \in AnyData /\ (c.kind = "table" => c \in Tables)
  /\ \A t \in Tables : t.op \in Ops /\ t.lba \in Lbas /\ t.buf \in Pages
<1>1. \A t \in Tables : /\ t.op \in Ops /\ t.lba \in Lbas /\ t.buf \in Pages
                         /\ t.kind = "table" /\ t.data = 0
  BY DEF Tables, Table
<1>2. Other \in Contents /\ Other.kind = "other" /\ Other.data = 0
  BY Zenon DEF Contents, Other
<1>3. \A d \in AnyData : /\ Sector(d) \in Contents /\ Sector(d).data = d
                          /\ Sector(d).kind = "data"
  BY Zenon DEF Contents, Sector
<1>4. \A op \in Ops, lba \in Lbas, buf \in Pages :
       /\ Table(op, lba, buf) \in Tables
       /\ Table(op, lba, buf).op = op /\ Table(op, lba, buf).lba = lba
       /\ Table(op, lba, buf).buf = buf
  <2>. TAKE op \in Ops, lba \in Lbas, buf \in Pages
  <2>1. Table(op, lba, buf) \in Tables
    <3>. HIDE DEF Table
    <3>. QED BY DEF Tables
  <2>. QED
    BY <2>1, Zenon DEF Table
<1>5. Other \notin Tables
  BY <1>1, <1>2, Zenon
<1>6. \A c \in Contents : c.data \in AnyData /\ (c.kind = "table" => c \in Tables)
  <2>. TAKE c \in Contents
  <2>1. c = Other \/ (\E d \in AnyData : c = Sector(d)) \/ c \in Tables
    BY Zenon DEF Contents
  <2>2. 0 \in AnyData
    BY Zenon DEF AnyData
  <2>. QED
    BY <1>1, <1>2, <1>3, <2>1, <2>2, Zenon
<1>7. Tables \subseteq Contents
  BY Zenon DEF Contents
<1>. QED
  BY <1>1, <1>2, <1>3, <1>4, <1>5, <1>6, <1>7

\* No page is no page.
LEMMA NoPageIsNone == NoPage \notin Pages /\ Pages \subseteq Nat
  BY FramesAssumption DEF Pages

\* alloc_page takes a free page, or nothing.
LEMMA AllocPageTakes ==
  ASSUME NEW s, s.bitmap \subseteq Pages, alloc_page(s).page # NoPage
  PROVE  /\ alloc_page(s).page \in s.bitmap
         /\ alloc_page(s).pmm.bitmap = s.bitmap \ {alloc_page(s).page}
<1>1. s.bitmap # {}
  BY Zenon DEF alloc_page
<1>2. Lowest(s.bitmap) \in s.bitmap
  BY <1>1, LowestIsMember, NoPageIsNone, Zenon
<1>. QED
  BY <1>1, <1>2, Zenon DEF alloc_page

\* When alloc_page finds no page it changes nothing.
LEMMA AllocNone ==
  ASSUME NEW s, s.bitmap \subseteq Pages, alloc_page(s).page = NoPage
  PROVE  alloc_page(s).pmm = s
<1>1. s.bitmap # {} => Lowest(s.bitmap) \in Pages
  BY LowestIsMember, NoPageIsNone, Zenon
<1>. QED
  BY <1>1, NoPageIsNone, Zenon DEF alloc_page

\* alloc_contiguous takes two free pages, or nothing.
LEMMA AllocPairTakes ==
  ASSUME NEW s, s.bitmap \subseteq Pages, alloc_contiguous(s, 2).page # NoPage
  PROVE  LET got == alloc_contiguous(s, 2)
         IN  /\ got.page \in s.bitmap /\ got.page + 1 \in s.bitmap
             /\ got.pmm.bitmap = s.bitmap \ {got.page, got.page + 1}
<1>. DEFINE start == Lowest(RunStarts(s, 2))
<1>1. RunStarts(s, 2) # {} /\ RunStarts(s, 2) \in SUBSET Nat
  BY NoPageIsNone, Zenon DEF alloc_contiguous, RunStarts
<1>2. start \in RunStarts(s, 2) /\ start \in Nat
  BY <1>1, LowestIsMember, Zenon
<1>3. /\ alloc_contiguous(s, 2).page = start
      /\ alloc_contiguous(s, 2).pmm.bitmap = s.bitmap \ RunAt(start, 2)
  BY <1>1, Zenon DEF alloc_contiguous
<1>. HIDE DEF start
<1>4. RunAt(start, 2) = {start, start + 1}
  BY <1>2 DEF RunAt
<1>. QED
  BY <1>2, <1>3, <1>4, Zenon DEF RunStarts

\* free_page adds at most the page.
LEMMA FreePageAdds ==
  ASSUME NEW s, NEW page \in Pages
  PROVE  free_page(s, page).bitmap \in {s.bitmap, s.bitmap \cup {page}}
  BY Zenon DEF free_page

-----------------------------------------------------------------------------
(* The actions *)

\* Before init the port is quiet and nothing is held.
LEMMA AhciInitInv == FramesInit /\ AhciInit => AhciInv
<1>. SUFFICES ASSUME FramesInit, AhciInit PROVE AhciInv
  BY Zenon
<1>1. FramesInv
  BY FramesInitInv, Zenon
<1>2. pmm.bitmap \subseteq Pages /\ held = {}
  BY <1>1, Zenon DEF FramesInv, FramesInit
<1>3. (CHOOSE d \in SectorData : TRUE) \in AnyData
  BY AhciAssumption, Zenon DEF AnyData
<1>4. AhciTypeOK
  BY <1>3, ContentsFacts, Zenon DEF AhciInit, AhciTypeOK, MaybePage
<1>5. Owned
  BY <1>2, Zenon DEF AhciInit, Owned, HasBuffer, HasTable
<1>6. InStep
  BY Zenon DEF AhciInit, InStep, HasTable, NoAnswer
<1>. QED
  BY <1>4, <1>5, <1>6, Zenon DEF AhciInv

\* init_port: the pages it takes are free ones, and a failure gives them back.
LEMMA InitPortInv == AhciInv /\ init_port => AhciInv'
<1>. SUFFICES ASSUME AhciInv, init_port PROVE AhciInv'
  BY Zenon
<1>. DEFINE clb == alloc_contiguous(pmm, 2)
            fb == alloc_page(clb.pmm)
<1>1. ahci.pc = "off" /\ pmm.bitmap \subseteq Pages
  BY Zenon DEF init_port, AhciInv, Owned
<1>2. /\ clb.page \in Pages /\ clb.page + 1 \in Pages /\ clb.pmm.bitmap \subseteq Pages
  BY <1>1, AllocPairTakes, Zenon DEF init_port
<1>3. CASE fb.page = NoPage
  <2>1. NoFisArea(clb)
    BY <1>3, Zenon DEF init_port
  <2>. HIDE DEF clb
  <2>2. free_page(clb.pmm, clb.page).bitmap \subseteq Pages
    BY <1>2, FreePageAdds
  <2>3. pmm'.bitmap \subseteq Pages
    BY <1>2, <2>1, <2>2, FreePageAdds DEF NoFisArea
  <2>. QED
    BY <1>1, <2>1, <2>3, Zenon
    DEF NoFisArea, ahciVars, AhciInv, AhciTypeOK, Owned, InStep, HasBuffer, HasTable, ThisCommand
<1>4. CASE fb.page # NoPage
  <2>1. /\ pmm' = fb.pmm
        /\ held' = held \cup {clb.page, clb.page + 1, fb.page}
        /\ ahci' = [ahci EXCEPT !.pc = "idle", !.clb = clb.page, !.fb = fb.page]
        /\ hba' = [hba EXCEPT !.clb = clb.page, !.fb = fb.page]
        /\ UNCHANGED <<page_data, disk, answer>>
    BY <1>4, Zenon DEF init_port
  <2>2. fb.page \in Pages /\ pmm'.bitmap \subseteq Pages
    BY <1>2, <1>4, <2>1, AllocPageTakes, Zenon
  <2>. HIDE DEF clb, fb
  <2>3. AhciTypeOK'
    BY <1>2, <2>1, <2>2, Zenon DEF AhciInv, AhciTypeOK, MaybePage
  <2>4. Owned'
    BY <1>2, <2>1, <2>2, Zenon DEF AhciInv, AhciTypeOK, Owned, HasBuffer, HasTable
  <2>5. ~ahci'.timedOut => InStep'
    BY <1>1, <2>1, Zenon DEF AhciInv, AhciTypeOK, InStep, HasTable, ThisCommand
  <2>. QED
    BY <2>3, <2>4, <2>5, Zenon DEF AhciInv
<1>. QED
  BY <1>3, <1>4, Zenon

\* read_sector and write_sector: without a buffer nothing happens.
LEMMA StartSectorInv ==
  ASSUME NEW op \in Ops, NEW lba \in Lbas, NEW data \in AnyData,
         AhciInv, StartSector(op, lba, data)
  PROVE  AhciInv'
<1>. DEFINE got == alloc_page(pmm)
<1>1. ahci.pc = "idle" /\ pmm.bitmap \subseteq Pages
  BY Zenon DEF StartSector, AhciInv, Owned
<1>2. CASE got.page = NoPage
  <2>1. answer' = NoAnswer /\ UNCHANGED <<pmm, held, ahci, hba, page_data, disk>>
    BY <1>2, Zenon DEF StartSector
  <2>. QED
    BY <2>1 DEF NoAnswer, AhciInv, AhciTypeOK, Owned, InStep, HasBuffer, HasTable, ThisCommand
<1>3. CASE got.page # NoPage
  <2>1. /\ pmm' = got.pmm
        /\ held' = held \cup RunAt(got.page, 1)
        /\ ahci' = [ahci EXCEPT !.pc = "table", !.buf = got.page, !.op = op, !.lba = lba]
        /\ page_data' = IF op = "read" THEN page_data
                        ELSE [page_data EXCEPT ![got.page] = Sector(data)]
        /\ answer' = NoAnswer
        /\ UNCHANGED <<hba, disk>>
    BY <1>3, Zenon DEF StartSector, Took
  <2>2. /\ got.page \in Pages /\ got.page \notin pmm'.bitmap
        /\ pmm'.bitmap \subseteq Pages
    BY <1>1, <1>3, <2>1, AllocPageTakes, Zenon
  <2>. HIDE DEF got
  <2>3. RunAt(got.page, 1) \subseteq Pages
    BY <2>2, FramesAssumption DEF RunAt, Pages
  <2>4. AhciTypeOK'
    BY <2>1, <2>2, ContentsFacts, Zenon DEF AhciInv, AhciTypeOK, MaybePage
  <2>5. Owned'
    BY <2>1, <2>2, <2>3, Zenon DEF AhciInv, AhciTypeOK, Owned, HasBuffer, HasTable
  <2>6. ~ahci'.timedOut => InStep'
    BY <1>1, <2>1, Zenon DEF AhciInv, AhciTypeOK, InStep, HasTable, ThisCommand, NoAnswer
  <2>. QED
    BY <2>4, <2>5, <2>6, Zenon DEF AhciInv
<1>. QED
  BY <1>2, <1>3, Zenon

\* The command table is a page of its own, and slot 0 points to it.
LEMMA FillCommandInv == AhciInv /\ FillCommand => AhciInv'
<1>. SUFFICES ASSUME AhciInv, FillCommand PROVE AhciInv'
  BY Zenon
<1>. DEFINE got == alloc_page(pmm)
<1>1. /\ ahci.pc = "table" /\ pmm.bitmap \subseteq Pages
      /\ ahci.buf \in Pages \ pmm.bitmap /\ ahci.op \in Ops /\ ahci.lba \in Lbas
  BY Zenon DEF FillCommand, AhciInv, Owned, HasBuffer
<1>2. CASE got.page = NoPage
  <2>1. /\ ahci' = [ahci EXCEPT !.pc = "finish", !.ok = FALSE]
        /\ UNCHANGED <<pmm, held, hba, page_data, disk, answer>>
    BY <1>2, Zenon DEF FillCommand
  <2>2. AhciTypeOK' /\ Owned'
    BY <1>1, <2>1, Zenon DEF AhciInv, AhciTypeOK, Owned, HasBuffer, HasTable
  <2>3. ~ahci'.timedOut => InStep'
    BY <1>1, <2>1, Zenon DEF AhciInv, AhciTypeOK, InStep, HasTable, ThisCommand
  <2>. QED
    BY <2>2, <2>3, Zenon DEF AhciInv
<1>3. CASE got.page # NoPage
  <2>1. /\ pmm' = got.pmm
        /\ held' = held \cup RunAt(got.page, 1)
        /\ ahci' = [ahci EXCEPT !.pc = "issue", !.ct = got.page]
        /\ page_data' = [page_data EXCEPT ![got.page] = ThisCommand]
        /\ hba' = [hba EXCEPT !.slot = got.page]
        /\ UNCHANGED <<disk, answer>>
    BY <1>3, Zenon DEF FillCommand, Took, ThisCommand
  <2>2. /\ got.page \in pmm.bitmap
        /\ pmm'.bitmap = pmm.bitmap \ {got.page}
    BY <1>1, <1>3, <2>1, AllocPageTakes, Zenon
  <2>. HIDE DEF got
  <2>3. RunAt(got.page, 1) \subseteq Pages /\ got.page \in Pages
    BY <1>1, <2>2, FramesAssumption DEF RunAt, Pages
  <2>4. ThisCommand \in Contents
    BY <1>1, ContentsFacts, Zenon DEF ThisCommand
  <2>5. AhciTypeOK'
    BY <2>1, <2>3, <2>4, Zenon DEF AhciInv, AhciTypeOK, MaybePage
  <2>6. Owned'
    BY <1>1, <2>1, <2>2, <2>3, Zenon DEF AhciInv, AhciTypeOK, Owned, HasBuffer, HasTable
  <2>7. ThisCommand' = ThisCommand
    BY <2>1, Zenon DEF ThisCommand, AhciInv, AhciTypeOK
  <2>8. ~ahci'.timedOut => InStep'
    BY <1>1, <2>1, <2>3, <2>7, Zenon DEF AhciInv, AhciTypeOK, InStep, HasTable
  <2>. QED
    BY <2>5, <2>6, <2>8, Zenon DEF AhciInv
<1>. QED
  BY <1>2, <1>3, Zenon

\* PxCI is written when slot 0 is complete.
LEMMA IssueInv == AhciInv /\ Issue => AhciInv'
<1>. SUFFICES ASSUME AhciInv, Issue PROVE AhciInv'
  BY Zenon
<1>1. /\ ahci.pc = "issue"
      /\ ahci' = [ahci EXCEPT !.pc = "wait"]
      /\ hba' = [hba EXCEPT !.CI = TRUE]
      /\ UNCHANGED <<pmm, held, page_data, disk, answer>>
  BY Zenon DEF Issue, frameVars
<1>2. AhciTypeOK'
  BY <1>1, Zenon DEF AhciInv, AhciTypeOK
<1>3. ThisCommand' = ThisCommand
  BY <1>1, Zenon DEF ThisCommand, AhciInv, AhciTypeOK
<1>4. Owned'
  BY <1>1, Zenon DEF AhciInv, AhciTypeOK, Owned, HasBuffer, HasTable
<1>5. ~ahci'.timedOut => InStep'
  BY <1>1, <1>3, Zenon DEF AhciInv, AhciTypeOK, InStep, HasTable
<1>. QED
  BY <1>2, <1>4, <1>5, Zenon DEF AhciInv

\* Giving a page of the driver back leaves the bitmap one of pages.
LEMMA GaveBack ==
  ASSUME NEW page \in Pages, Gave(page), AhciInv
  PROVE  /\ pmm'.bitmap \subseteq Pages /\ held' \subseteq Pages
         /\ pmm'.bitmap \subseteq pmm.bitmap \cup {page}
  BY FreePageAdds DEF Gave, AhciInv, Owned

\* The table is given back when the port is done with it.
LEMMA CompletedInv == AhciInv /\ Completed => AhciInv'
<1>. SUFFICES ASSUME AhciInv, Completed PROVE AhciInv'
  BY Zenon
<1>1. /\ ahci.pc = "wait" /\ ~hba.CI
      /\ ahci' = [ahci EXCEPT !.pc = "finish", !.ct = NoPage, !.ok = ~hba.err]
      /\ Gave(ahci.ct)
      /\ UNCHANGED <<hba, page_data, disk, answer>>
  BY Zenon DEF Completed
<1>2. ahci.ct \in Pages /\ ahci.ct # ahci.buf
  BY <1>1, Zenon DEF AhciInv, Owned, HasTable
<1>3. AhciTypeOK'
  <2>1. PICK ok \in BOOLEAN : ok = ~hba.err
    BY Zenon
  <2>2. ahci' = [ahci EXCEPT !.pc = "finish", !.ct = NoPage, !.ok = ok]
    BY <1>1, <2>1, Zenon
  <2>3. UNCHANGED <<hba, page_data, disk>>
    BY <1>1, Zenon
  <2>. QED
    BY <2>2, <2>3, Zenon DEF AhciInv, AhciTypeOK, MaybePage
<1>4. Owned'
  BY <1>1, <1>2, GaveBack DEF AhciInv, AhciTypeOK, Owned, HasBuffer, HasTable
<1>5. ~ahci'.timedOut => InStep'
  <2>1. ahci'.ok => ~hba.err
    BY <1>1, Zenon DEF AhciInv, AhciTypeOK
  <2>. QED
    BY <1>1, <2>1, Zenon DEF AhciInv, AhciTypeOK, InStep, HasTable, ThisCommand
<1>. QED
  BY <1>3, <1>4, <1>5, Zenon DEF AhciInv

\* After a timeout only the pages of the bitmap are known to be pages.
LEMMA TimedOutInv == AhciInv /\ (TimedOut \/ Reissue) => AhciInv'
<1>1. ASSUME AhciInv, TimedOut PROVE AhciInv'
  <2>1. /\ ahci.pc = "wait"
        /\ ahci' = [ahci EXCEPT !.pc = "reissue", !.ct = NoPage, !.ok = FALSE,
                                !.timedOut = TRUE]
        /\ Gave(ahci.ct)
        /\ UNCHANGED <<hba, page_data, disk, answer>>
    BY <1>1, Zenon DEF TimedOut
  <2>2. ahci.ct \in Pages /\ ahci.ct # ahci.buf
    BY <1>1, <2>1, Zenon DEF AhciInv, Owned, HasTable
  <2>3. AhciTypeOK' /\ ahci'.timedOut
    BY <1>1, <2>1, Zenon DEF AhciInv, AhciTypeOK, MaybePage
  <2>4. Owned'
    BY <1>1, <2>1, <2>2, GaveBack DEF AhciInv, AhciTypeOK, Owned, HasBuffer, HasTable
  <2>. QED
    BY <2>3, <2>4, Zenon DEF AhciInv
<1>2. ASSUME AhciInv, Reissue PROVE AhciInv'
  <2>1. /\ ahci.pc = "reissue"
        /\ ahci' = [ahci EXCEPT !.pc = "finish"]
        /\ hba' = [hba EXCEPT !.CI = TRUE]
        /\ UNCHANGED <<pmm, held, page_data, disk, answer>>
    BY <1>2, Zenon DEF Reissue, frameVars
  <2>2. AhciTypeOK' /\ ahci'.timedOut
    BY <1>2, <2>1, Zenon DEF AhciInv, AhciTypeOK, InStep
  <2>3. Owned'
    BY <1>2, <2>1, Zenon DEF AhciInv, AhciTypeOK, Owned, HasBuffer, HasTable
  <2>. QED
    BY <2>2, <2>3, Zenon DEF AhciInv
<1>. QED
  BY <1>1, <1>2, Zenon

\* The buffer is given back after its content is the answer.
LEMMA FinishSectorInv == AhciInv /\ FinishSector => AhciInv'
<1>. SUFFICES ASSUME AhciInv, FinishSector PROVE AhciInv'
  BY Zenon
<1>1. /\ ahci.pc = "finish"
      /\ answer' = IF ahci.ok
                   THEN [ok |-> TRUE, op |-> ahci.op, lba |-> ahci.lba,
                         data |-> page_data[ahci.buf].data]
                   ELSE NoAnswer
      /\ ahci' = [ahci EXCEPT !.pc = "idle", !.buf = NoPage, !.op = "none", !.lba = 0,
                              !.ok = FALSE]
      /\ Gave(ahci.buf)
      /\ UNCHANGED <<hba, page_data, disk>>
  BY Zenon DEF FinishSector
<1>2. ahci.buf \in Pages /\ ahci.lba \in Lbas
  BY <1>1, Zenon DEF AhciInv, Owned, HasBuffer
<1>3. AhciTypeOK'
  BY <1>1, Zenon DEF AhciInv, AhciTypeOK, MaybePage
<1>4. Owned'
  BY <1>1, <1>2, GaveBack, Zenon DEF AhciInv, AhciTypeOK, Owned, HasBuffer, HasTable
<1>5. ~ahci'.timedOut => InStep'
  <2>1. answer'.ok => /\ ahci.ok /\ answer'.lba = ahci.lba
                      /\ answer'.data = page_data[ahci.buf].data
    BY <1>1, Zenon DEF NoAnswer
  <2>. QED
    BY <1>1, <1>2, <2>1, Zenon DEF AhciInv, AhciTypeOK, InStep, HasTable
<1>. QED
  BY <1>3, <1>4, <1>5, Zenon DEF AhciInv

\* The disk takes the command of the driver.
LEMMA DiskFetchInv == AhciInv /\ DiskFetch => AhciInv'
<1>. SUFFICES ASSUME AhciInv, DiskFetch PROVE AhciInv'
  BY Zenon
<1>1. /\ hba.CI /\ page_data[hba.slot].kind = "table"
      /\ hba' = [hba EXCEPT !.cmd = page_data[hba.slot]]
      /\ UNCHANGED <<pmm, held, ahci, page_data, disk, answer>>
  BY Zenon DEF DiskFetch, frameVars
<1>2. page_data[hba.slot] \in Tables
  BY <1>1, ContentsFacts, Zenon DEF AhciInv, AhciTypeOK, Owned
<1>3. AhciTypeOK'
  BY <1>1, <1>2, Zenon DEF AhciInv, AhciTypeOK
<1>4. Owned'
  BY <1>1, Zenon DEF AhciInv, AhciTypeOK, Owned, HasBuffer, HasTable
<1>5. ThisCommand' = ThisCommand
  BY <1>1, Zenon DEF ThisCommand
<1>6. ~ahci'.timedOut => InStep'
  BY <1>1, <1>5, Zenon DEF AhciInv, AhciTypeOK, InStep, HasTable
<1>. QED
  BY <1>3, <1>4, <1>6, Zenon DEF AhciInv

\* The sector moves between the disk and the driver's buffer; the table is
\* another page.
LEMMA DiskTransferInv == AhciInv /\ DiskTransfer => AhciInv'
<1>. SUFFICES ASSUME AhciInv, DiskTransfer PROVE AhciInv'
  BY Zenon
<1>. DEFINE cmd == hba.cmd
<1>1. /\ cmd # Other
      /\ hba' = [hba EXCEPT !.CI = FALSE, !.err = FALSE, !.cmd = Other]
      /\ UNCHANGED <<pmm, held, ahci, answer>>
  BY Zenon DEF DiskTransfer, frameVars
<1>2. \/ /\ cmd.op = "read"
         /\ page_data' = [page_data EXCEPT ![cmd.buf] = Sector(disk[cmd.lba])]
         /\ UNCHANGED disk
      \/ /\ cmd.op = "write"
         /\ disk' = [disk EXCEPT ![cmd.lba] = page_data[cmd.buf].data]
         /\ UNCHANGED page_data
  BY Zenon DEF DiskTransfer
<1>3. cmd \in Tables /\ cmd.buf \in Pages /\ cmd.lba \in Lbas
  BY <1>1, ContentsFacts, Zenon DEF AhciInv, AhciTypeOK
<1>4. /\ Sector(disk[cmd.lba]) \in Contents
      /\ Sector(disk[cmd.lba]).data = disk[cmd.lba]
      /\ page_data[cmd.buf].data \in AnyData
  BY <1>3, ContentsFacts, Zenon DEF AhciInv, AhciTypeOK
<1>5. page_data' \in [Pages -> Contents] /\ disk' \in [Lbas -> AnyData]
  BY <1>2, <1>3, <1>4 DEF AhciInv, AhciTypeOK
<1>6. page_data'[cmd.buf].data = disk'[cmd.lba]
  BY <1>2, <1>3, <1>4 DEF AhciInv, AhciTypeOK
<1>7. \A page \in Pages : page # cmd.buf => page_data'[page] = page_data[page]
  BY <1>2, <1>3, Zenon DEF AhciInv, AhciTypeOK
<1>8. AhciTypeOK'
  BY <1>1, <1>5, Zenon DEF AhciInv, AhciTypeOK
<1>9. Owned'
  BY <1>1, Zenon DEF AhciInv, AhciTypeOK, Owned, HasBuffer, HasTable
<1>10. ~ahci'.timedOut => InStep'
  <2>. SUFFICES ASSUME ~ahci.timedOut PROVE InStep'
    BY <1>1, Zenon
  <2>1. ahci.pc = "wait" /\ cmd = ThisCommand
    BY <1>1, Zenon DEF AhciInv, InStep
  <2>2. ahci.buf \in Pages /\ ahci.lba \in Lbas /\ ahci.op \in Ops
        /\ ahci.ct \in Pages /\ ahci.ct # ahci.buf
    BY <2>1, Zenon DEF AhciInv, Owned, HasBuffer, HasTable
  <2>3. cmd.buf = ahci.buf /\ cmd.lba = ahci.lba
    BY <2>1, <2>2, ContentsFacts DEF ThisCommand
  <2>4. page_data'[ahci.ct] = ThisCommand' /\ hba'.slot = ahci'.ct
    BY <1>1, <1>7, <2>1, <2>2, <2>3, Zenon DEF AhciInv, AhciTypeOK, InStep, HasTable, ThisCommand
  <2>5. page_data'[ahci'.buf].data = disk'[ahci'.lba]
    BY <1>1, <1>6, <2>3, Zenon
  <2>6. ~hba'.CI /\ hba'.cmd = Other /\ ~answer'.ok
    BY <1>1, <2>1, Zenon DEF AhciInv, AhciTypeOK, InStep
  <2>. QED
    BY <1>1, <2>1, <2>4, <2>5, <2>6, Zenon DEF InStep, HasTable
<1>. QED
  BY <1>8, <1>9, <1>10, Zenon DEF AhciInv

\* An error ends the command and moves nothing.
LEMMA DiskErrorInv == AhciInv /\ DiskError => AhciInv'
<1>. SUFFICES ASSUME AhciInv, DiskError PROVE AhciInv'
  BY Zenon
<1>1. /\ hba' = [hba EXCEPT !.CI = FALSE, !.err = TRUE, !.cmd = Other]
      /\ UNCHANGED <<pmm, held, ahci, page_data, disk, answer>>
  BY Zenon DEF DiskError, frameVars
<1>2. AhciTypeOK'
  BY <1>1, Zenon DEF AhciInv, AhciTypeOK
<1>3. Owned'
  BY <1>1, Zenon DEF AhciInv, AhciTypeOK, Owned, HasBuffer, HasTable
<1>4. ThisCommand' = ThisCommand
  BY <1>1, Zenon DEF ThisCommand
<1>5. ~ahci'.timedOut => InStep'
  BY <1>1, <1>4, Zenon DEF AhciInv, AhciTypeOK, InStep, HasTable
<1>. QED
  BY <1>2, <1>3, <1>5, Zenon DEF AhciInv

\* Between two commands the port uses none of the pages that change hands.
LEMMA OthersTakeInv == AhciInv /\ OthersTake => AhciInv'
<1>. SUFFICES ASSUME AhciInv, OthersTake PROVE AhciInv'
  BY Zenon
<1>. DEFINE got == alloc_page(pmm)
<1>1. /\ ahci.pc \in {"off", "idle"}
      /\ pmm' = got.pmm
      /\ held' = IF got.page = NoPage THEN held ELSE held \cup {got.page}
      /\ page_data' = [page \in Pages |-> IF page \in held' \ held THEN Other
                                          ELSE page_data[page]]
      /\ UNCHANGED <<ahci, hba, disk, answer>>
  BY Zenon DEF OthersTake, Between, AllocPage
<1>2. pmm.bitmap \subseteq Pages /\ held \subseteq Pages
  BY Zenon DEF AhciInv, Owned
<1>3. pmm'.bitmap \subseteq Pages /\ held' \subseteq Pages
  <2>1. CASE got.page = NoPage
    <3>1. pmm' = pmm /\ held' = held
      BY <1>1, <1>2, <2>1, AllocNone, Zenon
    <3>. QED
      BY <1>2, <3>1, Zenon
  <2>2. CASE got.page # NoPage
    BY <1>1, <1>2, <2>2, AllocPageTakes, Zenon
  <2>. QED
    BY <2>1, <2>2, Zenon
<1>. HIDE DEF got
<1>4. page_data' \in [Pages -> Contents]
  BY <1>1, ContentsFacts, Zenon DEF AhciInv, AhciTypeOK
<1>5. AhciTypeOK'
  BY <1>1, <1>4, Zenon DEF AhciInv, AhciTypeOK
<1>6. Owned'
  BY <1>1, <1>3, Zenon DEF AhciInv, AhciTypeOK, Owned, HasBuffer, HasTable
<1>7. ~ahci'.timedOut => InStep'
  BY <1>1, Zenon DEF AhciInv, AhciTypeOK, InStep, HasTable
<1>. QED
  BY <1>5, <1>6, <1>7, Zenon DEF AhciInv

\* Nor does a page given back matter to it.
LEMMA OthersGiveInv ==
  ASSUME NEW page \in held, AhciInv, OthersGive(page)
  PROVE  AhciInv'
<1>1. /\ ahci.pc \in {"off", "idle"}
      /\ Gave(page)
      /\ UNCHANGED <<ahci, hba, page_data, disk, answer>>
  BY Zenon DEF OthersGive, Between, FreePage, Gave, ahciVars
<1>2. page \in Pages
  BY Zenon DEF AhciInv, Owned
<1>3. AhciTypeOK'
  BY <1>1, Zenon DEF AhciInv, AhciTypeOK
<1>4. Owned'
  BY <1>1, <1>2, GaveBack, Zenon DEF AhciInv, AhciTypeOK, Owned, HasBuffer, HasTable
<1>5. ~ahci'.timedOut => InStep'
  BY <1>1, Zenon DEF AhciInv, AhciTypeOK, InStep, HasTable
<1>. QED
  BY <1>3, <1>4, <1>5, Zenon DEF AhciInv

-----------------------------------------------------------------------------

\* Every step keeps the invariant.
LEMMA AhciInvInductive == AhciSpec => []AhciInv
<1>1. AhciInv /\ [AhciNext]_<<frameVars, ahciVars>> => AhciInv'
  <2>. SUFFICES ASSUME AhciInv, [AhciNext]_<<frameVars, ahciVars>> PROVE AhciInv'
    BY Zenon
  <2>1. CASE UNCHANGED <<frameVars, ahciVars>>
    BY <2>1 DEF frameVars, ahciVars, AhciInv, AhciTypeOK, Owned, HasBuffer, HasTable,
                InStep, ThisCommand
  <2>2. ASSUME NEW lba \in Lbas, StartSector("read", lba, 0) PROVE AhciInv'
    BY <2>2, StartSectorInv, Zenon DEF Ops, AnyData
  <2>3. ASSUME NEW lba \in Lbas, NEW d \in SectorData, StartSector("write", lba, d)
        PROVE  AhciInv'
    BY <2>3, StartSectorInv, Zenon DEF Ops, AnyData
  <2>4. ASSUME NEW page \in held, OthersGive(page) PROVE AhciInv'
    BY <2>4, OthersGiveInv, Zenon
  <2>. QED
    BY <2>1, <2>2, <2>3, <2>4, InitPortInv, FillCommandInv, IssueInv, CompletedInv,
       TimedOutInv, FinishSectorInv, DiskFetchInv, DiskTransferInv, DiskErrorInv,
       OthersTakeInv, Zenon DEF AhciNext
<1>. QED
  BY <1>1, AhciInitInv, PTL DEF AhciSpec

\* Until a command times out, the disk reads and writes only pages that
\* issue_command, read_sector and write_sector have not given back.
THEOREM DiskUsesDriverPages == AhciSpec => []DmaInOwnPages
<1>1. AhciInv => DmaInOwnPages
  <2>. SUFFICES ASSUME AhciInv, ~ahci.timedOut, hba.CI \/ hba.cmd # Other
                PROVE  /\ hba.slot \in DriverPages
                       /\ hba.cmd # Other => hba.cmd.buf \in DriverPages
    BY Zenon DEF DmaInOwnPages
  <2>1. /\ ahci.pc = "wait" /\ hba.slot = ahci.ct
        /\ hba.cmd # Other => hba.cmd = ThisCommand
    BY Zenon DEF AhciInv, InStep, HasTable
  <2>2. /\ ahci.buf \in Pages /\ ahci.ct \in Pages
        /\ ahci.op \in Ops /\ ahci.lba \in Lbas
    BY <2>1, Zenon DEF AhciInv, Owned, HasBuffer, HasTable
  <2>3. ahci.buf \in DriverPages /\ ahci.ct \in DriverPages
    BY <2>2, NoPageIsNone, Zenon DEF DriverPages
  <2>4. ThisCommand.buf = ahci.buf
    BY <2>2, ContentsFacts DEF ThisCommand
  <2>. QED
    BY <2>1, <2>3, <2>4, Zenon
<1>. QED
  BY <1>1, AhciInvInductive, PTL

\* Until a command times out, a sector that read_sector returns is the sector
\* on the disk, and one that write_sector reports written is there.
THEOREM SectorsAreAnswered == AhciSpec => []AnswerIsTheSector
<1>1. AhciInv => AnswerIsTheSector
  BY Zenon DEF AhciInv, InStep, AnswerIsTheSector
<1>. QED
  BY <1>1, AhciInvInductive, PTL

-----------------------------------------------------------------------------
(* KernelHeap.  HeapDisjoint is inductive once the types of the blocks are  *)
(* known.                                                                   *)

Block == [addr : Nat, size : Nat]

HeapInv ==
  /\ heap \in Seq(Block)
  /\ live \subseteq [addr : Nat, layout : Layouts]
  /\ HeapDisjoint

-----------------------------------------------------------------------------
(* Sizes and addresses *)

\* Rounding up reaches a multiple of the alignment, at or above n.
LEMMA AlignUpFacts ==
  ASSUME NEW n \in Nat, NEW align \in Nat \ {0}
  PROVE  /\ AlignUp(n, align) \in Nat
         /\ AlignUp(n, align) >= n
         /\ AlignUp(n, align) % align = 0
<1> DEFINE m == n + align - 1
           q == m \div align
           r == m % align
<1>1. m \in Nat
  OBVIOUS
<1>2. q \in Int /\ r \in 0..(align - 1) /\ m = (align * q) + r
  <2> HIDE DEF m
  <2> QED BY <1>1, DivMod
<1>3. AlignUp(n, align) = q * align
  BY Zenon DEF AlignUp
<1> HIDE DEF q, r
<1>4. q * align = align * q /\ align * q \in Int
  BY <1>2
<1> DEFINE p == align * q
<1>5. p \in Int /\ p = m - r
  BY <1>1, <1>2, <1>4
<1>6. p >= n
  <2> HIDE DEF p
  <2> QED BY <1>2, <1>5
<1>7. (p + 0) % align = 0
  <2>1. 0 \in 0..(align - 1)
    OBVIOUS
  <2> QED
    BY <1>2, <2>1, ModDetermined, Zenon
<1>8. p % align = 0
  <2> HIDE DEF p
  <2> QED BY <1>5, <1>7
<1>9. AlignUp(n, align) = p
  BY <1>3, <1>4, Zenon
<1> HIDE DEF p
<1> QED
  BY <1>5, <1>6, <1>8, <1>9

\* Both allocate and deallocate compute a size that is at least the size the
\* caller asked for.
LEMMA BlockSizeNat ==
  ASSUME NEW layout \in Layouts
  PROVE  BlockSize(layout) \in Nat
<1> DEFINE n == IF layout.size < HeaderSize THEN HeaderSize ELSE layout.size
<1>1. n \in Nat /\ layout.align \in Nat \ {0}
  BY HeapAssumption, Zenon
<1> HIDE DEF n
<1>2. AlignUp(n, layout.align) \in Nat
  BY <1>1, AlignUpFacts, Zenon
<1> QED
  BY <1>2, Zenon DEF BlockSize, n

\* The block a first-fit search chooses holds the aligned allocation, and what
\* is left over lies behind it in the same block.
LEMMA FitsInside ==
  ASSUME NEW block \in Block, NEW layout \in Layouts, Remaining(block, layout) >= 0
  PROVE  LET at == AlignedAddr(block, layout)
             size == BlockSize(layout)
             left == Remaining(block, layout)
         IN  /\ at \in Nat /\ size \in Nat /\ left \in Nat
             /\ at % layout.align = 0
             /\ Extent(at, size) \subseteq Extent(block.addr, block.size)
             /\ Extent(at + size, left) \subseteq Extent(block.addr, block.size)
             /\ Extent(at + size, left) \cap Extent(at, size) = {}
<1> DEFINE at == AlignedAddr(block, layout)
           size == BlockSize(layout)
           left == Remaining(block, layout)
<1>1. block.addr \in Nat /\ block.size \in Nat /\ layout.align \in Nat \ {0}
  BY HeapAssumption, Zenon DEF Block
<1>2. at \in Nat /\ at >= block.addr /\ at % layout.align = 0
  BY <1>1, AlignUpFacts, Zenon DEF AlignedAddr
<1>3. size \in Nat
  BY BlockSizeNat, Zenon
<1>4. left = block.size - size - (at - block.addr)
  BY Zenon DEF Remaining
<1>5. left >= 0
  BY Zenon
<1> HIDE DEF at, size, left
<1>6. left \in Nat /\ at + size + left = block.addr + block.size
  BY <1>1, <1>2, <1>3, <1>4, <1>5
<1>7. /\ Extent(at, size) \subseteq Extent(block.addr, block.size)
      /\ Extent(at + size, left) \subseteq Extent(block.addr, block.size)
      /\ Extent(at + size, left) \cap Extent(at, size) = {}
  BY <1>1, <1>2, <1>3, <1>6 DEF Extent
<1> QED
  BY <1>2, <1>3, <1>6, <1>7, Zenon DEF at, size, left

-----------------------------------------------------------------------------
(* The operations *)

\* The heap starts as one block of all of it.
LEMMA HeapInitInv == HeapInit => HeapInv
<1> SUFFICES ASSUME HeapInit PROVE HeapInv
  BY Zenon
<1>1. /\ heap = <<[addr |-> 0, size |-> HeapSize]>> /\ live = {}
      /\ [addr |-> 0, size |-> HeapSize] \in Block
  BY HeapAssumption, Zenon DEF HeapInit, Block
<1>2. heap \in Seq(Block) /\ Len(heap) = 1 /\ DOMAIN heap = 1..1
  BY <1>1
<1>3. \A i \in DOMAIN heap : heap[i].addr = 0 /\ heap[i].size = HeapSize
  BY <1>1, <1>2
<1>4. Extent(0, HeapSize) \subseteq 0..(HeapSize - 1)
  BY HeapAssumption DEF Extent
<1>5. HeapDisjoint
  BY <1>1, <1>2, <1>3, <1>4 DEF HeapDisjoint
<1> QED
  BY <1>1, <1>2, <1>5, Zenon DEF HeapInv

\* allocate replaces the first block that fits by what it leaves over.
LEMMA AllocateInv ==
  ASSUME HeapInv, NEW layout \in Layouts, Allocate(layout)
  PROVE  HeapInv'
<1> DEFINE i == First(Fits(layout))
           at == AlignedAddr(heap[i], layout)
           size == BlockSize(layout)
           left == Remaining(heap[i], layout)
           rest == Leftover(heap[i], layout)
           n == Len(heap)
           new == [addr |-> at, layout |-> layout]
<1>1. heap \in Seq(Block) /\ n \in Nat /\ DOMAIN heap = 1..n
  BY LenProperties, Zenon DEF HeapInv
<1>2. i \in Fits(layout)
  <2>1. Fits(layout) \in SUBSET Nat /\ Fits(layout) # {}
    BY <1>1 DEF Fits, Allocate
  <2>2. \E p \in Fits(layout) : \A q \in Fits(layout) : p <= q
    BY <2>1, LeastExists, Zenon
  <2> QED
    BY <2>2, Zenon DEF First
<1>3. i \in 1..n /\ heap[i] \in Block /\ left >= 0
  BY <1>1, <1>2, ElementOfSeq, Zenon DEF Fits
<1>4. /\ at \in Nat /\ size \in Nat /\ left \in Nat /\ at % layout.align = 0
      /\ Extent(at, size) \subseteq Extent(heap[i].addr, heap[i].size)
      /\ Extent(at + size, left) \subseteq Extent(heap[i].addr, heap[i].size)
      /\ Extent(at + size, left) \cap Extent(at, size) = {}
  BY <1>3, FitsInside, Zenon
<1>5. /\ heap' = SubSeq(heap, 1, i - 1) \o rest \o SubSeq(heap, i + 1, n)
      /\ live' = live \cup {new}
  BY Zenon DEF Allocate
<1>6. \/ rest = <<[addr |-> at + size, size |-> left]>>
      \/ rest = << >>
  BY Zenon DEF Leftover
<1> HIDE DEF i, at, size, left, rest, n
\* Where each block of the new list comes from.
<1>7. /\ heap' \in Seq(Block)
      /\ \/ /\ DOMAIN heap' = 1..n
            /\ heap'[i] = [addr |-> at + size, size |-> left]
            /\ \A j \in 1..n : j # i => heap'[j] = heap[j]
         \/ /\ DOMAIN heap' = 1..(n - 1)
            /\ \A j \in 1..(n - 1) : heap'[j] = IF j < i THEN heap[j] ELSE heap[j + 1]
  <2> DEFINE low == SubSeq(heap, 1, i - 1)
             high == SubSeq(heap, i + 1, n)
  <2>1. /\ low \in Seq(Block) /\ Len(low) = i - 1
        /\ \A j \in 1..(i - 1) : low[j] = heap[j]
    BY <1>1, <1>3 DEF n
  <2>2. /\ high \in Seq(Block) /\ Len(high) = n - i
        /\ \A j \in 1..(n - i) : high[j] = heap[i + j]
    <3> DEFINE m == i + 1
    <3>1. m \in Int /\ n \in Int /\ n - m + 1 = n - i /\ (m <= n <=> i < n)
      BY <1>1, <1>3
    <3>2. \A j \in m..n : heap[j] \in Block
      BY <1>1, <1>3, ElementOfSeq DEF n
    <3> HIDE DEF m
    <3>3. /\ SubSeq(heap, m, n) \in Seq(Block)
          /\ Len(SubSeq(heap, m, n)) = IF m <= n THEN n - m + 1 ELSE 0
          /\ \A j \in 1..(n - m + 1) : SubSeq(heap, m, n)[j] = heap[m + j - 1]
      BY <3>1, <3>2, SubSeqProperties
    <3>4. \A j \in 1..(n - i) : m + j - 1 = i + j
      BY <1>1, <1>3 DEF m
    <3> QED
      BY <1>1, <1>3, <3>1, <3>3, <3>4 DEF m
  <2>3. CASE rest = <<[addr |-> at + size, size |-> left]>>
    <3> DEFINE block == [addr |-> at + size, size |-> left]
    <3>1. block \in Block
      BY <1>4 DEF Block
    <3> HIDE DEF low, high, block
    <3>2. rest = <<block>> /\ rest \in Seq(Block) /\ Len(rest) = 1 /\ rest[1] = block
      BY <2>3, <3>1 DEF block
    <3>3. /\ low \o rest \in Seq(Block) /\ Len(low \o rest) = i
          /\ (low \o rest)[i] = block
          /\ \A j \in 1..(i - 1) : (low \o rest)[j] = heap[j]
      BY <1>1, <1>3, <2>1, <3>2
    <3> DEFINE front == low \o rest
    <3> HIDE DEF front
    <3>4. front \in Seq(Block) /\ Len(front) = i /\ front[i] = block
          /\ \A j \in 1..(i - 1) : front[j] = heap[j]
      BY <3>3, Zenon DEF front
    <3>5. heap' = front \o high
      BY <1>5, Zenon DEF front, low, high
    <3>6. heap' \in Seq(Block) /\ Len(heap') = n
      <4>1. heap' \in Seq(Block) /\ Len(heap') = Len(front) + Len(high)
        BY <2>2, <3>4, <3>5, ConcatProperties, Zenon
      <4> QED
        BY <1>1, <1>3, <2>2, <3>4, <4>1
    <3>7. heap'[i] = block
      BY <1>1, <1>3, <2>2, <3>4, <3>5
    <3>8. ASSUME NEW j \in 1..n, j # i PROVE heap'[j] = heap[j]
      <4>1. CASE j < i
        BY <1>1, <1>3, <2>2, <3>4, <3>5, <4>1
      <4>2. CASE j > i
        <5>1. heap'[j] = high[j - i] /\ j - i \in 1..(n - i)
          BY <1>1, <1>3, <2>2, <3>4, <3>5, <4>2
        <5>2. i + (j - i) = j
          BY <1>3
        <5> QED
          BY <2>2, <5>1, <5>2, Zenon
      <4> QED
        BY <1>3, <3>8, <4>1, <4>2
    <3>9. DOMAIN heap' = 1..n
      BY <3>6
    <3> QED
      BY <3>6, <3>7, <3>8, <3>9, Zenon DEF block
  <2>4. CASE rest = << >>
    <3> HIDE DEF low, high
    <3>1. low \o rest = low
      BY <2>1, <2>4
    <3>2. heap' = low \o high
      BY <1>5, <3>1, Zenon DEF low, high
    <3>3. heap' \in Seq(Block) /\ Len(heap') = n - 1
      <4>1. heap' \in Seq(Block) /\ Len(heap') = Len(low) + Len(high)
        BY <2>1, <2>2, <3>2, ConcatProperties, Zenon
      <4> QED
        BY <1>1, <1>3, <2>1, <2>2, <4>1
    <3>4. ASSUME NEW j \in 1..(n - 1)
          PROVE  heap'[j] = IF j < i THEN heap[j] ELSE heap[j + 1]
      <4>1. CASE j < i
        BY <1>1, <1>3, <2>1, <2>2, <3>2, <4>1
      <4>2. CASE j >= i
        <5>1. heap'[j] = high[j - (i - 1)] /\ j - (i - 1) \in 1..(n - i)
          BY <1>1, <1>3, <2>1, <2>2, <3>2, <4>2
        <5>2. i + (j - (i - 1)) = j + 1
          BY <1>3
        <5> QED
          BY <1>3, <2>2, <4>2, <5>1, <5>2
      <4> QED
        BY <1>3, <4>1, <4>2
    <3>5. DOMAIN heap' = 1..(n - 1)
      BY <1>1, <1>3, <3>3
    <3> QED
      BY <3>3, <3>4, <3>5, Zenon
  <2> QED
    BY <1>6, <2>3, <2>4, Zenon
<1> DEFINE Ext(b) == Extent(b.addr, b.size)
<1>8. \E origin \in [DOMAIN heap' -> 1..n] :
        /\ \A j, k \in DOMAIN heap' : j # k => origin[j] # origin[k]
        /\ \A j \in DOMAIN heap' :
             /\ Ext(heap'[j]) \subseteq Ext(heap[origin[j]])
             /\ origin[j] = i => Ext(heap'[j]) \cap Extent(at, size) = {}
  <2>1. CASE /\ DOMAIN heap' = 1..n
             /\ heap'[i] = [addr |-> at + size, size |-> left]
             /\ \A j \in 1..n : j # i => heap'[j] = heap[j]
    <3>1. Ext(heap'[i]) = Extent(at + size, left)
      BY <2>1
    <3> HIDE DEF Ext
    <3>2. \A j \in 1..n : /\ Ext(heap'[j]) \subseteq Ext(heap[j])
                          /\ j = i => Ext(heap'[j]) \cap Extent(at, size) = {}
      BY <1>4, <2>1, <3>1, Zenon DEF Ext
    <3>3. [j \in 1..n |-> j] \in [DOMAIN heap' -> 1..n]
      BY <2>1, Zenon
    <3> QED
      BY <2>1, <3>2, <3>3, Zenon
  <2>2. CASE /\ DOMAIN heap' = 1..(n - 1)
             /\ \A j \in 1..(n - 1) : heap'[j] = IF j < i THEN heap[j] ELSE heap[j + 1]
    <3> DEFINE origin == [j \in 1..(n - 1) |-> IF j < i THEN j ELSE j + 1]
    <3>1. origin \in [DOMAIN heap' -> 1..n]
      BY <1>1, <1>3, <2>2
    <3>2. \A j, k \in 1..(n - 1) : j # k => origin[j] # origin[k]
      BY <1>3
    <3>3. \A j \in 1..(n - 1) : origin[j] # i /\ heap'[j] = heap[origin[j]]
      BY <1>3, <2>2
    <3> HIDE DEF origin, Ext
    <3> QED
      BY <2>2, <3>1, <3>2, <3>3, ZenonT(40)
  <2> QED
    BY <1>7, <2>1, <2>2, Zenon
<1>9. PICK origin \in [DOMAIN heap' -> 1..n] :
        /\ \A j, k \in DOMAIN heap' : j # k => origin[j] # origin[k]
        /\ \A j \in DOMAIN heap' :
             /\ Ext(heap'[j]) \subseteq Ext(heap[origin[j]])
             /\ origin[j] = i => Ext(heap'[j]) \cap Extent(at, size) = {}
  BY <1>8, Zenon
<1> DEFINE Own(a) == Extent(a.addr, BlockSize(a.layout))
           All == 0..(HeapSize - 1)
<1>10. /\ \A j, k \in 1..n : j # k => Ext(heap[j]) \cap Ext(heap[k]) = {}
       /\ \A j \in 1..n : Ext(heap[j]) \subseteq All
       /\ \A a \in live : /\ Own(a) \subseteq All
                          /\ a.addr % a.layout.align = 0
                          /\ \A j \in 1..n : Own(a) \cap Ext(heap[j]) = {}
                          /\ \A b \in live : b # a => Own(a) \cap Own(b) = {}
  BY <1>1, Zenon DEF HeapInv, HeapDisjoint
<1>11. Own(new) = Extent(at, size) /\ new.addr % new.layout.align = 0
  BY <1>4, Zenon DEF size
<1>12. Own(new) \subseteq Ext(heap[i])
  BY <1>4, <1>11, Zenon
<1> HIDE DEF Ext, Own, All, new
<1>13. \A j, k \in DOMAIN heap' : j # k => Ext(heap'[j]) \cap Ext(heap'[k]) = {}
  BY <1>9, <1>10, Zenon
<1>14. \A j \in DOMAIN heap' : Ext(heap'[j]) \subseteq All
  BY <1>9, <1>10, Zenon
<1>15. \A j \in DOMAIN heap' : Own(new) \cap Ext(heap'[j]) = {}
  BY <1>3, <1>9, <1>10, <1>11, <1>12
<1>16. \A a \in live : /\ \A j \in DOMAIN heap' : Own(a) \cap Ext(heap'[j]) = {}
                       /\ Own(a) \cap Own(new) = {}
  BY <1>3, <1>9, <1>10, <1>12, Zenon
<1>17. \A a \in live' : /\ Own(a) \subseteq All
                        /\ a.addr % a.layout.align = 0
                        /\ \A j \in DOMAIN heap' : Own(a) \cap Ext(heap'[j]) = {}
                        /\ \A b \in live' : b # a => Own(a) \cap Own(b) = {}
  <2>1. /\ Own(new) \subseteq All /\ new.addr % new.layout.align = 0
        /\ \A j \in DOMAIN heap' : Own(new) \cap Ext(heap'[j]) = {}
        /\ \A b \in live' : b # new => Own(new) \cap Own(b) = {}
    <3>1. Own(new) \subseteq All
      BY <1>3, <1>10, <1>12, Zenon
    <3>2. \A b \in live' : b # new => Own(new) \cap Own(b) = {}
      BY <1>5, <1>16, Zenon
    <3> QED
      BY <1>11, <1>15, <3>1, <3>2, Zenon
  <2>2. ASSUME NEW a \in live
        PROVE  /\ Own(a) \subseteq All /\ a.addr % a.layout.align = 0
               /\ \A j \in DOMAIN heap' : Own(a) \cap Ext(heap'[j]) = {}
               /\ \A b \in live' : b # a => Own(a) \cap Own(b) = {}
    <3>1. Own(a) \subseteq All /\ a.addr % a.layout.align = 0
      BY <1>10, Zenon
    <3>2. \A b \in live' : b # a => Own(a) \cap Own(b) = {}
      BY <1>5, <1>10, <1>16, Zenon
    <3> QED
      BY <1>16, <3>1, <3>2, Zenon
  <2>3. \A a : a \in live' => a = new \/ a \in live
    BY <1>5, Zenon
  <2> QED
    BY <2>1, <2>2, <2>3, Zenon
<1>18. HeapDisjoint'
  BY <1>13, <1>14, <1>17, Zenon DEF HeapDisjoint, Ext, Own, All
<1>19. live' \subseteq [addr : Nat, layout : Layouts]
  BY <1>4, <1>5 DEF new, HeapInv
<1> QED
  BY <1>7, <1>18, <1>19, Zenon DEF HeapInv

\* deallocate puts the extent it got back in front of the list.
LEMMA DeallocateInv ==
  ASSUME HeapInv, NEW a \in live, Deallocate(a)
  PROVE  HeapInv'
<1> DEFINE block == [addr |-> a.addr, size |-> BlockSize(a.layout)]
           n == Len(heap)
<1>1. heap \in Seq(Block) /\ n \in Nat /\ DOMAIN heap = 1..n
  BY LenProperties, Zenon DEF HeapInv
<1>2. block \in Block
  BY BlockSizeNat, Zenon DEF HeapInv, Block
<1>3. heap' = <<block>> \o heap /\ live' = live \ {a}
  BY Zenon DEF Deallocate
<1> DEFINE Ext(b) == Extent(b.addr, b.size)
           Own(b) == Extent(b.addr, BlockSize(b.layout))
           All == 0..(HeapSize - 1)
<1>4. /\ \A j, k \in 1..n : j # k => Ext(heap[j]) \cap Ext(heap[k]) = {}
      /\ \A j \in 1..n : Ext(heap[j]) \subseteq All
      /\ \A c \in live : /\ Own(c) \subseteq All
                         /\ c.addr % c.layout.align = 0
                         /\ \A j \in 1..n : Own(c) \cap Ext(heap[j]) = {}
                         /\ \A b \in live : b # c => Own(c) \cap Own(b) = {}
  BY <1>1, Zenon DEF HeapInv, HeapDisjoint
<1>5. Ext(block) = Own(a)
  BY Zenon
<1> HIDE DEF block, n, Ext, Own, All
<1>6. /\ heap' \in Seq(Block) /\ DOMAIN heap' = 1..(n + 1)
      /\ heap'[1] = block
      /\ \A j \in 2..(n + 1) : heap'[j] = heap[j - 1]
  BY <1>1, <1>2, <1>3 DEF n
<1>7. \A j \in 1..(n + 1) : j = 1 \/ (j \in 2..(n + 1) /\ j - 1 \in 1..n)
  BY <1>1
<1>8. \A j, k \in 1..(n + 1) : j # k => Ext(heap'[j]) \cap Ext(heap'[k]) = {}
  <2> SUFFICES ASSUME NEW j \in 1..(n + 1), NEW k \in 1..(n + 1), j # k
               PROVE  Ext(heap'[j]) \cap Ext(heap'[k]) = {}
    BY Zenon
  <2>1. CASE j # 1 /\ k # 1
    <3>1. j - 1 # k - 1 /\ j - 1 \in 1..n /\ k - 1 \in 1..n
      BY <1>1, <2>1
    <3> QED
      BY <1>4, <1>6, <1>7, <2>1, <3>1, Zenon
  <2>2. CASE j = 1 \/ k = 1
    BY <1>4, <1>5, <1>6, <1>7, <2>2
  <2> QED
    BY <2>1, <2>2, Zenon
<1>9. \A j \in 1..(n + 1) : Ext(heap'[j]) \subseteq All
  BY <1>4, <1>5, <1>6, <1>7
<1>10. \A c \in live' : \A j \in 1..(n + 1) : Own(c) \cap Ext(heap'[j]) = {}
  BY <1>3, <1>4, <1>5, <1>6, <1>7, Zenon
<1>11. HeapDisjoint'
  <2>1. \A c \in live' : /\ Own(c) \subseteq All
                         /\ c.addr % c.layout.align = 0
                         /\ \A b \in live' : b # c => Own(c) \cap Own(b) = {}
    BY <1>3, <1>4, Zenon
  <2> QED
    BY <1>6, <1>8, <1>9, <1>10, <2>1, Zenon DEF HeapDisjoint, Ext, Own, All
<1>12. live' \subseteq [addr : Nat, layout : Layouts]
  BY <1>3, Zenon DEF HeapInv
<1> QED
  BY <1>6, <1>11, <1>12, Zenon DEF HeapInv

-----------------------------------------------------------------------------

\* However allocate and deallocate follow one another, no two allocations
\* overlap, none overlaps a free block, and all lie in the heap, aligned.
THEOREM HeapNeverOverlaps == HeapSpec => []HeapDisjoint
<1>1. HeapInit => HeapInv
  BY HeapInitInv, Zenon
<1>2. HeapInv /\ [HeapNext]_heapVars => HeapInv'
  <2> SUFFICES ASSUME HeapInv, [HeapNext]_heapVars PROVE HeapInv'
    BY Zenon
  <2>1. CASE \E layout \in Layouts : Allocate(layout)
    BY <2>1, AllocateInv, Zenon
  <2>2. CASE \E a \in live : Deallocate(a)
    BY <2>2, DeallocateInv, Zenon
  <2>3. CASE UNCHANGED heapVars
    BY <2>3, Zenon DEF heapVars, HeapInv, HeapDisjoint
  <2> QED
    BY <2>1, <2>2, <2>3, Zenon DEF HeapNext, AllocateNull
<1>3. HeapInv => HeapDisjoint
  BY Zenon DEF HeapInv
<1> QED
  BY <1>1, <1>2, <1>3, PTL DEF HeapSpec

-----------------------------------------------------------------------------
(* ObjectStore: sums over finite sets *)

\* The element SumFunction takes first.
Pick(s) == CHOOSE x \in s : TRUE

\* F[s] is the sum of w over s, for every subset s of S.
Adds(F, S, w) ==
  /\ F[{}] = 0
  /\ \A s \in SUBSET S : s # {} => F[s] = w[Pick(s)] + F[s \ {Pick(s)}]

\* The same, with integer values.
IsSum(F, S, w) == F \in [SUBSET S -> Int] /\ Adds(F, S, w)

\* It is in the set.
LEMMA PickIn == ASSUME NEW s, s # {} PROVE Pick(s) \in s
  BY Zenon DEF Pick

\* The recursion in SumFunction has a solution.
LEMMA SumExists ==
  ASSUME NEW S, IsFiniteSet(S), NEW w \in [S -> Int]
  PROVE  \E F : IsSum(F, S, w)
<1> DEFINE N == Cardinality(S)
           V == [SUBSET S -> Int]
           base == [s \in SUBSET S |-> 0]
           Up(F) == [s \in SUBSET S |-> IF s = {} THEN 0 ELSE w[Pick(s)] + F[s \ {Pick(s)}]]
           step == [n \in 1..N |-> [F \in V |-> Up(F)]]
<1>1. N \in Nat
  BY FS_CardinalityType, Zenon
<1>2. ASSUME NEW F \in V PROVE Up(F) \in V
  <2>1. ASSUME NEW s \in SUBSET S, s # {} PROVE w[Pick(s)] + F[s \ {Pick(s)}] \in Int
    <3>1. Pick(s) \in S /\ s \ {Pick(s)} \in SUBSET S
      BY <2>1, PickIn, Zenon
    <3> QED
      BY <3>1
  <2> QED
    BY <2>1
<1>3. base \in V /\ step \in [1..N -> [V -> V]]
  <2>1. base \in V
    OBVIOUS
  <2> HIDE DEF V, Up, base, N
  <2>2. [F \in V |-> Up(F)] \in [V -> V]
    BY <1>2, Zenon
  <2> QED
    BY <2>1, <2>2, Zenon
<1>4. \A n \in 1..N, F \in V : step[n][F] = Up(F)
  BY Zenon
<1>5. ASSUME NEW F \in V, NEW s \in SUBSET S
      PROVE  Up(F)[s] = IF s = {} THEN 0 ELSE w[Pick(s)] + F[s \ {Pick(s)}]
  BY Zenon
<1>6. base[{}] = 0
  BY Zenon
<1> HIDE DEF N, V, base, Up, step
<1>7. PICK k : IsRecursion(N, V, base, step, k)
  BY <1>1, <1>3, RecursionExists, Zenon
<1>8. /\ \A n \in 0..N : k[n] \in V
      /\ \A n \in 1..N : k[n] = Up(k[n - 1])
  BY <1>1, <1>4, <1>7 DEF IsRecursion
<1> DEFINE P == {n \in 0..N : \A s \in SUBSET S : Cardinality(s) <= n => Up(k[n])[s] = k[n][s]}
<1>9. 0 \in P
  <2>1. ASSUME NEW s \in SUBSET S, Cardinality(s) <= 0 PROVE Up(k[0])[s] = k[0][s]
    <3>1. IsFiniteSet(s) /\ Cardinality(s) \in Nat
      BY FS_Subset, FS_CardinalityType, Zenon
    <3>2. s = {}
      BY <2>1, <3>1, FS_EmptySet
    <3>3. k[0] = base /\ k[0] \in V
      BY <1>3, <1>7, Zenon DEF IsRecursion
    <3> QED
      BY <1>5, <1>6, <3>2, <3>3, Zenon
  <2> QED
    BY <1>1, <2>1
<1>10. ASSUME NEW n \in 1..N, n - 1 \in P PROVE n \in P
  <2>1. n - 1 \in 0..N /\ n \in 0..N /\ n \in Nat /\ k[n] = Up(k[n - 1]) /\ k[n] \in V /\ k[n - 1] \in V
    BY <1>1, <1>8
  <2>2. ASSUME NEW s \in SUBSET S, Cardinality(s) <= n PROVE Up(k[n])[s] = k[n][s]
    <3>1. CASE s = {}
      BY <1>5, <2>1, <3>1, Zenon
    <3>2. CASE s # {}
      <4> DEFINE t == s \ {Pick(s)}
      <4>1. Pick(s) \in s /\ t \in SUBSET S /\ IsFiniteSet(s)
        BY <3>2, PickIn, FS_Subset, Zenon
      <4>2. Cardinality(t) <= n - 1
        <5>1. Cardinality(s) \in Nat /\ Cardinality(t) = Cardinality(s) - 1
          BY <4>1, FS_RemoveElement, FS_CardinalityType, Zenon
        <5> QED
          BY <2>1, <2>2, <5>1
      <4> HIDE DEF t
      <4>3. Up(k[n - 1])[t] = k[n - 1][t]
        BY <1>10, <4>1, <4>2, Zenon
      <4>4. Up(k[n])[s] = w[Pick(s)] + k[n][t]
        BY <1>5, <2>1, <3>2, Zenon DEF t
      <4>5. k[n][s] = w[Pick(s)] + k[n - 1][t]
        BY <1>5, <2>1, <3>2, Zenon DEF t
      <4> QED
        BY <2>1, <4>3, <4>4, <4>5, Zenon
    <3> QED
      BY <3>1, <3>2, Zenon
  <2> QED
    BY <2>1, <2>2, Zenon
<1>11. N \in P
  <2> HIDE DEF P
  <2>1. \A n \in 0..N : n \in P
    BY <1>1, <1>9, <1>10, SetInduction, Zenon
  <2> QED
    BY <1>1, <2>1
<1>12. k[N] \in V /\ \A s \in SUBSET S : Up(k[N])[s] = k[N][s]
  <2>1. \A s \in SUBSET S : Cardinality(s) <= N
    BY FS_Subset, Zenon DEF N
  <2> QED
    BY <1>1, <1>8, <1>11, <2>1, Zenon
<1>13. IsSum(k[N], S, w)
  <2>1. {} \in SUBSET S
    BY Zenon
  <2>2. k[N][{}] = 0
    BY <1>5, <1>12, <2>1, Zenon
  <2>3. \A s \in SUBSET S : s # {} => k[N][s] = w[Pick(s)] + k[N][s \ {Pick(s)}]
    BY <1>5, <1>12, Zenon
  <2> QED
    BY <1>12, <2>2, <2>3, Zenon DEF IsSum, Adds, V
<1> QED
  BY <1>13, Zenon

\* Sums of the same values are the same.
LEMMA SameSum ==
  ASSUME NEW S, NEW T, NEW v, NEW w, NEW F, NEW G, Adds(F, S, v), Adds(G, T, w),
         NEW U \in SUBSET (S \cap T), IsFiniteSet(U), \A x \in U : v[x] = w[x]
  PROVE  F[U] = G[U]
<1> DEFINE N == Cardinality(U)
           P == {n \in 0..N : \A s \in SUBSET U : Cardinality(s) <= n => F[s] = G[s]}
<1>1. N \in Nat
  BY FS_CardinalityType, Zenon
<1>2. \A s \in SUBSET U : IsFiniteSet(s) /\ Cardinality(s) \in Nat /\ Cardinality(s) <= N
  BY FS_Subset, FS_CardinalityType, Zenon
<1> HIDE DEF N
<1>3. 0 \in P
  <2>1. \A s \in SUBSET U : Cardinality(s) <= 0 => s = {}
    BY <1>2, FS_EmptySet
  <2>2. F[{}] = G[{}]
    BY Zenon DEF Adds
  <2> QED
    BY <1>1, <2>1, <2>2
<1>4. ASSUME NEW n \in 1..N, n - 1 \in P PROVE n \in P
  <2>1. ASSUME NEW s \in SUBSET U, Cardinality(s) <= n PROVE F[s] = G[s]
    <3>1. CASE s = {}
      BY <3>1, Zenon DEF Adds
    <3>2. CASE s # {}
      <4> DEFINE t == s \ {Pick(s)}
      <4>1. Pick(s) \in s /\ t \in SUBSET U /\ s \in SUBSET S /\ s \in SUBSET T
        BY <3>2, PickIn, Zenon
      <4>2. Cardinality(t) <= n - 1
        <5>1. Cardinality(s) \in Nat /\ Cardinality(t) = Cardinality(s) - 1
          BY <1>2, <4>1, FS_RemoveElement
        <5> QED
          BY <1>1, <2>1, <5>1
      <4> HIDE DEF t
      <4>3. F[t] = G[t] /\ v[Pick(s)] = w[Pick(s)]
        BY <1>4, <4>1, <4>2, Zenon
      <4>4. F[s] = v[Pick(s)] + F[t] /\ G[s] = w[Pick(s)] + G[t]
        BY <3>2, <4>1, Zenon DEF Adds, t
      <4> QED
        BY <4>3, <4>4, Zenon
    <3> QED
      BY <3>1, <3>2, Zenon
  <2> QED
    BY <1>1, <2>1
<1>5. N \in P
  <2> HIDE DEF P
  <2>1. \A n \in 0..N : n \in P
    BY <1>1, <1>3, <1>4, SetInduction, Zenon
  <2> QED
    BY <1>1, <2>1
<1> QED
  BY <1>2, <1>5, Zenon

\* SumFunction is a sum.
LEMMA SumIs ==
  ASSUME NEW S, IsFiniteSet(S), NEW w \in [S -> Int]
  PROVE  \E F : IsSum(F, S, w) /\ SumFunction(w) = F[S]
<1> DEFINE Equation(F) == F = [s \in SUBSET S |-> IF s = {} THEN 0
                                                  ELSE w[Pick(s)] + F[s \ {Pick(s)}]]
           chosen == CHOOSE F : Equation(F)
<1>1. PICK F : IsSum(F, S, w)
  BY SumExists, Zenon
<1>2. Equation(F)
  BY <1>1, Zenon DEF IsSum, Adds
<1>3. Equation(chosen)
  BY <1>2, Zenon
<1>4. SumFunction(w) = chosen[S]
  <2>1. DOMAIN w = S
    BY Zenon
  <2> QED
    BY <2>1, Zenon DEF SumFunction, SumFunctionOnSet, FoldFunctionOnSet, MapThenFoldSet, Pick
<1> HIDE DEF chosen
<1>5. Adds(chosen, S, w)
  BY <1>3, Zenon DEF Adds
<1>6. chosen[S] = F[S]
  BY <1>1, <1>5, SameSum DEF IsSum
<1> QED
  BY <1>1, <1>4, <1>6, Zenon

\* A sum does not depend on the order: any element may be taken first.
LEMMA SumAnyOrder ==
  ASSUME NEW S, IsFiniteSet(S), NEW w \in [S -> Int], NEW F, IsSum(F, S, w)
  PROVE  \A x \in S : F[S] = w[x] + F[S \ {x}]
<1> DEFINE N == Cardinality(S)
           Free(s) == \A x \in s : F[s] = w[x] + F[s \ {x}]
           P == {n \in 0..N : \A s \in SUBSET S : Cardinality(s) <= n => Free(s)}
<1>1. N \in Nat
  BY FS_CardinalityType, Zenon
<1>2. \A s \in SUBSET S : IsFiniteSet(s) /\ Cardinality(s) \in Nat /\ Cardinality(s) <= N
  BY FS_Subset, FS_CardinalityType, Zenon
<1> HIDE DEF N
<1>3. 0 \in P
  <2>1. \A s \in SUBSET S : Cardinality(s) <= 0 => s = {}
    BY <1>2, FS_EmptySet
  <2>2. Free({})
    BY Zenon
  <2> HIDE DEF Free
  <2> QED
    BY <1>1, <2>1, <2>2
<1>4. ASSUME NEW n \in 1..N, n - 1 \in P PROVE n \in P
  <2>1. ASSUME NEW s \in SUBSET S, Cardinality(s) <= n, NEW x \in s
        PROVE  F[s] = w[x] + F[s \ {x}]
    <3> DEFINE y == Pick(s)
               t == s \ {y}
               u == s \ {x}
    <3>1. y \in s /\ t \in SUBSET S /\ u \in SUBSET S /\ x \in S /\ y \in S
      BY PickIn, Zenon
    <3>2. F[s] = w[y] + F[t]
      BY Zenon DEF IsSum, Adds
    <3>3. CASE x = y
      BY <3>2, <3>3, Zenon
    <3>4. CASE x # y
      <4>1. Cardinality(t) <= n - 1 /\ Cardinality(u) <= n - 1
        <5>1. /\ Cardinality(s) \in Nat /\ Cardinality(t) = Cardinality(s) - 1
              /\ Cardinality(u) = Cardinality(s) - 1
          BY <1>2, <3>1, FS_RemoveElement, Zenon
        <5> QED
          BY <1>1, <2>1, <5>1
      <4>2. x \in t /\ y \in u /\ t \ {x} = u \ {y} /\ t \ {x} \in SUBSET S
        BY <3>1, <3>4, Zenon
      <4> HIDE DEF y, t, u, Free
      <4>6. Free(t) /\ Free(u)
        BY <1>4, <3>1, <4>1, Zenon
      <4>3. F[t] = w[x] + F[t \ {x}] /\ F[u] = w[y] + F[u \ {y}]
        BY <4>2, <4>6, Zenon DEF Free
      <4>4. w[x] \in Int /\ w[y] \in Int /\ F[t \ {x}] \in Int
        BY <3>1, <4>2, Zenon DEF IsSum
      <4>7. F[u \ {y}] = F[t \ {x}]
        BY <4>2, Zenon
      <4>5. F[s] = w[x] + F[u]
        BY <3>2, <4>3, <4>4, <4>7
      <4> QED
        BY <4>5, Zenon DEF u
    <3> QED
      BY <3>3, <3>4, Zenon
  <2> QED
    BY <1>1, <2>1
<1>5. N \in P
  <2> HIDE DEF P
  <2>1. \A n \in 0..N : n \in P
    BY <1>1, <1>3, <1>4, SetInduction, Zenon
  <2> QED
    BY <1>1, <2>1
<1> QED
  BY <1>2, <1>5, Zenon

\* What SumFunction is, one element at a time.
LEMMA SumFacts ==
  ASSUME NEW S, IsFiniteSet(S), NEW w \in [S -> Int]
  PROVE  /\ SumFunction(w) \in Int
         /\ S = {} => SumFunction(w) = 0
         /\ \A x \in S : SumFunction(w) = w[x] + SumFunction([y \in S \ {x} |-> w[y]])
<1>1. PICK F : IsSum(F, S, w) /\ SumFunction(w) = F[S]
  BY SumIs, Zenon
<1>2. SumFunction(w) \in Int
  <2>1. S \in SUBSET S
    BY Zenon
  <2> QED
    BY <1>1, <2>1 DEF IsSum
<1>3. S = {} => SumFunction(w) = 0
  BY <1>1, Zenon DEF IsSum, Adds
<1>4. ASSUME NEW x \in S
      PROVE  SumFunction(w) = w[x] + SumFunction([y \in S \ {x} |-> w[y]])
  <2> DEFINE T == S \ {x}
             v == [y \in T |-> w[y]]
  <2>1. IsFiniteSet(T) /\ v \in [T -> Int] /\ T \in SUBSET (S \cap T) /\ \A y \in T : w[y] = v[y]
    BY FS_RemoveElement, Zenon
  <2>2. F[S] = w[x] + F[T]
    BY <1>1, SumAnyOrder
  <2> HIDE DEF T, v
  <2>3. PICK G : IsSum(G, T, v) /\ SumFunction(v) = G[T]
    BY <2>1, SumIs, Zenon
  <2>4. F[T] = G[T]
    BY <1>1, <2>1, <2>3, SameSum DEF IsSum
  <2> QED
    BY <1>1, <2>2, <2>3, <2>4, Zenon DEF v, T
<1> QED
  BY <1>2, <1>3, <1>4, Zenon

-----------------------------------------------------------------------------
(* Maps and objects *)

\* Removing a key leaves the others.
LEMMA WithoutFacts ==
  ASSUME NEW f, NEW x
  PROVE  /\ DOMAIN Without(f, x) = DOMAIN f \ {x}
         /\ \A z \in DOMAIN f : z # x => Without(f, x)[z] = f[z]
  BY Zenon DEF Without

\* An object of the store.
Object(o) ==
  /\ o = [data |-> o.data, ref_count |-> o.ref_count]
  /\ o.data \in DOMAIN Data /\ o.ref_count \in Nat

\* The map of a store.
Objects(objs) ==
  /\ objs = [h \in DOMAIN objs |-> objs[h]] /\ IsFiniteSet(DOMAIN objs)
  /\ \A h \in DOMAIN objs : Object(objs[h])

\* The same content, whatever the counts.
LEMMA StoredSame ==
  ASSUME NEW objs, NEW other, DOMAIN other = DOMAIN objs,
         \A h \in DOMAIN objs : other[h].data = objs[h].data
  PROVE  Stored(other) = Stored(objs)
<1>1. [h \in DOMAIN objs |-> Data[objs[h].data]] = [h \in DOMAIN other |-> Data[other[h].data]]
  BY Zenon
<1> QED
  BY <1>1, Zenon DEF Stored

\* The bytes stored are the sum over the objects, taken in any order.
LEMMA StoredFacts ==
  ASSUME NEW objs, Objects(objs)
  PROVE  /\ Stored(objs) \in Int
         /\ DOMAIN objs = {} => Stored(objs) = 0
         /\ \A h \in DOMAIN objs : Stored(objs) = Data[objs[h].data] + Stored(Without(objs, h))
<1> DEFINE S == DOMAIN objs
           w == [h \in S |-> Data[objs[h].data]]
<1>1. IsFiniteSet(S) /\ w \in [S -> Int]
  BY StoreAssumption DEF Objects, Object
<1>2. Stored(objs) = SumFunction(w)
  BY Zenon DEF Stored
<1>3. ASSUME NEW h \in S
      PROVE  Stored(Without(objs, h)) = SumFunction([g \in S \ {h} |-> w[g]]) /\ w[h] = Data[objs[h].data]
  <2> DEFINE r == Without(objs, h)
  <2>1. DOMAIN r = S \ {h} /\ \A g \in S \ {h} : r[g] = objs[g]
    BY WithoutFacts, Zenon
  <2> HIDE DEF r
  <2>2. [g \in DOMAIN r |-> Data[r[g].data]] = [g \in S \ {h} |-> w[g]]
    BY <2>1, Zenon
  <2> QED
    BY <2>2, Zenon DEF Stored, r
<1> HIDE DEF S, w
<1>4. /\ SumFunction(w) \in Int
      /\ S = {} => SumFunction(w) = 0
      /\ \A h \in S : SumFunction(w) = w[h] + SumFunction([g \in S \ {h} |-> w[g]])
  BY <1>1, SumFacts, Zenon
<1> QED
  BY <1>2, <1>3, <1>4, Zenon DEF S

\* A new object adds its length, a removed one takes it away.
LEMMA StoredAdd ==
  ASSUME NEW objs, Objects(objs), NEW h, h \notin DOMAIN objs, NEW o, Object(o)
  PROVE  /\ Objects(With(objs, h, o))
         /\ Stored(With(objs, h, o)) = Stored(objs) + Data[o.data]
<1> DEFINE new == With(objs, h, o)
<1>1. /\ DOMAIN new = DOMAIN objs \cup {h} /\ new[h] = o
      /\ \A g \in DOMAIN objs : new[g] = objs[g]
  <2>1. /\ DOMAIN new = DOMAIN objs \cup {h} /\ new[h] = o
        /\ \A g \in DOMAIN objs : g # h => new[g] = objs[g]
    BY Zenon DEF With
  <2> QED
    BY <2>1, Zenon
<1>2. new = [g \in DOMAIN new |-> new[g]]
  BY Zenon DEF With
<1>3. Without(new, h) = objs
  <2>1. (DOMAIN objs \cup {h}) \ {h} = DOMAIN objs
    BY Zenon
  <2>2. objs = [g \in DOMAIN objs |-> objs[g]]
    BY Zenon DEF Objects
  <2> QED
    BY <1>1, <2>1, <2>2, Zenon DEF Without
<1> HIDE DEF new
<1>4. Objects(new)
  BY <1>1, <1>2, FS_AddElement DEF Objects
<1>5. Data[o.data] \in Int /\ Stored(objs) \in Int
  BY StoredFacts, StoreAssumption DEF Object
<1>6. Stored(new) = Data[o.data] + Stored(objs)
  BY <1>1, <1>3, <1>4, StoredFacts, Zenon
<1> QED
  BY <1>4, <1>5, <1>6 DEF new

\* One object less.
LEMMA StoredDrop ==
  ASSUME NEW objs, Objects(objs), NEW h \in DOMAIN objs
  PROVE  /\ Objects(Without(objs, h))
         /\ Stored(Without(objs, h)) = Stored(objs) - Data[objs[h].data]
<1> DEFINE r == Without(objs, h)
<1>1. DOMAIN r = DOMAIN objs \ {h} /\ \A g \in DOMAIN r : r[g] = objs[g]
  BY WithoutFacts, Zenon
<1>2. r = [g \in DOMAIN r |-> r[g]]
  BY Zenon DEF Without
<1> HIDE DEF r
<1>3. Objects(r)
  BY <1>1, <1>2, FS_RemoveElement DEF Objects
<1>4. Stored(r) \in Int /\ Data[objs[h].data] \in Int
  BY <1>3, StoredFacts, StoreAssumption DEF Objects, Object
<1>5. Stored(objs) = Data[objs[h].data] + Stored(r)
  BY StoredFacts, Zenon DEF r
<1> QED
  BY <1>3, <1>4, <1>5 DEF r

\* A change of a reference count.
LEMMA Recounted ==
  ASSUME NEW objs, Objects(objs), NEW h \in DOMAIN objs, NEW n \in Nat
  PROVE  LET new == [objs EXCEPT ![h].ref_count = n]
         IN /\ Objects(new) /\ DOMAIN new = DOMAIN objs /\ new[h].ref_count = n
            /\ \A g \in DOMAIN objs : g # h => new[g] = objs[g]
            /\ Stored(new) = Stored(objs)
<1> DEFINE new == [objs EXCEPT ![h].ref_count = n]
<1>1. Object(objs[h]) /\ objs = [g \in DOMAIN objs |-> objs[g]]
  BY Zenon DEF Objects
<1>2. [objs[h] EXCEPT !.ref_count = n] = [data |-> objs[h].data, ref_count |-> n]
  BY <1>1 DEF Object
<1>3. /\ DOMAIN new = DOMAIN objs /\ new[h] = [data |-> objs[h].data, ref_count |-> n]
      /\ \A g \in DOMAIN objs : g # h => new[g] = objs[g]
  BY <1>1, <1>2, Zenon
<1>4. new = [g \in DOMAIN new |-> new[g]]
  BY <1>1, Zenon
<1> HIDE DEF new
<1>5. \A g \in DOMAIN objs : new[g].data = objs[g].data
  BY <1>3
<1>6. Stored(new) = Stored(objs)
  BY <1>3, <1>5, StoredSame, Zenon
<1>7. Object(new[h])
  BY <1>1, <1>3 DEF Object
<1>8. Objects(new)
  BY <1>3, <1>4, <1>7, Zenon DEF Objects
<1> QED
  BY <1>3, <1>6, <1>8, Zenon DEF new

-----------------------------------------------------------------------------
(* cas.rs: put, ref_inc, ref_dec *)

\* put, when every object in the store has a reference: garbage_collect then
\* finds nothing to remove.
LEMMA PutFacts ==
  ASSUME NEW objs, Objects(objs), \A g \in DOMAIN objs : objs[g].ref_count # 0,
         NEW b, b = Stored(objs), NEW data \in DOMAIN Data, NEW h, h = HashOf[data],
         NEW s, s = [objects |-> objs, bytes |-> b], NEW p, p = put(s, data)
  PROVE  /\ ~p.ok => p.objects = objs /\ p.bytes = b
         /\ p.ok => /\ Objects(p.objects) /\ p.bytes = Stored(p.objects)
                    /\ DOMAIN p.objects = DOMAIN objs \cup {h}
                    /\ p.objects[h].ref_count =
                         IF h \in DOMAIN objs THEN objs[h].ref_count + 1 ELSE 1
                    /\ \A g \in DOMAIN objs : g # h => p.objects[g] = objs[g]
<1> DEFINE none == Restrict(objs, {})
<1>1. Objects(none) /\ DOMAIN none = {}
  <2>1. none = [g \in {} |-> objs[g]]
    BY Zenon DEF Restrict
  <2> QED
    BY <2>1, FS_EmptySet, Zenon DEF Objects
<1>2. Stored(none) = 0 /\ b \in Int
  BY <1>1, StoredFacts, Zenon
<1>3. garbage_collect(s) = s
  <2>1. {g \in DOMAIN objs : objs[g].ref_count # 0} = DOMAIN objs
    BY Zenon
  <2>2. DOMAIN objs \ DOMAIN objs = {}
    BY Zenon
  <2>3. Restrict(objs, DOMAIN objs) = objs
    BY Zenon DEF Restrict, Objects
  <2>4. s.objects = objs /\ s.bytes = b
    BY Zenon
  <2> HIDE DEF none
  <2>5. garbage_collect(s) = [objects |-> objs, bytes |-> b - Stored(none)]
    BY <2>1, <2>2, <2>3, <2>4, Zenon DEF garbage_collect, none
  <2> QED
    BY <1>2, <2>5
<1> HIDE DEF none
<1>4. p = IF h \in DOMAIN objs
          THEN [ok |-> TRUE, bytes |-> b,
                objects |-> [objs EXCEPT ![h].ref_count = objs[h].ref_count + 1]]
          ELSE IF TooBig(s, data) THEN [ok |-> FALSE, bytes |-> b, objects |-> objs]
          ELSE [ok |-> TRUE, bytes |-> b + Data[data],
                objects |-> With(objs, h, [data |-> data, ref_count |-> 1])]
  <2>1. s.objects = objs /\ s.bytes = b
    BY Zenon
  <2> QED
    BY <1>3, <2>1, Zenon DEF put
<1>5. /\ ~p.ok => p.objects = objs /\ p.bytes = b
      /\ p.ok /\ h \in DOMAIN objs =>
           p.bytes = b /\ p.objects = [objs EXCEPT ![h].ref_count = objs[h].ref_count + 1]
      /\ p.ok /\ h \notin DOMAIN objs =>
           /\ p.bytes = b + Data[data]
           /\ p.objects = With(objs, h, [data |-> data, ref_count |-> 1])
  BY <1>4
<1>6. CASE p.ok /\ h \in DOMAIN objs
  <2> DEFINE n == objs[h].ref_count + 1
             new == [objs EXCEPT ![h].ref_count = n]
  <2>1. n \in Nat
    BY <1>6 DEF Objects, Object
  <2>2. p.objects = new /\ p.bytes = b
    BY <1>5, <1>6, Zenon
  <2> HIDE DEF n
  <2>3. /\ Objects(new) /\ DOMAIN new = DOMAIN objs /\ new[h].ref_count = n
        /\ \A g \in DOMAIN objs : g # h => new[g] = objs[g]
        /\ Stored(new) = Stored(objs)
    BY <1>6, <2>1, Recounted
  <2> HIDE DEF new
  <2> QED
    BY <1>6, <2>2, <2>3, Zenon DEF n
<1>7. CASE p.ok /\ h \notin DOMAIN objs
  <2> DEFINE o == [data |-> data, ref_count |-> 1]
  <2>1. Object(o) /\ o.data = data /\ o.ref_count = 1
    BY Zenon DEF Object
  <2>2. p.objects = With(objs, h, o) /\ p.bytes = b + Data[data]
    BY <1>5, <1>7, Zenon
  <2> HIDE DEF o
  <2>3. Objects(p.objects) /\ Stored(p.objects) = Stored(objs) + Data[data]
    BY <1>7, <2>1, <2>2, StoredAdd
  <2>4. /\ DOMAIN p.objects = DOMAIN objs \cup {h} /\ p.objects[h] = o
        /\ \A g \in DOMAIN objs : g # h => p.objects[g] = objs[g]
    BY <2>2, Zenon DEF With
  <2> QED
    BY <1>7, <2>1, <2>2, <2>3, <2>4, Zenon
<1> QED
  BY <1>5, <1>6, <1>7, Zenon

\* The tokens of toks that count as references to h.
Refs(toks, h) == {id \in DOMAIN toks : toks[id].hash = h /\ toks[id].origin # "accept"}

\* StoreExact, of any store and tokens.
Exact(objs, b, toks) ==
  /\ \A h \in DOMAIN objs :
       objs[h].ref_count = Cardinality(Refs(toks, h)) /\ Refs(toks, h) # {}
  /\ \A id \in DOMAIN toks : toks[id].origin # "accept" => toks[id].hash \in DOMAIN objs
  /\ b = Stored(objs)

\* Every object of an exact store has a reference.
LEMMA ExactCounts ==
  ASSUME NEW objs, NEW b, NEW toks, Exact(objs, b, toks), IsFiniteSet(DOMAIN toks)
  PROVE  /\ \A h \in DOMAIN objs : objs[h].ref_count # 0
         /\ \A h : IsFiniteSet(Refs(toks, h))
<1>1. \A h : Refs(toks, h) \in SUBSET DOMAIN toks
  BY Zenon DEF Refs
<1>2. \A h : IsFiniteSet(Refs(toks, h))
  BY <1>1, FS_Subset, Zenon
<1> QED
  BY <1>2, FS_EmptySet, Zenon DEF Exact

\* A new reference, to an object in the store or to a new one.
LEMMA ExactAdd ==
  ASSUME NEW objs, NEW b, NEW toks, Exact(objs, b, toks), IsFiniteSet(DOMAIN toks),
         NEW id, id \notin DOMAIN toks, NEW t, t.origin # "accept",
         NEW new, DOMAIN new = DOMAIN objs \cup {t.hash},
         new[t.hash].ref_count = IF t.hash \in DOMAIN objs THEN objs[t.hash].ref_count + 1 ELSE 1,
         \A g \in DOMAIN objs : g # t.hash => new[g] = objs[g]
  PROVE  Exact(new, Stored(new), With(toks, id, t))
<1> DEFINE h == t.hash
           more == With(toks, id, t)
<1>1. /\ DOMAIN more = DOMAIN toks \cup {id} /\ more[id] = t
      /\ \A k \in DOMAIN toks : more[k] = toks[k]
  <2>1. /\ DOMAIN more = DOMAIN toks \cup {id} /\ more[id] = t
        /\ \A k \in DOMAIN toks : k # id => more[k] = toks[k]
    BY Zenon DEF With
  <2> QED
    BY <2>1, Zenon
<1> HIDE DEF more
<1>2. Refs(more, h) = Refs(toks, h) \cup {id} /\ id \notin Refs(toks, h)
  BY <1>1, Zenon DEF Refs
<1>3. \A g : g # h => Refs(more, g) = Refs(toks, g)
  BY <1>1, Zenon DEF Refs
<1>4. IsFiniteSet(Refs(toks, h))
  BY ExactCounts, Zenon
<1>5. Cardinality(Refs(more, h)) = Cardinality(Refs(toks, h)) + 1
  BY <1>2, <1>4, FS_AddElement, Zenon
<1>6. new[h].ref_count = Cardinality(Refs(more, h)) /\ Refs(more, h) # {}
  <2>1. CASE h \in DOMAIN objs
    BY <1>2, <1>5, <2>1, Zenon DEF Exact
  <2>2. CASE h \notin DOMAIN objs
    <3>1. Refs(toks, h) = {}
      BY <2>2, Zenon DEF Exact, Refs
    <3> QED
      BY <1>2, <1>5, <2>2, <3>1, FS_EmptySet
  <2> QED
    BY <2>1, <2>2, Zenon
<1>7. \A g \in DOMAIN new : new[g].ref_count = Cardinality(Refs(more, g)) /\ Refs(more, g) # {}
  BY <1>3, <1>6, Zenon DEF Exact
<1>8. \A k \in DOMAIN more : more[k].origin # "accept" => more[k].hash \in DOMAIN new
  BY <1>1, Zenon DEF Exact
<1> QED
  BY <1>7, <1>8, Zenon DEF Exact, more

\* One reference less: the last one takes the object with it.
LEMMA ExactDrop ==
  ASSUME NEW objs, NEW b, NEW toks, Objects(objs), Exact(objs, b, toks), IsFiniteSet(DOMAIN toks),
         NEW id \in DOMAIN toks, toks[id].origin # "accept"
  PROVE  LET s == ref_dec([objects |-> objs, bytes |-> b], toks[id].hash)
         IN Objects(s.objects) /\ Exact(s.objects, s.bytes, Without(toks, id))
<1> DEFINE h == toks[id].hash
           s == [objects |-> objs, bytes |-> b]
           less == Without(toks, id)
           t == ref_dec(s, h)
<1>1. DOMAIN less = DOMAIN toks \ {id} /\ \A k \in DOMAIN less : less[k] = toks[k]
  BY WithoutFacts, ZenonT(40)
<1> HIDE DEF less
<1>2. h \in DOMAIN objs /\ objs[h].ref_count = Cardinality(Refs(toks, h)) /\ b = Stored(objs)
  BY Zenon DEF Exact
<1>3. Refs(less, h) = Refs(toks, h) \ {id} /\ id \in Refs(toks, h)
  BY <1>1, Zenon DEF Refs
<1>4. \A g : g # h => Refs(less, g) = Refs(toks, g)
  BY <1>1, Zenon DEF Refs
<1>5. IsFiniteSet(Refs(toks, h)) /\ IsFiniteSet(Refs(less, h))
  BY <1>3, ExactCounts, FS_RemoveElement, Zenon
<1>6. Cardinality(Refs(less, h)) = Cardinality(Refs(toks, h)) - 1
  BY <1>3, <1>5, FS_RemoveElement, Zenon
<1>7. objs[h].ref_count \in Nat
  BY <1>2, Zenon DEF Objects, Object
<1>8. s.objects = objs /\ s.bytes = b
  BY Zenon
<1> HIDE DEF s, h
<1>9. CASE objs[h].ref_count = 1
  <2> DEFINE r == Without(objs, h)
  <2>1. t = [objects |-> r, bytes |-> b - Data[objs[h].data]]
    BY <1>2, <1>8, <1>9, Zenon DEF ref_dec
  <2>2. Objects(r) /\ Stored(r) = b - Data[objs[h].data]
    BY <1>2, StoredDrop, Zenon
  <2>3. DOMAIN r = DOMAIN objs \ {h} /\ \A g \in DOMAIN r : r[g] = objs[g]
    BY WithoutFacts, ZenonT(40)
  <2> HIDE DEF r
  <2>4. Refs(less, h) = {}
    BY <1>2, <1>5, <1>6, <1>9, FS_EmptySet
  <2>5. \A g \in DOMAIN r : r[g].ref_count = Cardinality(Refs(less, g)) /\ Refs(less, g) # {}
    BY <1>4, <2>3, Zenon DEF Exact
  <2>6. \A k \in DOMAIN less : less[k].origin # "accept" => less[k].hash \in DOMAIN r
    BY <1>1, <2>3, <2>4, Zenon DEF Exact, Refs
  <2>7. Exact(r, Stored(r), less)
    BY <2>5, <2>6, Zenon DEF Exact
  <2> QED
    BY <2>1, <2>2, <2>7 DEF s, h, less
<1>10. CASE objs[h].ref_count # 1
  <2> DEFINE n == objs[h].ref_count - 1
             new == [objs EXCEPT ![h].ref_count = n]
  <2>1. n \in Nat
    <3>1. objs[h].ref_count # 0
      BY <1>2, ExactCounts, Zenon
    <3> QED
      BY <1>7, <3>1
  <2>2. t = [objects |-> new, bytes |-> b]
    BY <1>2, <1>8, <1>10, Zenon DEF ref_dec, s
  <2> HIDE DEF n
  <2>3. /\ Objects(new) /\ DOMAIN new = DOMAIN objs /\ new[h].ref_count = n
        /\ \A g \in DOMAIN objs : g # h => new[g] = objs[g]
        /\ Stored(new) = Stored(objs)
    BY <1>2, <2>1, Recounted
  <2> HIDE DEF new
  <2>4. new[h].ref_count = Cardinality(Refs(less, h)) /\ Refs(less, h) # {}
    <3>1. n = Cardinality(Refs(less, h))
      BY <1>2, <1>6, Zenon DEF n
    <3>2. n # 0
      BY <1>7, <1>10 DEF n
    <3> QED
      BY <2>3, <3>1, <3>2, FS_EmptySet, Zenon
  <2>5. \A g \in DOMAIN new : new[g].ref_count = Cardinality(Refs(less, g)) /\ Refs(less, g) # {}
    BY <1>4, <2>3, <2>4, Zenon DEF Exact
  <2>6. \A k \in DOMAIN less : less[k].origin # "accept" => less[k].hash \in DOMAIN new
    BY <1>1, <2>3, Zenon DEF Exact
  <2>7. Exact(new, b, less)
    BY <1>2, <2>3, <2>5, <2>6, Zenon DEF Exact
  <2> QED
    BY <2>2, <2>3, <2>7 DEF s, h, less
<1> QED
  BY <1>9, <1>10, Zenon

-----------------------------------------------------------------------------
(* Paths and their hashes *)

\* PathsAgree, of any tokens and path cache; and no path leads to a token that
\* a transfer made.
Agree(toks, to, of) ==
  \A path \in DOMAIN to :
    /\ to[path] \in DOMAIN toks
    /\ toks[to[path]].path = path /\ toks[to[path]].origin # "accept"
    /\ to[path] \in DOMAIN of /\ of[to[path]] = path

\* The hash kept for a path is that of the token there.
Fresh(toks, to, hashes, path) ==
  path \in DOMAIN hashes /\ hashes[path] = hash_file(toks[to[path]])

\* PathHashCurrent.
Current(toks, to, hashes) ==
  \A path \in DOMAIN to :
    toks[to[path]].origin = "save" => Fresh(toks, to, hashes, path)

\* update_hash of a token that a path leads to refreshes this path and leaves
\* the others as they are.
LEMMA UpdateHashKeeps ==
  ASSUME NEW toks, NEW to, NEW of, NEW hashes, Agree(toks, to, of), NEW p \in DOMAIN to
  PROVE  /\ Fresh(toks, to, UpdateHash(hashes, toks, to[p]), p)
         /\ \A path \in DOMAIN to :
              Fresh(toks, to, hashes, path) => Fresh(toks, to, UpdateHash(hashes, toks, to[p]), path)
<1> DEFINE new == UpdateHash(hashes, toks, to[p])
<1>1. toks[to[p]].path = p
  BY Zenon DEF Agree
<1>2. /\ DOMAIN new = DOMAIN hashes \cup {p} /\ new[p] = hash_file(toks[to[p]])
      /\ \A path \in DOMAIN hashes : path # p => new[path] = hashes[path]
  BY <1>1, Zenon DEF UpdateHash, With
<1> HIDE DEF new
<1> QED
  BY <1>2, Zenon DEF Fresh, new

\* The same for the parent of a path.
LEMMA UpdateParentKeeps ==
  ASSUME NEW toks, NEW to, NEW of, NEW hashes, Agree(toks, to, of), NEW p
  PROVE  \A path \in DOMAIN to :
           Fresh(toks, to, hashes, path) => Fresh(toks, to, UpdateParent(hashes, toks, to, p), path)
<1>1. CASE Parent[p] \in DOMAIN to
  <2>1. UpdateParent(hashes, toks, to, p) = UpdateHash(hashes, toks, to[Parent[p]])
    BY <1>1, Zenon DEF UpdateParent
  <2> QED
    BY <1>1, <2>1, UpdateHashKeeps, Zenon
<1>2. CASE Parent[p] \notin DOMAIN to
  BY <1>2, Zenon DEF UpdateParent
<1> QED
  BY <1>1, <1>2, Zenon

\* A new token at a path, whatever was there before.
LEMMA RegisterPaths ==
  ASSUME NEW toks, NEW to, NEW of, NEW hashes, Agree(toks, to, of), Current(toks, to, hashes),
         NEW id, id \notin DOMAIN toks, NEW t, t.origin # "accept",
         NEW toks2, toks2 = With(toks, id, t), NEW to2, to2 = With(to, t.path, id),
         NEW of2, of2 = With(of, id, t.path),
         NEW hashes2, hashes2 = UpdateParent(hashes, toks2, to2, t.path)
  PROVE  /\ Agree(toks2, to2, of2)
         /\ t.origin # "save" => Current(toks2, to2, hashes2)
         /\ Current(toks2, to2, UpdateHash(hashes2, toks2, id))
<1> DEFINE p == t.path
<1>1. /\ DOMAIN toks2 = DOMAIN toks \cup {id} /\ toks2[id] = t
      /\ \A k \in DOMAIN toks : toks2[k] = toks[k]
  BY Zenon DEF With
<1>2. /\ DOMAIN to2 = DOMAIN to \cup {p} /\ to2[p] = id
      /\ \A path \in DOMAIN to : path # p => to2[path] = to[path]
  BY Zenon DEF With
<1>3. /\ DOMAIN of2 = DOMAIN of \cup {id} /\ of2[id] = p
      /\ \A k \in DOMAIN of : k # id => of2[k] = of[k]
  BY Zenon DEF With
<1>4. Agree(toks2, to2, of2)
  <2>1. ASSUME NEW path \in DOMAIN to2, path # p
        PROVE  /\ to2[path] \in DOMAIN toks2
               /\ toks2[to2[path]].path = path /\ toks2[to2[path]].origin # "accept"
               /\ to2[path] \in DOMAIN of2 /\ of2[to2[path]] = path
    <3>1. path \in DOMAIN to /\ to2[path] = to[path]
      BY <1>2, <2>1, Zenon
    <3>2. to[path] \in DOMAIN toks /\ to[path] # id
      BY <3>1, Zenon DEF Agree
    <3> QED
      BY <1>1, <1>3, <3>1, <3>2 DEF Agree
  <2> QED
    BY <1>1, <1>2, <1>3, <2>1, Zenon DEF Agree
<1>5. ASSUME NEW path \in DOMAIN to2, path # p, toks2[to2[path]].origin = "save"
      PROVE  Fresh(toks2, to2, hashes2, path)
  <2>1. path \in DOMAIN to /\ to2[path] = to[path]
    BY <1>2, <1>5, Zenon
  <2>2. to[path] \in DOMAIN toks
    BY <2>1, Zenon DEF Agree
  <2>3. toks2[to2[path]] = toks[to[path]]
    BY <1>1, <2>1, <2>2, Zenon
  <2>4. Fresh(toks2, to2, hashes, path)
    BY <1>5, <2>1, <2>3, Zenon DEF Current, Fresh
  <2> QED
    BY <1>4, <2>4, UpdateParentKeeps, Zenon
<1>6. t.origin # "save" => Current(toks2, to2, hashes2)
  BY <1>1, <1>2, <1>5, Zenon DEF Current
<1>7. /\ Fresh(toks2, to2, UpdateHash(hashes2, toks2, to2[p]), p)
      /\ \A path \in DOMAIN to2 : Fresh(toks2, to2, hashes2, path) =>
           Fresh(toks2, to2, UpdateHash(hashes2, toks2, to2[p]), path)
  BY <1>2, <1>4, UpdateHashKeeps, Zenon
<1>8. Current(toks2, to2, UpdateHash(hashes2, toks2, id))
  BY <1>2, <1>5, <1>7, Zenon DEF Current
<1> QED
  BY <1>4, <1>6, <1>8, Zenon

\* A token moves from one path to another, over what was there.
Moved(toks, to, of, old, new, id, toks2, to2, of2) ==
  /\ old \in DOMAIN to /\ id = to[old]
  /\ DOMAIN toks2 = DOMAIN toks /\ toks2[id].path = new /\ toks2[id].origin # "accept"
  /\ \A k \in DOMAIN toks : k # id => toks2[k] = toks[k]
  /\ to2 = With(Without(to, old), new, id) /\ of2 = With(of, id, new)

\* Then paths and hashes still agree.
LEMMA MovePaths ==
  ASSUME NEW toks, NEW to, NEW of, NEW hashes, Agree(toks, to, of), Current(toks, to, hashes),
         NEW old, NEW new, NEW id, NEW toks2, NEW to2, NEW of2,
         Moved(toks, to, of, old, new, id, toks2, to2, of2)
  PROVE  /\ Agree(toks2, to2, of2)
         /\ Current(toks2, to2, UpdateHash(
              UpdateParent(UpdateParent(hashes, toks2, to2, old), toks2, to2, new), toks2, id))
<1> DEFINE left == UpdateParent(hashes, toks2, to2, old)
           joined == UpdateParent(left, toks2, to2, new)
<1>0. /\ old \in DOMAIN to /\ id = to[old]
      /\ DOMAIN toks2 = DOMAIN toks /\ toks2[id].path = new /\ toks2[id].origin # "accept"
      /\ \A k \in DOMAIN toks : k # id => toks2[k] = toks[k]
      /\ to2 = With(Without(to, old), new, id) /\ of2 = With(of, id, new)
  BY Zenon DEF Moved
<1>1. id \in DOMAIN toks
  BY <1>0, Zenon DEF Agree
<1>2. /\ DOMAIN to2 = (DOMAIN to \ {old}) \cup {new} /\ to2[new] = id
      /\ \A path \in DOMAIN to : path # old /\ path # new => to2[path] = to[path]
  BY <1>0, Zenon DEF With, Without
<1>3. /\ DOMAIN of2 = DOMAIN of \cup {id} /\ of2[id] = new
      /\ \A k \in DOMAIN of : k # id => of2[k] = of[k]
  BY <1>0, Zenon DEF With
<1>4. ASSUME NEW path \in DOMAIN to2, path # new
      PROVE  path \in DOMAIN to /\ to2[path] = to[path] /\ to[path] \in DOMAIN toks /\ to[path] # id
  BY <1>0, <1>2, <1>4 DEF Agree
<1>5. Agree(toks2, to2, of2)
  <2>1. ASSUME NEW path \in DOMAIN to2, path # new
        PROVE  /\ to2[path] \in DOMAIN toks2
               /\ toks2[to2[path]].path = path /\ toks2[to2[path]].origin # "accept"
               /\ to2[path] \in DOMAIN of2 /\ of2[to2[path]] = path
    <3>1. path \in DOMAIN to /\ to2[path] = to[path] /\ to[path] \in DOMAIN toks /\ to[path] # id
      BY <1>4, <2>1, Zenon
    <3> QED
      BY <1>0, <1>3, <3>1, SMTT(30) DEF Agree
  <2>2. toks2[id].path = new /\ toks2[id].origin # "accept" /\ id \in DOMAIN toks2
    BY <1>0, <1>1, Zenon
  <2> QED
    BY <1>2, <1>3, <2>1, <2>2, ZenonT(40) DEF Agree
<1>6. ASSUME NEW path \in DOMAIN to2, path # new, toks2[to2[path]].origin = "save"
      PROVE  Fresh(toks2, to2, joined, path)
  <2>1. path \in DOMAIN to /\ to2[path] = to[path] /\ to[path] \in DOMAIN toks /\ to[path] # id
    BY <1>4, <1>6, Zenon
  <2>2. toks2[to2[path]] = toks[to[path]]
    BY <1>0, <2>1, Zenon
  <2>3. Fresh(toks2, to2, hashes, path)
    BY <1>6, <2>1, <2>2, Zenon DEF Current, Fresh
  <2>4. Fresh(toks2, to2, left, path)
    BY <1>5, <2>3, UpdateParentKeeps, Zenon
  <2> HIDE DEF left
  <2> QED
    BY <1>5, <2>4, UpdateParentKeeps, Zenon
<1> HIDE DEF left, joined
<1>7. /\ Fresh(toks2, to2, UpdateHash(joined, toks2, to2[new]), new)
      /\ \A path \in DOMAIN to2 : Fresh(toks2, to2, joined, path) =>
           Fresh(toks2, to2, UpdateHash(joined, toks2, to2[new]), path)
  BY <1>2, <1>5, UpdateHashKeeps, Zenon
<1>8. Current(toks2, to2, UpdateHash(joined, toks2, id))
  BY <1>2, <1>6, <1>7, Zenon DEF Current
<1> QED
  BY <1>5, <1>8, Zenon DEF left, joined

\* A path that is removed with its token.
LEMMA DeletePaths ==
  ASSUME NEW toks, NEW to, NEW of, NEW hashes, Agree(toks, to, of), Current(toks, to, hashes),
         NEW p \in DOMAIN to
  PROVE  LET toks2 == Without(toks, to[p])
             to2 == Without(to, p)
             of2 == Without(of, to[p])
         IN /\ Agree(toks2, to2, of2)
            /\ Current(toks2, to2, UpdateParent(hashes, toks, to, p))
<1> DEFINE toks2 == Without(toks, to[p])
           to2 == Without(to, p)
           of2 == Without(of, to[p])
           new == UpdateParent(hashes, toks, to, p)
<1>1. /\ DOMAIN toks2 = DOMAIN toks \ {to[p]} /\ \A k \in DOMAIN toks2 : toks2[k] = toks[k]
      /\ DOMAIN to2 = DOMAIN to \ {p} /\ \A path \in DOMAIN to2 : to2[path] = to[path]
      /\ DOMAIN of2 = DOMAIN of \ {to[p]} /\ \A k \in DOMAIN of2 : of2[k] = of[k]
  BY Zenon DEF Without
<1>2. \A path \in DOMAIN to : Fresh(toks, to, hashes, path) => Fresh(toks, to, new, path)
  BY UpdateParentKeeps, Zenon
<1> HIDE DEF toks2, to2, of2, new
<1>3. ASSUME NEW path \in DOMAIN to2
      PROVE  path \in DOMAIN to /\ to2[path] = to[path] /\ to[path] \in DOMAIN toks /\ to[path] # to[p]
  BY <1>1 DEF Agree
<1>4. Agree(toks2, to2, of2)
  BY <1>1, <1>3 DEF Agree
<1>5. ASSUME NEW path \in DOMAIN to2, toks2[to2[path]].origin = "save"
      PROVE  Fresh(toks2, to2, new, path)
  <2>1. toks2[to2[path]] = toks[to[path]] /\ path \in DOMAIN to
    BY <1>1, <1>3, Zenon
  <2>2. Fresh(toks, to, new, path)
    BY <1>2, <1>5, <2>1, Zenon DEF Current
  <2> QED
    BY <2>1, <2>2, Zenon DEF Fresh
<1>6. Current(toks2, to2, new)
  BY <1>5, Zenon DEF Current
<1> QED
  BY <1>4, <1>6, Zenon DEF toks2, to2, of2, new

-----------------------------------------------------------------------------
(* The file operations *)

\* The entries of the token registry.
Token(t) ==
  t = [path |-> t.path, hash |-> t.hash, owner |-> t.owner, rights |-> t.rights,
       origin |-> t.origin]

\* The registry.
Tokens(toks) ==
  /\ toks = [id \in DOMAIN toks |-> toks[id]] /\ IsFiniteSet(DOMAIN toks)
  /\ \A id \in DOMAIN toks : Token(toks[id])

\* The inductive invariant of the object store.
StoreInv ==
  /\ Tokens(tokens) /\ Objects(objects) /\ Exact(objects, bytes, tokens)
  /\ Agree(tokens, pathTo, pathOf) /\ Current(tokens, pathTo, hashAt)

\* As long as a token can be registered, some id is free.
LEMMA FreshIdFree ==
  ASSUME NEW ids, IsFiniteSet(ids), Cardinality(ids) < MaxTokens
  PROVE  FreshId(ids) \notin ids
<1>1. MaxTokens \in Nat
  BY StoreAssumption, Zenon
<1>2. IsFiniteSet(1 .. MaxTokens) /\ Cardinality(1 .. MaxTokens) = MaxTokens
  BY <1>1, FS_Interval, SMT
<1>3. Cardinality(ids) \in Nat
  BY FS_CardinalityType, Zenon
<1>4. ~(1 .. MaxTokens \subseteq ids)
  <2> SUFFICES ASSUME (1 .. MaxTokens) \subseteq ids PROVE FALSE
    BY Zenon
  <2>1. Cardinality(1 .. MaxTokens) =< Cardinality(ids)
    BY FS_Subset, Zenon
  <2> QED
    BY <1>1, <1>2, <1>3, <2>1
<1> QED
  BY <1>4, Zenon DEF FreshId

\* A token added under a free id.
LEMMA TokensAdd ==
  ASSUME NEW toks, Tokens(toks), NEW id, NEW t, Token(t)
  PROVE  Tokens(With(toks, id, t))
<1> DEFINE more == With(toks, id, t)
<1>1. /\ DOMAIN more = DOMAIN toks \cup {id} /\ more[id] = t
      /\ \A k \in DOMAIN toks : k # id => more[k] = toks[k]
      /\ more = [k \in DOMAIN more |-> more[k]]
  BY Zenon DEF With
<1>2. IsFiniteSet(DOMAIN more)
  BY <1>1, FS_AddElement DEF Tokens
<1> HIDE DEF more
<1> QED
  BY <1>1, <1>2, Zenon DEF Tokens, more

\* save_file.
LEMMA SaveFileKeeps ==
  ASSUME StoreInv, NEW path, NEW data \in DOMAIN Data, NEW user, NEW rights,
         SaveFile(path, data, user, rights)
  PROVE  StoreInv'
<1> DEFINE id == FreshId(DOMAIN tokens)
           h == HashOf[data]
           t == [path |-> path, hash |-> h, owner |-> user, rights |-> rights, origin |-> "save"]
           p == put([objects |-> objects, bytes |-> bytes], data)
<1>1. IsFiniteSet(DOMAIN tokens) /\ id \notin DOMAIN tokens
  BY FreshIdFree, Zenon DEF StoreInv, Tokens, SaveFile, CanRegister
<1>2. Token(t) /\ t.path = path /\ t.hash = h /\ t.origin = "save" /\ t.origin # "accept"
  BY Zenon DEF Token
<1>3. p.ok /\ objects' = p.objects /\ bytes' = p.bytes
  BY Zenon DEF SaveFile, SetStore, Store
<1>4. tokens' = With(tokens, id, t)
  BY Zenon DEF SaveFile
<1>5. pathTo' = With(pathTo, t.path, id) /\ pathOf' = With(pathOf, id, t.path)
  BY <1>2, Zenon DEF SaveFile, SetCache, insert, Cache
<1>6. hashAt' = UpdateHash(UpdateParent(hashAt, tokens', pathTo', t.path), tokens', id)
  BY <1>2, Zenon DEF SaveFile
<1>7. /\ \A g \in DOMAIN objects : objects[g].ref_count # 0
      /\ bytes = Stored(objects)
  BY <1>1, ExactCounts, Zenon DEF StoreInv, Exact
<1> HIDE DEF id, h, t, p
<1>8. Objects(objects) /\ Store = [objects |-> objects, bytes |-> bytes] /\ p = put(Store, data) /\ h = HashOf[data]
  BY Zenon DEF StoreInv, Store, p, h
<1>9. /\ Objects(objects') /\ bytes' = Stored(objects')
      /\ DOMAIN objects' = DOMAIN objects \cup {h}
      /\ objects'[h].ref_count = IF h \in DOMAIN objects THEN objects[h].ref_count + 1 ELSE 1
      /\ \A g \in DOMAIN objects : g # h => objects'[g] = objects[g]
  BY <1>3, <1>7, <1>8, PutFacts, SMTT(30)
<1>10. Exact(objects', bytes', tokens')
  BY <1>1, <1>2, <1>4, <1>9, ExactAdd, Zenon DEF StoreInv
<1>11. Tokens(tokens')
  BY <1>2, <1>4, TokensAdd, Zenon DEF StoreInv
<1>12. Agree(tokens', pathTo', pathOf') /\ Current(tokens', pathTo', hashAt')
  <2>1. Agree(tokens, pathTo, pathOf) /\ Current(tokens, pathTo, hashAt)
    BY Zenon DEF StoreInv
  <2> QED
    BY <1>1, <1>2, <1>4, <1>5, <1>6, <2>1, RegisterPaths, SMTT(30)
<1> QED
  BY <1>9, <1>10, <1>11, <1>12, Zenon DEF StoreInv

\* save_file when there is no space for the data.
LEMMA SaveFailsKeeps ==
  ASSUME StoreInv, NEW data \in DOMAIN Data, SaveFails(data)
  PROVE  UNCHANGED fileVars
<1> DEFINE p == put([objects |-> objects, bytes |-> bytes], data)
<1>1. /\ \A g \in DOMAIN objects : objects[g].ref_count # 0
      /\ bytes = Stored(objects)
  BY ExactCounts, Zenon DEF StoreInv, Tokens, Exact
<1>2. ~p.ok /\ objects' = p.objects /\ bytes' = p.bytes
  BY Zenon DEF SaveFails, SetStore, Store
<1>3. objects' = objects /\ bytes' = bytes
  <2>1. Objects(objects)
    BY Zenon DEF StoreInv
  <2>2. Store = [objects |-> objects, bytes |-> bytes] /\ p = put(Store, data)
    BY Zenon DEF Store
  <2> HIDE DEF p
  <2> QED
    BY <1>1, <1>2, <2>1, <2>2, PutFacts
<1> QED
  BY <1>3, Zenon DEF SaveFails, fileVars

\* A step that leaves the file system alone.
LEMMA FilesAlone ==
  ASSUME StoreInv, UNCHANGED fileVars
  PROVE  StoreInv'
  BY Zenon DEF StoreInv, fileVars

\* copy_file.
LEMMA CopyFileKeeps ==
  ASSUME StoreInv, NEW src, NEW dst, NEW user, CopyFile(src, dst, user)
  PROVE  StoreInv'
<1> DEFINE id == FreshId(DOMAIN tokens)
           source == tokens[pathTo[src]]
           h == source.hash
           t == [source EXCEPT !.path = dst, !.owner = user, !.origin = "copy"]
<1>1. IsFiniteSet(DOMAIN tokens) /\ id \notin DOMAIN tokens
  BY FreshIdFree, Zenon DEF StoreInv, Tokens, CopyFile, CanRegister
<1>2. pathTo[src] \in DOMAIN tokens /\ Token(source) /\ source.origin # "accept"
  BY Zenon DEF CopyFile, StoreInv, Agree, Tokens
<1>3. h \in DOMAIN objects
  BY <1>2, Zenon DEF StoreInv, Exact
<1>4. objects' = [objects EXCEPT ![h].ref_count = objects[h].ref_count + 1] /\ bytes' = bytes
  <2> DEFINE s == [objects |-> objects, bytes |-> bytes]
             u == [s EXCEPT !.objects[h].ref_count = @ + 1]
  <2>1. SetStore(ref_inc(s, h)) /\ s.objects = objects
    BY Zenon DEF CopyFile, Store
  <2>2. ref_inc(s, h) = u
    BY <1>3, <2>1, Zenon DEF ref_inc
  <2>3. /\ u.objects = [objects EXCEPT ![h] = [objects[h] EXCEPT !.ref_count = objects[h].ref_count + 1]]
        /\ u.bytes = bytes
    <3> HIDE DEF h
    <3> QED
      BY Zenon
  <2> HIDE DEF u, s, h
  <2> QED
    BY <2>1, <2>2, <2>3, Zenon DEF SetStore
<1>5. tokens' = With(tokens, id, t)
  BY Zenon DEF CopyFile
<1>6. /\ SetCache(insert(Cache, dst, id))
      /\ hashAt' = UpdateParent(hashAt, tokens', pathTo', dst)
  BY Zenon DEF CopyFile
<1>7. Token(t) /\ t.path = dst /\ t.hash = h /\ t.origin = "copy" /\ t.origin # "accept" /\ t.origin # "save"
  <2>1. source = [path |-> source.path, hash |-> source.hash, owner |-> source.owner,
                  rights |-> source.rights, origin |-> source.origin]
    BY <1>2, Zenon DEF Token
  <2> HIDE DEF source
  <2>2. t = [path |-> dst, hash |-> source.hash, owner |-> user, rights |-> source.rights,
             origin |-> "copy"]
    <3>1. t = [[path |-> source.path, hash |-> source.hash, owner |-> source.owner,
                rights |-> source.rights, origin |-> source.origin]
                 EXCEPT !.path = dst, !.owner = user, !.origin = "copy"]
      BY <2>1, Zenon
    <3> HIDE DEF t
    <3> QED
      BY <3>1, Zenon
  <2> HIDE DEF t
  <2> QED
    BY <2>2, Zenon DEF Token
<1> HIDE DEF id, source, h, t
<1>8. pathTo' = With(pathTo, t.path, id) /\ pathOf' = With(pathOf, id, t.path)
  BY <1>6, <1>7, Zenon DEF SetCache, insert, Cache
<1> DEFINE n == objects[h].ref_count + 1
<1>9. n \in Nat
  BY <1>3 DEF StoreInv, Objects, Object
<1>10. objects' = [objects EXCEPT ![h].ref_count = n]
  BY <1>4, Zenon
<1>11. /\ Objects(objects') /\ DOMAIN objects' = DOMAIN objects /\ objects'[h].ref_count = n
       /\ \A g \in DOMAIN objects : g # h => objects'[g] = objects[g]
       /\ Stored(objects') = Stored(objects)
  <2> HIDE DEF n
  <2> QED
    <3> DEFINE new == [objects EXCEPT ![h].ref_count = n]
    <3>1. Objects(objects)
      BY Zenon DEF StoreInv
    <3>2. /\ Objects(new) /\ DOMAIN new = DOMAIN objects /\ new[h].ref_count = n
          /\ \A g \in DOMAIN objects : g # h => new[g] = objects[g]
          /\ Stored(new) = Stored(objects)
      BY <1>3, <1>9, <3>1, Recounted
    <3>3. objects' = new
      BY <1>10, Zenon
    <3> HIDE DEF new
    <3> QED
      BY <3>2, <3>3, Zenon
<1>12. bytes' = Stored(objects') /\ DOMAIN objects' = DOMAIN objects \cup {h}
  <2>1. bytes = Stored(objects)
    BY Zenon DEF StoreInv, Exact
  <2> QED
    BY <1>3, <1>4, <1>11, <2>1, Zenon
<1>13. Exact(objects', bytes', tokens')
  BY <1>1, <1>3, <1>5, <1>7, <1>11, <1>12, ExactAdd, Zenon DEF StoreInv
<1>14. Tokens(tokens')
  BY <1>5, <1>7, TokensAdd, ZenonT(40) DEF StoreInv
<1>15. Agree(tokens', pathTo', pathOf') /\ Current(tokens', pathTo', hashAt')
  <2>1. hashAt' = UpdateParent(hashAt, tokens', pathTo', t.path)
    BY <1>6, <1>7, Zenon
  <2>2. Agree(tokens, pathTo, pathOf) /\ Current(tokens, pathTo, hashAt)
    BY Zenon DEF StoreInv
  <2> QED
    BY <1>1, <1>5, <1>7, <1>8, <2>1, <2>2, RegisterPaths, SMTT(30)
<1> QED
  BY <1>11, <1>13, <1>14, <1>15, Zenon DEF StoreInv

\* move_file.
LEMMA MoveFileKeeps ==
  ASSUME StoreInv, NEW old, NEW new, NEW user, MoveFile(old, new, user)
  PROVE  StoreInv'
<1> DEFINE id == pathTo[old]
           left == UpdateParent(hashAt, tokens', pathTo', old)
           joined == UpdateParent(left, tokens', pathTo', new)
<1>1. old \in DOMAIN pathTo /\ tokens' = [tokens EXCEPT ![id].path = new]
  BY Zenon DEF MoveFile
<1>2. pathTo' = With(Without(pathTo, old), new, id) /\ pathOf' = With(pathOf, id, new)
  BY Zenon DEF MoveFile, SetCache, update_path, insert, Cache
<1>3. hashAt' = UpdateHash(joined, tokens', id) /\ objects' = objects /\ bytes' = bytes
  BY Zenon DEF MoveFile
<1>4. id \in DOMAIN tokens /\ Token(tokens[id]) /\ tokens[id].origin # "accept"
  BY <1>1, Zenon DEF StoreInv, Agree, Tokens
<1>5. /\ DOMAIN tokens' = DOMAIN tokens /\ tokens' = [k \in DOMAIN tokens' |-> tokens'[k]]
      /\ \A k \in DOMAIN tokens : k # id => tokens'[k] = tokens[k]
      /\ tokens'[id] = [tokens[id] EXCEPT !.path = new]
  BY <1>1, <1>4, Zenon DEF StoreInv, Tokens
<1>6. /\ Token(tokens'[id]) /\ tokens'[id].path = new /\ tokens'[id].hash = tokens[id].hash
      /\ tokens'[id].origin = tokens[id].origin
  BY <1>4, <1>5, Zenon DEF Token
<1> HIDE DEF id
<1>7. Tokens(tokens')
  BY <1>5, <1>6, Zenon DEF StoreInv, Tokens
<1>8. \A k \in DOMAIN tokens : tokens'[k].hash = tokens[k].hash /\ tokens'[k].origin = tokens[k].origin
  BY <1>5, <1>6, Zenon
<1>9. \A h : Refs(tokens', h) = Refs(tokens, h)
  BY <1>5, <1>8, Zenon DEF Refs
<1>10. Exact(objects', bytes', tokens')
  BY <1>3, <1>5, <1>8, <1>9, Zenon DEF StoreInv, Exact
<1>11. Agree(tokens', pathTo', pathOf') /\ Current(tokens', pathTo', hashAt')
  <2>1. Moved(tokens, pathTo, pathOf, old, new, id, tokens', pathTo', pathOf')
    BY <1>1, <1>2, <1>4, <1>5, <1>6, Zenon DEF Moved, id
  <2>2. Agree(tokens, pathTo, pathOf) /\ Current(tokens, pathTo, hashAt)
    BY Zenon DEF StoreInv
  <2> QED
    BY <1>3, <2>1, <2>2, MovePaths, Zenon
<1> QED
  BY <1>3, <1>7, <1>10, <1>11, Zenon DEF StoreInv

\* delete_file.
LEMMA DeleteFileKeeps ==
  ASSUME StoreInv, NEW path, NEW user, DeleteFile(path, user)
  PROVE  StoreInv'
<1> DEFINE id == pathTo[path]
           s == ref_dec([objects |-> objects, bytes |-> bytes], tokens[id].hash)
<1>1. /\ path \in DOMAIN pathTo /\ tokens' = Without(tokens, id)
      /\ hashAt' = UpdateParent(hashAt, tokens, pathTo, path)
  BY Zenon DEF DeleteFile
<1>2. objects' = s.objects /\ bytes' = s.bytes
  BY Zenon DEF DeleteFile, SetStore, Store
<1>3. pathTo' = Without(pathTo, path) /\ pathOf' = Without(pathOf, id)
  BY Zenon DEF DeleteFile, SetCache, remove, Cache
<1>4. id \in DOMAIN tokens /\ tokens[id].origin # "accept"
  BY <1>1, Zenon DEF StoreInv, Agree
<1>5. Objects(s.objects) /\ Exact(s.objects, s.bytes, Without(tokens, id))
  BY <1>4, ExactDrop, Zenon DEF StoreInv, Tokens
<1>6. Agree(tokens', pathTo', pathOf') /\ Current(tokens', pathTo', hashAt')
  BY <1>1, <1>3, DeletePaths, Zenon DEF StoreInv
<1> HIDE DEF id, s
<1>7. /\ DOMAIN tokens' = DOMAIN tokens \ {id} /\ tokens' = [k \in DOMAIN tokens' |-> tokens'[k]]
      /\ \A k \in DOMAIN tokens' : tokens'[k] = tokens[k]
  BY <1>1, Zenon DEF Without
<1>8. Tokens(tokens')
  BY <1>7, FS_RemoveElement DEF StoreInv, Tokens
<1> QED
  BY <1>1, <1>2, <1>5, <1>6, <1>8, Zenon DEF StoreInv

\* accept_transfer: a token no path leads to and no reference counts.
LEMMA AcceptKeeps ==
  ASSUME StoreInv, NEW request, NEW user, NEW path, AcceptTransfer(request, user, path)
  PROVE  StoreInv'
<1> DEFINE id == FreshId(DOMAIN tokens)
           t == [path |-> path, hash |-> tokens[request.source].hash,
                 owner |-> user, rights |-> request.rights, origin |-> "accept"]
<1>1. IsFiniteSet(DOMAIN tokens) /\ id \notin DOMAIN tokens
  BY FreshIdFree, Zenon DEF StoreInv, Tokens, AcceptTransfer, CanRegister
<1>2. tokens' = With(tokens, id, t) /\ UNCHANGED <<objects, bytes, pathTo, pathOf, hashAt>>
  BY Zenon DEF AcceptTransfer
<1>3. Token(t) /\ t.origin = "accept"
  BY Zenon DEF Token
<1> HIDE DEF id, t
<1>4. /\ DOMAIN tokens' = DOMAIN tokens \cup {id} /\ tokens'[id] = t
      /\ \A k \in DOMAIN tokens : tokens'[k] = tokens[k]
  BY <1>1, <1>2, Zenon DEF With
<1>5. Tokens(tokens')
  BY <1>2, <1>3, TokensAdd, Zenon DEF StoreInv
<1>6. \A h : Refs(tokens', h) = Refs(tokens, h)
  BY <1>1, <1>3, <1>4, Zenon DEF Refs
<1>7. Exact(objects', bytes', tokens')
  BY <1>2, <1>3, <1>4, <1>6, Zenon DEF StoreInv, Exact
<1>8. Agree(tokens', pathTo', pathOf')
  BY <1>2, <1>4, Zenon DEF StoreInv, Agree
<1>9. Current(tokens', pathTo', hashAt')
  BY <1>2, <1>4, Zenon DEF StoreInv, Agree, Current, Fresh
<1> QED
  BY <1>2, <1>5, <1>7, <1>8, <1>9, Zenon DEF StoreInv

\* StoreInv holds initially.
LEMMA StoreInitInv == StoreInit => StoreInv
<1> SUFFICES ASSUME StoreInit PROVE StoreInv
  BY Zenon
<1>1. DOMAIN tokens = {} /\ DOMAIN objects = {} /\ DOMAIN pathTo = {} /\ bytes = 0
  BY DEF StoreInit
<1>2. tokens = [id \in DOMAIN tokens |-> tokens[id]] /\ objects = [h \in DOMAIN objects |-> objects[h]]
  BY DEF StoreInit
<1>3. Objects(objects) /\ Tokens(tokens)
  BY <1>1, <1>2, FS_EmptySet, Zenon DEF Objects, Tokens
<1>4. Stored(objects) = 0
  BY <1>1, <1>3, StoredFacts, Zenon
<1> QED
  BY <1>1, <1>3, <1>4, Zenon DEF StoreInv, Exact, Agree, Current

\* Every step keeps it.
LEMMA StoreStep ==
  ASSUME StoreInv, [StoreNext]_storeVars
  PROVE  StoreInv'
<1>1. CASE FileNext
  BY <1>1, SaveFileKeeps, SaveFailsKeeps, FilesAlone, MoveFileKeeps, CopyFileKeeps, DeleteFileKeeps, Zenon
     DEF FileNext
<1>2. CASE TransferNext
  <2>1. CASE UNCHANGED fileVars
    BY <2>1, FilesAlone, Zenon
  <2>2. CASE \E request \in xfer.received, user \in Users, path \in FsPaths :
               AcceptTransfer(request, user, path)
    BY <2>2, AcceptKeeps, Zenon
  <2> QED
    BY <1>2, <2>1, <2>2, Zenon DEF TransferNext, SendFile, ReceiveTransfers, CheckResponses, DeclineTransfer
<1>3. CASE UNCHANGED storeVars
  BY <1>3, FilesAlone, Zenon DEF storeVars
<1> QED
  BY <1>1, <1>2, <1>3, Zenon DEF StoreNext

\* StoreInv is an invariant of the object store.
LEMMA StoreInvHolds == StoreSpec => []StoreInv
  BY StoreInitInv, StoreStep, PTL DEF StoreSpec

\* The store is exact, for any paths, contents, hash function (collisions
\* included), space limit and users: see StoreExact.
THEOREM StoreExactHolds == StoreSpec => []StoreExact
<1>1. StoreInv => StoreExact
  BY Zenon DEF StoreInv, Exact, StoreExact, Refs, Referring
<1> QED
  BY <1>1, StoreInvHolds, PTL

\* Token registry and path cache agree: see PathsAgree.
THEOREM PathsAgreeHolds == StoreSpec => []PathsAgree
<1>1. StoreInv => PathsAgree
  BY Zenon DEF StoreInv, Agree, PathsAgree
<1> QED
  BY <1>1, StoreInvHolds, PTL

\* The hash kept for a path is current: see PathHashCurrent.
THEOREM PathHashCurrentHolds == StoreSpec => []PathHashCurrent
<1>1. StoreInv => PathHashCurrent
  BY Zenon DEF StoreInv, Current, Fresh, PathHashCurrent
<1> QED
  BY <1>1, StoreInvHolds, PTL
=============================================================================
