--------------------------- MODULE FrameAllocator ---------------------------
(***************************************************************************)
(* The physical memory manager as its callers see it.  Its operations work *)
(* under the BITMAP lock, so each is one step.  held is what the callers   *)
(* have got and not given back: they free only what they hold.             *)
(***************************************************************************)
EXTENDS Frames

CONSTANTS UsableEntries,\* memory map: disjoint sets of whole usable pages
          Reserved,     \* pages of the kernel image and of the first 1 MiB
          RunLengths    \* counts passed to alloc_contiguous

ASSUME AllocatorAssumption ==
  /\ \A entry \in UsableEntries : entry \subseteq Nat
  /\ \A x, y \in UsableEntries : x = y \/ x \cap y = {}
  /\ Reserved \subseteq Nat
  /\ RunLengths \subseteq Nat

VARIABLES pmm,   \* BITMAP and FREE_PAGES
          held   \* pages the callers hold

frameVars == <<pmm, held>>

FramesInit ==
  /\ pmm = pmm_init(UsableEntries, Reserved)
  /\ held = {}

AllocPage ==
  LET got == alloc_page(pmm)
  IN /\ pmm' = got.pmm
     /\ held' = IF got.page = NoPage THEN held ELSE held \cup {got.page}

FreePage(page) ==
  /\ page \in held
  /\ pmm' = free_page(pmm, page)
  /\ held' = held \ {page}

AllocContiguous(count) ==
  LET got == alloc_contiguous(pmm, count)
  IN /\ pmm' = got.pmm
     /\ held' = IF got.page = NoPage THEN held ELSE held \cup RunAt(got.page, count)

FramesNext ==
  \/ AllocPage
  \/ \E page \in held : FreePage(page)
  \/ \E count \in RunLengths : AllocContiguous(count)

FramesSpec == FramesInit /\ [][FramesNext]_frameVars

-----------------------------------------------------------------------------

\* No page is handed out twice or lost: every usable page is either free or
\* held by one caller, none of the reserved ones is either.  And FREE_PAGES,
\* which is changed beside the bitmap, is the number of free pages: as an
\* unsigned counter it never goes below zero.
FramesPartition ==
  /\ pmm.bitmap \cap held = {}
  /\ pmm.bitmap \cup held = UsablePages(UsableEntries) \ Reserved
  /\ pmm.FREE_PAGES = Cardinality(pmm.bitmap)
=============================================================================
