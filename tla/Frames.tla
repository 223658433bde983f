------------------------------- MODULE Frames -------------------------------
(***************************************************************************)
(* kernel/src/memory/pmm.rs: the operations of the bitmap of free physical *)
(* pages and of the counter kept beside it.  A page is its number; the     *)
(* bitmap is the set of pages whose bit is 1; s is both.                   *)
(***************************************************************************)
EXTENDS Integers, FiniteSets

CONSTANTS MaxPages,     \* MAX_PAGES
          NoPage        \* None

ASSUME FramesAssumption == MaxPages \in Nat /\ NoPage \notin Int

Pages == 0..(MaxPages - 1)

\* The whole pages of the usable entries that the bitmap can describe.
UsablePages(entries) == (UNION entries) \cap Pages

\* init: usable pages, less the reserved ones that were usable.
pmm_init(entries, reserved) ==
  [bitmap |-> UsablePages(entries) \ reserved,
   FREE_PAGES |-> Cardinality(UsablePages(entries))
                    - Cardinality(UsablePages(entries) \cap reserved)]

Lowest(S) == CHOOSE p \in S : \A q \in S : p <= q

\* The lowest free page, and what is left.
alloc_page(s) ==
  IF s.bitmap = {} THEN [page |-> NoPage, pmm |-> s]
  ELSE LET page == Lowest(s.bitmap)
       IN [page |-> page,
           pmm |-> [bitmap |-> s.bitmap \ {page}, FREE_PAGES |-> s.FREE_PAGES - 1]]

\* A page that is free already is not counted again.
free_page(s, page) ==
  IF page >= MaxPages \/ page \in s.bitmap THEN s
  ELSE [bitmap |-> s.bitmap \cup {page}, FREE_PAGES |-> s.FREE_PAGES + 1]

RunAt(start, count) == start..(start + count - 1)

RunStarts(s, count) == {start \in s.bitmap : RunAt(start, count) \subseteq s.bitmap}

\* Mutant: one decrement for the whole run.
alloc_contiguous_counts_one(s, count) ==
  IF count = 0 \/ RunStarts(s, count) = {} THEN [page |-> NoPage, pmm |-> s]
  ELSE LET start == Lowest(RunStarts(s, count))
       IN [page |-> start,
           pmm |-> [bitmap |-> s.bitmap \ RunAt(start, count),
                    FREE_PAGES |-> s.FREE_PAGES - 1]]

\* The first run of count free pages.
alloc_contiguous(s, count) ==
  IF count = 0 \/ RunStarts(s, count) = {} THEN [page |-> NoPage, pmm |-> s]
  ELSE LET start == Lowest(RunStarts(s, count))
       IN [page |-> start,
           pmm |-> [bitmap |-> s.bitmap \ RunAt(start, count),
                    FREE_PAGES |-> s.FREE_PAGES - count]]
=============================================================================
