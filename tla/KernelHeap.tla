----------------------------- MODULE KernelHeap -----------------------------
(***************************************************************************)
(* kernel/src/memory/heap.rs: the first-fit free list behind GlobalAlloc.  *)
(*                                                                         *)
(* Addresses and sizes are in units of the 8 bytes that FreeBlock is       *)
(* aligned to, counted from the start of the heap, which is page aligned.  *)
(* The list threaded through the free blocks is the sequence heap, head    *)
(* first; live is what the callers hold, with the layout they asked for.   *)
(* The allocator works under its mutex, so a call is one step.             *)
(***************************************************************************)
EXTENDS Integers, Sequences

CONSTANTS HeapSize,     \* HEAP_SIZE
          HeaderSize,   \* size_of::<FreeBlock>()
          SplitSlack,   \* the 16 bytes a split must leave beyond a header
          Layouts       \* [size, align] the callers ask for

ASSUME HeapAssumption ==
  /\ HeapSize \in Nat \ {0}
  /\ HeaderSize \in Nat \ {0} /\ SplitSlack \in Nat
  /\ Layouts \subseteq [size : Nat, align : Nat \ {0}]

VARIABLES heap,  \* the free list: blocks [addr, size]
          live   \* allocations: [addr, layout]

heapVars == <<heap, live>>

\* (n + align - 1) & !(align - 1)
AlignUp(n, align) == ((n + align - 1) \div align) * align

\* The size both allocate and deallocate compute from the layout.
BlockSize(layout) ==
  AlignUp(IF layout.size < HeaderSize THEN HeaderSize ELSE layout.size, layout.align)

\* Where in this block an allocation would start, and how much is left behind.
AlignedAddr(block, layout) == AlignUp(block.addr, layout.align)
Remaining(block, layout) ==
  block.size - BlockSize(layout) - (AlignedAddr(block, layout) - block.addr)

Fits(layout) == {i \in DOMAIN heap : Remaining(heap[i], layout) >= 0}

First(S) == CHOOSE i \in S : \A j \in S : i <= j

HeapInit ==
  /\ heap = <<[addr |-> 0, size |-> HeapSize]>>
  /\ live = {}

\* Mutant: the new block starts where it would without the alignment gap.
Leftover_unaligned(block, layout) ==
  IF Remaining(block, layout) >= HeaderSize + SplitSlack
  THEN <<[addr |-> block.addr + BlockSize(layout), size |-> Remaining(block, layout)]>>
  ELSE <<>>

\* The block that replaces the chosen one: what lies behind the allocation
\* if it is large enough, otherwise none.
Leftover(block, layout) ==
  IF Remaining(block, layout) >= HeaderSize + SplitSlack
  THEN <<[addr |-> AlignedAddr(block, layout) + BlockSize(layout),
          size |-> Remaining(block, layout)]>>
  ELSE <<>>

Allocate(layout) ==
  /\ Fits(layout) # {}
  /\ LET i == First(Fits(layout))
     IN /\ heap' = SubSeq(heap, 1, i - 1) \o Leftover(heap[i], layout)
                     \o SubSeq(heap, i + 1, Len(heap))
        /\ live' = live \cup {[addr |-> AlignedAddr(heap[i], layout), layout |-> layout]}

\* No block fits: a null pointer.
AllocateNull(layout) ==
  /\ Fits(layout) = {}
  /\ UNCHANGED heapVars

Deallocate(a) ==
  /\ a \in live
  /\ heap' = <<[addr |-> a.addr, size |-> BlockSize(a.layout)]>> \o heap
  /\ live' = live \ {a}

HeapNext ==
  \/ \E layout \in Layouts : Allocate(layout) \/ AllocateNull(layout)
  \/ \E a \in live : Deallocate(a)

HeapSpec == HeapInit /\ [][HeapNext]_heapVars

-----------------------------------------------------------------------------

\* The units a live allocation may write: the size its caller asked for.
Extent(addr, size) == addr..(addr + size - 1)

\* No two allocations overlap, and none overlaps a free block, whose header
\* deallocate would write into it; all lie in the heap, aligned as asked.
HeapDisjoint ==
  /\ \A i, j \in DOMAIN heap : i # j =>
       Extent(heap[i].addr, heap[i].size) \cap Extent(heap[j].addr, heap[j].size) = {}
  /\ \A i \in DOMAIN heap : Extent(heap[i].addr, heap[i].size) \subseteq 0..(HeapSize - 1)
  /\ \A a \in live :
       /\ Extent(a.addr, BlockSize(a.layout)) \subseteq 0..(HeapSize - 1)
       /\ a.addr % a.layout.align = 0
       /\ \A i \in DOMAIN heap :
            Extent(a.addr, BlockSize(a.layout)) \cap Extent(heap[i].addr, heap[i].size) = {}
       /\ \A b \in live : b # a =>
            Extent(a.addr, BlockSize(a.layout)) \cap Extent(b.addr, BlockSize(b.layout)) = {}
=============================================================================
