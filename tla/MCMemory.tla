------------------------------ MODULE MCMemory ------------------------------
(* The components of memory management, checked side by side.              *)
EXTENDS Ahci, AddressSpace, KernelHeap

\* Calls of the tasks that are explored, in every order.
CONSTANT MaxCalls

VARIABLES which, calls

MCRam == 3..26
MCEntries == {{1, 2, 3}, {5, 6}, {8, 9, 27}}
MCLayouts == {[size |-> 1, align |-> 1], [size |-> 3, align |-> 1], [size |-> 2, align |-> 4]}

frozenFrames == UNCHANGED frameVars
frozenDisk == UNCHANGED ahciVars
frozenHeap == UNCHANGED heapVars
frozenSpace == UNCHANGED spaceVars

\* After a timeout nothing is claimed of the disk: a behaviour is followed up
\* to the first call after one.
DiskBound == ~(ahci.timedOut /\ ahci.pc = "table")

MCInit ==
  /\ which \in {"pmm", "disk", "heap", "space"}
  /\ calls = 0
  /\ FramesInit /\ AhciInit /\ HeapInit /\ SpaceInit

MCNext ==
  /\ UNCHANGED which
  /\ \/ which = "pmm" /\ UNCHANGED calls /\ FramesNext /\ frozenDisk /\ frozenHeap /\ frozenSpace
     \/ which = "disk" /\ DiskBound /\ UNCHANGED calls /\ AhciNext /\ frozenHeap /\ frozenSpace
     \/ which = "heap" /\ UNCHANGED calls /\ HeapNext /\ frozenFrames /\ frozenDisk /\ frozenSpace
     \/ which = "space" /\ calls < MaxCalls /\ calls' = calls + 1 /\ SpaceNext
        /\ frozenFrames /\ frozenDisk /\ frozenHeap

MCSpec == MCInit /\ [][MCNext]_<<which, calls, frameVars, ahciVars, heapVars, spaceVars>>
=============================================================================
