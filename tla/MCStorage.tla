----------------------------- MODULE MCStorage -----------------------------
(* The storage components for TLC, each on its own: `which` says whose steps a
   behaviour takes.  calls counts the steps of the components whose state
   space is bounded by their number. *)
EXTENDS IoUring, ObjectStore, Fat32

CONSTANTS MaxCalls,    \* bound: file system calls
          MaxOps       \* bound: object store operations

VARIABLES which, calls

(* Files: a second mount is matched by prefix, so /homes is in the ramfs of
   /home; one file comes with the boot archive. *)
MCHome == [n \in {"home", "homes"} |-> IF n = "home" THEN "-" ELSE "s"]
Abs(parts) == [abs |-> TRUE, parts |-> parts]
Rel(parts) == [abs |-> FALSE, parts |-> parts]
MCPaths ==
  {Abs(<<"home", "d">>), Abs(<<"homes">>), Abs(<<"bin">>),
   Rel(<<"..", "home", "d", "s">>), Rel(<<"s">>)}
MCTar == <<"bin">> :> 2

(* io_uring: requests with every operation, flag and priority branch. *)
Flags(prio, chain, linked, fixed) ==
  [Zeroed.request EXCEPT !.prio = prio, !.chain = chain, !.linked = linked,
                         !.fixed = fixed]
MCRequests ==
  {[Flags(0, TRUE, FALSE, FALSE) EXCEPT !.op = "open", !.path = Abs(<<"homes">>)],
   [Flags(0, FALSE, TRUE, FALSE) EXCEPT !.op = "close"],
   [Flags(0, FALSE, FALSE, FALSE) EXCEPT !.op = "writev", !.fd = 3, !.iovec = <<1, 2>>],
   [Flags(4, TRUE, TRUE, FALSE) EXCEPT !.op = "readv", !.iovec = <<1, 2>>],
   [Flags(5, FALSE, FALSE, TRUE) EXCEPT !.op = "read", !.fd = 0, !.len = 1],
   [Flags(1, FALSE, FALSE, FALSE) EXCEPT !.op = "read_zc", !.fd = 3, !.len = 2]}
MCTables == {<<3>>}

(* Object store: d1 and d2 differ after their first 32 bytes only. *)
MCParent == [p \in {"/a", "/b", "/a/c"} |-> IF p = "/a/c" THEN "/a" ELSE "/"]
MCData == [d \in {"d1", "d2", "d3"} |-> IF d = "d3" THEN 2 ELSE 1]
MCHash == [d \in {"d1", "d2", "d3"} |-> IF d = "d3" THEN "h2" ELSE "h1"]
MCRights == {{"read", "write", "delete", "share"}, {"read"}}

(* FAT32: a root directory of two clusters, a subdirectory and a file whose
   clusters are 5, 6 and 7 in different orders, also cut short. *)
FatSlot(kind, short, fragment, first, size) ==
  [kind |-> kind, short |-> short, fragment |-> fragment, first |-> first,
   size |-> size]
MCFats ==
  {(2 :> 3 @@ 3 :> 99 @@ 4 :> 99) @@ chain :
     chain \in {5 :> 6 @@ 6 :> 7 @@ 7 :> 99, 5 :> 7 @@ 6 :> 99 @@ 7 :> 6,
                5 :> 7 @@ 6 :> 0 @@ 7 :> 99}}
MCSectors ==
  18 :> FatSlot("lfn", "", "1", 0, 0) @@
  19 :> FatSlot("file", "A", "", 5, 21) @@
  20 :> FatSlot("dir", "S", "", 4, 0) @@
  21 :> EndSlot @@
  22 :> FatSlot("dot", ".", "", 4, 0) @@
  23 :> FatSlot("file", "B", "", 7, 8)
MCFatPaths ==
  {<<>>, <<<<"1">>>>, <<<<"A">>>>, <<<<"S">>, <<"B">>>>, <<<<"1">>, <<"B">>>>}
MCSlots ==
  {FatSlot(k, "a", "1", 0, 0) : k \in {"lfn", "file"}} \cup
  {FatSlot(k, "b", "2", 0, 0) :
     k \in {"lfn", "dir", "deleted", "deleted_lfn", "end", "volume", "dot"}}

allVars == <<pathVars, uringVars, storeVars, fatVars, scanVars, which, calls>>

MCInit ==
  /\ PathInit /\ FilesInit /\ UringInit /\ StoreInit /\ ScanInit /\ calls = 0
  /\ \/ which \in {"paths", "files", "uring", "objects", "scan"}
        /\ FatInit /\ disk.bad = {} /\ disk.fat = CHOOSE fat \in Fats : TRUE
     \/ which = "fat" /\ FatInit

Counted(bound) == calls < bound /\ calls' = calls + 1

MCNext ==
  /\ which' = which
  /\ \/ /\ which = "paths" /\ PathNext
        /\ UNCHANGED <<uringVars, storeVars, fatVars, scanVars, calls>>
     \/ /\ which = "files" /\ Counted(MaxCalls) /\ FilesNext
        /\ UNCHANGED <<pathVars, ringVars, storeVars, fatVars, scanVars>>
     \/ /\ which = "uring" /\ UringNext
        /\ UNCHANGED <<pathVars, storeVars, fatVars, scanVars, calls>>
     \/ /\ which = "objects" /\ Counted(MaxOps) /\ StoreNext
        /\ UNCHANGED <<pathVars, uringVars, fatVars, scanVars>>
     \/ /\ which = "fat" /\ FatNext
        /\ UNCHANGED <<pathVars, uringVars, storeVars, scanVars, calls>>
     \/ /\ which = "scan" /\ ScanningNext
        /\ UNCHANGED <<pathVars, uringVars, storeVars, fatVars, calls>>

MCSpec == MCInit /\ [][MCNext]_allVars
=============================================================================
