---------------------------- MODULE MCPrimitives ----------------------------
(* The three structures everything else in the kernel stands on, each       *)
(* explored on its own: which says the one this behaviour is about, the     *)
(* other two stay as they were made.                                        *)
EXTENDS SpscRing, TaskQueue, Spinlock

VARIABLE which

mcVars == <<which, ringVars, bufVars, lockVars>>

MCInit ==
  /\ which \in {"ring", "queue", "lock"}
  /\ RingInit /\ BufInit /\ LockInit

MCNext ==
  /\ UNCHANGED which
  /\ \/ which = "ring" /\ RingNext /\ UNCHANGED <<bufVars, lockVars>>
     \/ which = "queue" /\ BufNext /\ UNCHANGED <<ringVars, lockVars>>
     \/ which = "lock" /\ LockNext /\ UNCHANGED <<ringVars, bufVars>>

MCSpec == MCInit /\ [][MCNext]_mcVars
=============================================================================
