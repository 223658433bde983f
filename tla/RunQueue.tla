------------------------------ MODULE RunQueue ------------------------------
(***************************************************************************)
(* A run queue as the scheduler uses it: a sequence of at most MaxTasks    *)
(* task slots.  TaskQueue.tla shows that the circular buffer of the kernel *)
(* implements these operations.                                            *)
(***************************************************************************)
EXTENDS Integers, Sequences

CONSTANT MaxTasks   \* MAX_TASKS

ASSUME MaxTasksAssumption == MaxTasks \in Nat \ {0}

Slots == 0..(MaxTasks - 1)

\* A full queue drops the entry without saying so.
push_back(q, slot) == IF Len(q) >= MaxTasks THEN q ELSE Append(q, slot)

push_front(q, slot) == IF Len(q) >= MaxTasks THEN q ELSE <<slot>> \o q

\* All occurrences of slot, the others keep their order.
remove(q, slot) ==
  LET kept[n \in 0..Len(q)] ==
        IF n = 0 THEN <<>>
        ELSE IF q[n] = slot THEN kept[n - 1] ELSE Append(kept[n - 1], q[n])
  IN kept[Len(q)]
=============================================================================
