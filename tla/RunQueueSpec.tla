---------------------------- MODULE RunQueueSpec ----------------------------
(* The run queue of RunQueue.tla as a state machine: what a caller of a     *)
(* queue sees of any sequence of its operations.                            *)
EXTENDS RunQueue

CONSTANT NoTask

VARIABLES seq, call, popped

queueVars == <<seq, call, popped>>

QueueInit == seq = <<>> /\ call = <<"new", NoTask>> /\ popped = NoTask

QueuePop ==
  /\ call' = <<"pop_front", NoTask>>
  /\ \/ seq = <<>> /\ popped' = NoTask /\ UNCHANGED seq
     \/ seq # <<>> /\ popped' = Head(seq) /\ seq' = Tail(seq)

QueueEdit(name, id, edited) ==
  /\ call' = <<name, id>>
  /\ seq' = edited
  /\ UNCHANGED popped

QueueNext ==
  \/ QueuePop
  \/ \E id \in Slots :
       \/ QueueEdit("push_back", id, push_back(seq, id))
       \/ QueueEdit("push_front", id, push_front(seq, id))
       \/ QueueEdit("remove", id, remove(seq, id))

QueueSpec == QueueInit /\ [][QueueNext]_queueVars
=============================================================================
