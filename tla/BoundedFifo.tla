---------------------------- MODULE BoundedFifo ----------------------------
(***************************************************************************)
(* What a bounded single-producer single-consumer queue promises to its    *)
(* two callers: a push succeeds exactly when there is room and then joins  *)
(* the end of the queue, a pop returns the oldest value or reports that    *)
(* the queue is empty.  pushRes and popRes are the values last returned.   *)
(***************************************************************************)
EXTENDS Integers, Sequences

CONSTANTS N,        \* capacity
          Msgs,     \* values that can be pushed
          None      \* what a pop of an empty queue returns

VARIABLES q, pushRes, popRes

fifoVars == <<q, pushRes, popRes>>

FifoInit == q = <<>> /\ pushRes = "ok" /\ popRes = None

Push(v) ==
  /\ Len(q) < N
  /\ q' = Append(q, v)
  /\ pushRes' = "ok"
  /\ UNCHANGED popRes

PushFull ==
  /\ Len(q) = N
  /\ pushRes' = "err"
  /\ UNCHANGED <<q, popRes>>

Pop ==
  /\ q # <<>>
  /\ popRes' = Head(q)
  /\ q' = Tail(q)
  /\ UNCHANGED pushRes

PopEmpty ==
  /\ q = <<>>
  /\ popRes' = None
  /\ UNCHANGED <<q, pushRes>>

FifoNext == (\E v \in Msgs : Push(v)) \/ PushFull \/ Pop \/ PopEmpty

FifoSpec == FifoInit /\ [][FifoNext]_fifoVars
=============================================================================
