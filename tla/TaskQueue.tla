----------------------------- MODULE TaskQueue -----------------------------
(***************************************************************************)
(* mlfq.rs: TaskQueue, the circular buffer behind one priority level.      *)
(* Every sequence of calls its owner can make is explored; the calls run   *)
(* under the scheduler lock, so each is one step.                          *)
(***************************************************************************)
EXTENDS RunQueue

CONSTANT NoTask     \* NO_TASK

ASSUME NoTaskAssumption == NoTask \notin Slots

VARIABLES q,        \* the buffer: buf, head, tail, len
          call,     \* the last call made: its name and argument
          popped    \* what the last pop_front returned

bufVars == <<q, call, popped>>

NewQueue == [buf |-> [i \in Slots |-> NoTask], head |-> 0, tail |-> 0, len |-> 0]

\* push_back of the buffer.
BufPushBack(r, id) ==
  IF r.len >= MaxTasks THEN r
  ELSE [r EXCEPT !.buf[r.tail] = id,
                 !.tail = (r.tail + 1) % MaxTasks,
                 !.len = @ + 1]

\* Mutant: stores the entry before it moves head.
BufPushFrontEarly(r, id) ==
  LET head == IF r.head = 0 THEN MaxTasks - 1 ELSE r.head - 1
  IN IF r.len >= MaxTasks THEN r
     ELSE [r EXCEPT !.head = head, !.buf[r.head] = id, !.len = @ + 1]

\* push_front of the buffer.
BufPushFront(r, id) ==
  LET head == IF r.head = 0 THEN MaxTasks - 1 ELSE r.head - 1
  IN IF r.len >= MaxTasks THEN r
     ELSE [r EXCEPT !.head = head, !.buf[head] = id, !.len = @ + 1]

\* The state pop_front leaves; the entry it returns is buf[head].
BufPopFront(r) ==
  IF r.len = 0 THEN r
  ELSE [r EXCEPT !.head = (r.head + 1) % MaxTasks, !.len = @ - 1]

\* remove pops every entry and pushes those it keeps into a new buffer:
\* rest is what is left to pop, new what has been kept.
BufRemove(r, id) ==
  LET copied[n \in 0..MaxTasks] ==
        IF n = 0 THEN [rest |-> r, new |-> NewQueue]
        ELSE LET c == copied[n - 1]
                 tid == c.rest.buf[c.rest.head]
             IN IF c.rest.len = 0 THEN c
                ELSE [rest |-> BufPopFront(c.rest),
                      new |-> IF tid = id THEN c.new ELSE BufPushBack(c.new, tid)]
  IN copied[MaxTasks].new

BufInit == q = NewQueue /\ call = <<"new", NoTask>> /\ popped = NoTask

PushBack(id) ==
  /\ q' = BufPushBack(q, id)
  /\ call' = <<"push_back", id>>
  /\ UNCHANGED popped

PushFront(id) ==
  /\ q' = BufPushFront(q, id)
  /\ call' = <<"push_front", id>>
  /\ UNCHANGED popped

PopFront ==
  /\ q' = BufPopFront(q)
  /\ call' = <<"pop_front", NoTask>>
  /\ popped' = IF q.len = 0 THEN NoTask ELSE q.buf[q.head]

Remove(id) ==
  /\ q' = BufRemove(q, id)
  /\ call' = <<"remove", id>>
  /\ UNCHANGED popped

BufNext ==
  \/ \E id \in Slots : PushBack(id) \/ PushFront(id) \/ Remove(id)
  \/ PopFront

BufSpec == BufInit /\ [][BufNext]_bufVars

-----------------------------------------------------------------------------

\* The entries from head on, oldest first.
BufContents == [i \in 1..q.len |-> q.buf[(q.head + i - 1) % MaxTasks]]

\* What the scheduler sees of a queue: the sequence operations of RunQueue.
Deque == INSTANCE RunQueueSpec WITH seq <- BufContents

\* The circular buffer behaves as the bounded sequence the scheduler is
\* written against, for every sequence of operations.
RefinesRunQueue == Deque!QueueSpec
=============================================================================
