----------------------------- MODULE Scheduler -----------------------------
(***************************************************************************)
(* kernel/src/scheduler: the multilevel feedback queue and the blocking    *)
(* API around it, on the one CPU the kernel runs on.                       *)
(*                                                                         *)
(* sched is the Scheduler behind the SCHEDULER spinlock; an operator whose *)
(* first argument is s is the method of that name and returns the state it *)
(* leaves.  A critical section runs with interrupts off and is one step;   *)
(* so is an interrupt handler, all gates being interrupt gates.  pc[slot]  *)
(* says where a task is between two critical sections of one call.         *)
(*                                                                         *)
(* Task fields nobody reads are left out: base_priority, ticks,            *)
(* waiting_on, and awake_pending, which wake_task sets and nothing tests.  *)
(***************************************************************************)
EXTENDS RunQueue

CONSTANTS PriorityLevels,  \* PRIORITY_LEVELS
          BoostInterval,   \* BOOST_INTERVAL, in ticks
          NoTask,          \* NO_TASK
          MaxIds,          \* bound: number of spawn calls
          SpawnPriorities, \* priorities passed to spawn
          Calls,           \* what tasks do: a subset of CallNames
          AllocMayFail,    \* whether a spawn can run out of memory
          IrqWakes         \* whether interrupt handlers call wake_task

CallNames == {"yield", "block", "wake", "exit", "exec", "join", "thread"}

ASSUME SchedulerAssumption ==
  /\ PriorityLevels \in Nat \ {0, 1}
  /\ BoostInterval \in Nat \ {0, 1}
  /\ NoTask \notin Int
  /\ MaxIds \in Nat
  /\ SpawnPriorities \subseteq Nat
  /\ Calls \subseteq CallNames
  /\ AllocMayFail \in BOOLEAN /\ IrqWakes \in BOOLEAN

VARIABLES sched,    \* the Scheduler structure
          pc,       \* per slot: the call its task is in
          joining,  \* per slot: the task id wait_task waits for
          started   \* ACTIVE

vars == <<sched, pc, joining, started>>

Levels == 0..(PriorityLevels - 1)

\* QUANTA, in ticks.
Quantum(level) == 2^level

Least(S) == CHOOSE x \in S : \A y \in S : x <= y

EmptySlot == [id |-> NoTask, state |-> "None", priority |-> 0, ticks_used |-> 0, user |-> FALSE]

NewScheduler ==
  [tasks |-> [slot \in Slots |-> EmptySlot],
   queues |-> [level \in Levels |-> <<>>],
   current |-> NoTask,
   boost_countdown |-> BoostInterval,
   next_id |-> 0]

Exists(s, slot) == s.tasks[slot].state # "None"

-----------------------------------------------------------------------------
(* mlfq.rs *)

FreeSlots(s) == {slot \in Slots : ~Exists(s, slot)}

\* The task structure spawn and spawn_user store, once its memory is there.
NewTask(id, prio, user) ==
  [id |-> id, state |-> "Ready", priority |-> prio, ticks_used |-> 0, user |-> user]

\* The id is used up before the allocation that can fail.
spawn(s, priority, user, ok) ==
  LET slot == Least(FreeSlots(s))
      prio == IF user \/ priority < PriorityLevels THEN priority ELSE PriorityLevels - 1
      counted == [s EXCEPT !.next_id = @ + 1]
  IN IF FreeSlots(s) = {} THEN s
     ELSE IF ~ok THEN counted
     ELSE [counted EXCEPT !.tasks[slot] = NewTask(s.next_id, prio, user),
                          !.queues[prio] = push_back(@, slot)]

kill(s, slot) ==
  [s EXCEPT !.tasks[slot].state = "Dead",
            !.queues[s.tasks[slot].priority] = remove(@, slot)]

\* All queues in order of level, as boost_all appends them to level 0.
Drained(s) ==
  LET upto[level \in Levels] ==
        IF level = 0 THEN s.queues[0] ELSE upto[level - 1] \o s.queues[level]
  IN upto[PriorityLevels - 1]

Queued(s, level) == {s.queues[level][i] : i \in DOMAIN s.queues[level]}

\* Mutant: the boosted tasks keep their old priority.
boost_all_no_priority(s) ==
  [s EXCEPT !.queues = [level \in Levels |-> IF level # 0 THEN <<>> ELSE Drained(s)]]

boost_all(s) ==
  LET moved == UNION {Queued(s, level) : level \in Levels \ {0}}
      all == Drained(s)
  IN [s EXCEPT
       !.tasks = [slot \in Slots |->
                   IF slot \in moved /\ Exists(s, slot)
                   THEN [s.tasks[slot] EXCEPT !.priority = 0, !.ticks_used = 0]
                   ELSE s.tasks[slot]],
       !.queues = [level \in Levels |->
                    IF level # 0 THEN <<>>
                    ELSE IF Len(all) > MaxTasks THEN SubSeq(all, 1, MaxTasks)
                    ELSE all]]

demote_current(s) ==
  [s EXCEPT !.tasks[s.current].ticks_used = 0,
            !.tasks[s.current].priority = IF @ < PriorityLevels - 1 THEN @ + 1 ELSE @]

\* Mutant: the countdown is tested before it is decremented.
CountDownLate(s) ==
  IF s.boost_countdown = 0
  THEN [boost_all(s) EXCEPT !.boost_countdown = BoostInterval]
  ELSE [s EXCEPT !.boost_countdown = @ - 1]

\* First half of tick: the anti-starvation countdown.
CountDown(s) ==
  IF s.boost_countdown = 1
  THEN [boost_all(s) EXCEPT !.boost_countdown = BoostInterval]
  ELSE [s EXCEPT !.boost_countdown = @ - 1]

\* Mutant: a task that can sink no lower is not charged, and keeps the CPU.
ChargeAboveLast(s) ==
  [s EXCEPT !.tasks[s.current].ticks_used =
     IF s.tasks[s.current].priority < PriorityLevels - 1 THEN @ + 1 ELSE @]

\* The rest of tick charges the current task; expired says what tick returns.
Charge(s) == [s EXCEPT !.tasks[s.current].ticks_used = @ + 1]

expired(s) == s.tasks[s.current].ticks_used >= Quantum(s.tasks[s.current].priority)

\* The queue entries of a level that pick_next would not skip.
ReadyAt(s, level) ==
  {i \in DOMAIN s.queues[level] : s.tasks[s.queues[level][i]].state = "Ready"}

\* Mutant: below level 0 the scan goes from the last level up.
pick_next_upwards(s) ==
  LET live == {level \in Levels : ReadyAt(s, level) # {}}
      level == IF 0 \in live THEN 0 ELSE CHOOSE k \in live : \A j \in live : j <= k
      i == Least(ReadyAt(s, level))
  IN IF live = {}
     THEN [slot |-> NoTask, queues |-> [k \in Levels |-> <<>>]]
     ELSE [slot |-> s.queues[level][i],
           queues |-> [s.queues EXCEPT ![level] = SubSeq(@, i + 1, Len(@))]]

\* The slot chosen and the queues left: what was popped to find it is gone.
pick_next(s) ==
  LET live == {level \in Levels : ReadyAt(s, level) # {}}
      level == Least(live)
      i == Least(ReadyAt(s, level))
  IN IF live = {}
     THEN [slot |-> NoTask, queues |-> [k \in Levels |-> <<>>]]
     ELSE [slot |-> s.queues[level][i],
           queues |-> [k \in Levels |->
                        IF k < level THEN <<>>
                        ELSE IF k = level THEN SubSeq(s.queues[k], i + 1, Len(s.queues[k]))
                        ELSE s.queues[k]]]

\* The other end of a ring becomes level 0; if it is waiting in a queue it
\* moves to the front of that level.
BoostPeer(s, peer) ==
  LET old_prio == s.tasks[peer].priority
      boosted == [s EXCEPT !.tasks[peer].priority = 0, !.tasks[peer].ticks_used = 0]
  IN IF ~Exists(s, peer) THEN s
     ELSE IF s.tasks[peer].state = "Ready" /\ old_prio # 0
     THEN [boosted EXCEPT !.queues[old_prio] = remove(@, peer),
                          !.queues[0] = push_front(@, peer)]
     ELSE boosted

\* slot is Blocked when block_current calls this, so the queue move of the
\* one-level boost is never taken.
boost_for_reason(s, slot, reason) ==
  CASE reason.kind = "SpscRingEmpty" ->
         [BoostPeer(s, reason.peer) EXCEPT !.tasks[slot].priority = 0,
                                           !.tasks[slot].ticks_used = 0]
    [] reason.kind = "SpscRingFull" -> BoostPeer(s, reason.peer)
    [] reason.kind = "FileRead" ->
         [s EXCEPT !.tasks[slot].ticks_used = 0,
                   !.tasks[slot].priority = IF @ > 0 THEN @ - 1 ELSE 0]
    [] reason.kind = "Waiting" -> s

-----------------------------------------------------------------------------
(* mod.rs *)

\* Mutant: the old task is queued without being made Ready.
reschedule_still_running(s) ==
  LET requeued == IF s.tasks[s.current].state = "Running"
                  THEN [s EXCEPT !.queues[s.tasks[s.current].priority] = push_back(@, s.current)]
                  ELSE s
      picked == pick_next(requeued)
      new == IF picked.slot = NoTask THEN s.current ELSE picked.slot
  IN [requeued EXCEPT !.queues = picked.queues, !.current = new, !.tasks[new].state = "Running"]

\* Mutant: the old task is queued whatever its state.
reschedule_queues_all(s) ==
  LET old == s.current
      ready == IF s.tasks[old].state = "Running" THEN [s EXCEPT !.tasks[old].state = "Ready"] ELSE s
      requeued == [ready EXCEPT !.queues[s.tasks[old].priority] = push_back(@, old)]
      picked == pick_next(requeued)
      new == IF picked.slot = NoTask THEN old ELSE picked.slot
  IN [requeued EXCEPT !.queues = picked.queues, !.current = new, !.tasks[new].state = "Running"]

\* A task that was Running goes to the back of its queue; the highest ready
\* task runs.  With nothing ready, or the same task picked, the old task is
\* made Running, whatever its state was.
reschedule(s) ==
  LET old == s.current
      prio == s.tasks[old].priority
      requeued == IF s.tasks[old].state = "Running"
                  THEN [s EXCEPT !.tasks[old].state = "Ready",
                                 !.queues[prio] = push_back(@, old)]
                  ELSE s
      picked == pick_next(requeued)
      new == IF picked.slot = NoTask THEN old ELSE picked.slot
  IN [requeued EXCEPT !.queues = picked.queues,
                      !.current = new,
                      !.tasks[new].state = "Running"]

block(s, reason) ==
  boost_for_reason([s EXCEPT !.tasks[s.current].state = "Blocked"], s.current, reason)

\* The slots holding the task with this id; position() takes the first.
SlotsOf(s, id) == {slot \in Slots : Exists(s, slot) /\ s.tasks[slot].id = id}

\* Mutant: wakes a task that is not Blocked.
wake_task_unchecked(s, id) ==
  LET slot == Least(SlotsOf(s, id))
  IN IF SlotsOf(s, id) # {}
     THEN [s EXCEPT !.tasks[slot].state = "Ready",
                    !.queues[s.tasks[slot].priority] = push_back(@, slot)]
     ELSE s

wake_task(s, id) ==
  LET slot == Least(SlotsOf(s, id))
  IN IF SlotsOf(s, id) # {} /\ s.tasks[slot].state = "Blocked"
     THEN [s EXCEPT !.tasks[slot].state = "Ready",
                    !.queues[s.tasks[slot].priority] = push_back(@, slot)]
     ELSE s

\* replace_current_task: a fresh task structure, at level 1, in the old slot.
replace_current_task(s) ==
  [s EXCEPT !.tasks[s.current] = [NewTask(@.id, 1, TRUE) EXCEPT !.state = "Running"]]

-----------------------------------------------------------------------------
(* Who runs what.  A user task enters the kernel through SYSCALL, which     *)
(* masks interrupts until it returns or is switched out; a kernel thread    *)
(* runs with interrupts on.  test_kernel_task, id 0, only halts.            *)

current == sched.current

Me == sched.tasks[current]

\* The current task is between two calls and may make the one named.
MayCall(name) ==
  /\ started /\ pc[current] = "run"
  /\ Me.id # 0
  /\ name \in Calls

InterruptsOn == started /\ (Me.user => pc[current] = "run")

\* kmain has spawned test_kernel_task and is about to load the programs.
Init ==
  /\ sched = spawn(NewScheduler, 1, FALSE, TRUE)
  /\ pc = [slot \in Slots |-> "run"]
  /\ joining = [slot \in Slots |-> NoTask]
  /\ started = FALSE

Spawn(priority, user, ok) ==
  /\ ~started /\ sched.next_id < MaxIds
  /\ user => priority = 1
  /\ user \/ "thread" \in Calls
  /\ ok \/ AllocMayFail
  /\ sched' = spawn(sched, priority, user, ok)
  /\ UNCHANGED <<pc, joining, started>>

\* run panics when nothing is ready; test_kernel_task is.
Run ==
  /\ ~started
  /\ LET picked == pick_next(sched)
     IN /\ picked.slot # NoTask
        /\ sched' = [sched EXCEPT !.queues = picked.queues, !.current = picked.slot,
                                  !.tasks[picked.slot].state = "Running"]
  /\ started' = TRUE
  /\ UNCHANGED <<pc, joining>>

\* The timer interrupt.
Tick ==
  /\ InterruptsOn
  /\ LET charged == Charge(CountDown(sched))
     IN sched' = IF expired(charged) THEN reschedule(demote_current(charged)) ELSE charged
  /\ UNCHANGED <<pc, joining, started>>

Yield ==
  /\ MayCall("yield")
  /\ sched' = reschedule(sched)
  /\ UNCHANGED <<pc, joining, started>>

\* User tasks block in sys_read; kernel threads at either end of a ring.
Reasons ==
  {[kind |-> "Waiting"]} \cup
  IF Me.user THEN {} ELSE
    {[kind |-> "FileRead"]} \cup
    {[kind |-> kind, peer |-> peer] :
       kind \in {"SpscRingEmpty", "SpscRingFull"}, peer \in Slots \ {current}}

\* block_current up to the release of the lock; int 49 is still to come.
BlockCurrent(reason) ==
  /\ MayCall("block")
  /\ sched' = block(sched, reason)
  /\ pc' = [pc EXCEPT ![current] = "blocking"]
  /\ UNCHANGED <<joining, started>>

\* exit_current, likewise.
ExitCurrent ==
  /\ MayCall("exit")
  /\ sched' = kill(sched, current)
  /\ pc' = [pc EXCEPT ![current] = "exiting"]
  /\ UNCHANGED <<joining, started>>

\* int 49: a task that blocked returns to its caller when it runs again, one
\* that exited halts.
CheckReschedule ==
  /\ started /\ pc[current] \in {"blocking", "exiting"}
  /\ sched' = reschedule(sched)
  /\ pc' = [pc EXCEPT ![current] = IF @ = "blocking" THEN "run" ELSE "halted"]
  /\ UNCHANGED <<joining, started>>

\* wake_task, called by the running task or by an interrupt handler.  The
\* handlers wake tasks that wait in sys_read or for a driver ring: user tasks.
WakeTask(id) ==
  /\ "wake" \in Calls
  /\ InterruptsOn
  /\ SlotsOf(sched, id) # {}
  /\ \/ pc[current] = "run"
     \/ IrqWakes /\ \A slot \in SlotsOf(sched, id) : sched.tasks[slot].user
  /\ sched' = wake_task(sched, id)
  /\ UNCHANGED <<pc, joining, started>>

ExecReplace ==
  /\ MayCall("exec") /\ Me.user
  /\ sched' = replace_current_task(sched)
  /\ UNCHANGED <<pc, joining, started>>

\* The wait syscall; pids are those of the other tasks.
WaitTask(id) ==
  /\ MayCall("join") /\ Me.user
  /\ id # Me.id
  /\ pc' = [pc EXCEPT ![current] = "joining"]
  /\ joining' = [joining EXCEPT ![current] = id]
  /\ UNCHANGED <<sched, started>>

\* One turn of the loop of wait_task: return, or yield and look again.
WaitPoll ==
  /\ started /\ pc[current] = "joining"
  /\ IF SlotsOf(sched, joining[current]) = {}
     THEN /\ pc' = [pc EXCEPT ![current] = "run"]
          /\ joining' = [joining EXCEPT ![current] = NoTask]
          /\ UNCHANGED sched
     ELSE /\ sched' = reschedule(sched)
          /\ UNCHANGED <<pc, joining>>
  /\ UNCHANGED <<started>>

Next ==
  \/ \E p \in SpawnPriorities, user, ok \in BOOLEAN : Spawn(p, user, ok)
  \/ Run \/ Tick \/ Yield \/ ExitCurrent \/ CheckReschedule
  \/ started /\ \E reason \in Reasons : BlockCurrent(reason)
  \/ \E id \in 0..MaxIds : WakeTask(id)
  \/ ExecReplace
  \/ \E id \in 0..MaxIds : WaitTask(id)
  \/ WaitPoll

Spec == Init /\ [][Next]_vars

\* PIT ticks are latched while interrupts are masked and delivered at the
\* first instruction that unmasks them: strong fairness.  Tick always moves
\* boost_countdown, so it is enabled exactly when interrupts are on.
FairTick == []<>InterruptsOn => []<><<Tick>>_vars

\* A task in the middle of a kernel call goes on with it when it is current.
Fairness ==
  /\ WF_vars(Run)
  /\ FairTick
  /\ WF_vars(CheckReschedule)
  /\ WF_vars(WaitPoll)

FairSpec == Spec /\ Fairness

-----------------------------------------------------------------------------

TaskType ==
  [id : 0..MaxIds, state : {"Ready", "Running", "Blocked", "Dead"},
   priority : Levels, ticks_used : Nat, user : BOOLEAN]

\* The Scheduler structure is well formed; the countdown never reaches zero,
\* where the next decrement of the u64 would underflow.
TypeOK ==
  /\ sched.tasks \in [Slots -> TaskType \cup {EmptySlot}]
  /\ sched.queues \in [Levels -> Seq(Slots)]
  /\ sched.current \in Slots \cup {NoTask}
  /\ sched.boost_countdown \in 1..BoostInterval
  /\ sched.next_id \in 0..(MaxIds + 1)
  /\ pc \in [Slots -> {"run", "blocking", "exiting", "halted", "joining"}]
  /\ joining \in [Slots -> 0..MaxIds \cup {NoTask}]
  /\ started \in BOOLEAN

StateOf(slot) == sched.tasks[slot].state

\* No two tasks run: a Running task is the current one, and the current one
\* is Running unless block_current or exit_current is about to switch it out.
OneRunning ==
  /\ \A slot \in Slots : StateOf(slot) = "Running" => slot = current
  /\ started => \/ StateOf(current) = "Running"
                \/ pc[current] \in {"blocking", "exiting"}

Entries(slot) ==
  {e \in Levels \X (1..MaxTasks) :
     e[2] \in DOMAIN sched.queues[e[1]] /\ sched.queues[e[1]][e[2]] = slot}

\* No ready task is lost or queued where pick_next, kill and
\* boost_for_reason would miss it: it has one queue entry, at its own level.
ReadyIsFiled ==
  \A slot \in Slots : StateOf(slot) = "Ready" =>
    \E i \in 1..MaxTasks : Entries(slot) = {<<sched.tasks[slot].priority, i>>}

\* "If it's Running or Blocked, it's not in any queue."  (boost_for_reason)
\* Nor if it is Dead.
OnlyReadyQueued ==
  \A slot \in Slots : StateOf(slot) # "Ready" => Entries(slot) = {}

\* A blocked task runs again only after wake_task, a dead one never: the
\* fallback of reschedule that makes the old task Running does not hit them.
NoRevival ==
  [][\A slot \in Slots :
       /\ StateOf(slot) = "Dead" => StateOf(slot)' = "Dead"
       /\ StateOf(slot) = "Blocked" => StateOf(slot)' \in {"Blocked", "Ready"}]_vars

\* A switch never passes over a task of a higher level that could run.
SwitchToHighest ==
  [][current' # current =>
       \A slot \in Slots : StateOf(slot)' = "Ready" =>
         sched.tasks[current].priority' <= sched.tasks[slot].priority']_vars

\* "A periodic priority boost prevents starvation."  (mlfq.rs)
\* A task that is ready gets the CPU.
BoostPreventsStarvation ==
  \A slot \in Slots : StateOf(slot) = "Ready" ~> StateOf(slot) = "Running"

\* The loop of wait_task polls with interrupts masked: while it has the CPU no
\* tick, and so no boost, can come.
Polling == started /\ pc[current] = "joining"

\* What the boost does achieve: a task that is ready gets the CPU, unless from
\* some moment on nothing runs but tasks polling in wait_task.
NoStarvation == []<>~Polling => BoostPreventsStarvation
=============================================================================
