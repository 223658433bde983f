--------------------------- MODULE SyscallProofs ---------------------------
(***************************************************************************)
(* What system calls do around the scheduler: the two ends of a channel,   *)
(* for any capacity, and entry into the kernel and the way back, for any   *)
(* number of images; both for any number of tasks and levels.              *)
(*                                                                         *)
(* ChanInv adds to the scheduler's IInv where each end is in its call: the *)
(* flag of an end that has found nothing is seen (Seen), and in a system   *)
(* call no other task comes between its steps (Unbroken).                  *)
(*                                                                         *)
(* EntryInv adds to the scheduler's IInv what is on every kernel stack     *)
(* (Parked), whose stack the next entry will use, and whose page table is  *)
(* in the global cell when there is one user program (Cr3Kept).            *)
(***************************************************************************)
EXTENDS Channel, SyscallEntry, SchedulerProofs

-----------------------------------------------------------------------------
(* The channel *)

\* Where an end may be in its call.
Steps == {"idle", "try", "flag", "retry", "block", "swap", "wake", "clear"}

\* The types of the channel's variables.
ChanType ==
  /\ len \in 0..Capacity
  /\ at \in [Roles -> Steps]
  /\ blocking \in [Roles -> BOOLEAN]
  /\ recheck \in [Roles -> BOOLEAN]
  /\ waiting \in [Roles -> BOOLEAN]

\* The tasks are test_kernel_task and the two ends, each with its slot for an
\* id, and the ends are of one kind.
Ends(s) ==
  /\ \A slot \in Slots : Exists(s, slot) <=> slot \in 0..2
  /\ \A slot \in 0..2 : s.tasks[slot].id = slot
  /\ s.tasks[SlotOf("P")].user = s.tasks[SlotOf("C")].user

\* The task of an end is blocked; no call but send and recv blocks it.
Asleep(r) == StateOf(SlotOf(r)) = "Blocked"

\* ConsumerWokenOnTop, for a consumer that is asleep.
ConsumerOnTop == InSyscalls /\ Asleep("C") => sched.tasks[SlotOf("C")].priority = 0

\* FlagWillBeSeen, from the moment on where only block_current is left to do.
Seen(r) ==
  (at[r] = "block" \/ Asleep(r)) /\ waiting[r] /\ CanTransfer(r) => at[Peer(r)] = "swap"

\* Inside a system call nothing comes between the steps of a call, so the flag
\* is up and the ring unchanged when it blocks, and stays so until the other
\* end is between its swap and wake_task.
Unbroken(r) ==
  /\ at[r] \notin {"idle", "try"} => started /\ current = SlotOf(r) /\ pc[current] = "run"
  /\ at[r] \in {"retry", "block"} => waiting[r]
  /\ at[r] = "block" => ~CanTransfer(r)
  /\ Asleep(r) => waiting[r] \/ at[Peer(r)] = "wake"
  /\ Asleep(r) /\ CanTransfer(r) => at[Peer(r)] \in {"swap", "wake"}

\* The inductive invariant.
ChanInv ==
  /\ IInv
  /\ ChanType
  /\ Ends(sched)
  /\ \A r \in Roles : Seen(r)
  /\ InSyscalls => \A r \in Roles : Unbroken(r)
  /\ ConsumerOnTop

\* The two ends are each other's peer and have slots of their own.
LEMMA RoleFacts ==
  ASSUME NEW r \in Roles
  PROVE  /\ Peer(r) \in Roles /\ Peer(r) # r /\ Peer(Peer(r)) = r
         /\ \A q \in Roles : q = r \/ q = Peer(r)
         /\ SlotOf(r) \in 1..2 /\ SlotOf(Peer(r)) # SlotOf(r)
         /\ SlotOf(r) \in Slots /\ SlotOf(r) # 0
<1>1. 1 \in Slots /\ 2 \in Slots
  BY ChannelAssumption, MaxTasksAssumption DEF Slots
<1> QED
  BY <1>1 DEF Roles, Peer, SlotOf

\* The caller of a step is Running, and in a system call the other end has
\* not got past its first try.
LEMMA RunningFacts ==
  ASSUME ChanInv, NEW r \in Roles, started, current = SlotOf(r), pc[current] = "run"
  PROVE  /\ ~Asleep(r) /\ StateOf(SlotOf(r)) = "Running"
         /\ InSyscalls => at[Peer(r)] \in {"idle", "try"}
<1>1. StateOf(SlotOf(r)) = "Running"
  BY CallerFacts, Zenon DEF ChanInv, StateOf
<1>2. InSyscalls => at[Peer(r)] \in {"idle", "try"}
  BY RoleFacts, Zenon DEF ChanInv, Unbroken
<1> QED
  BY <1>1, <1>2, Zenon DEF Asleep

\* A step of a call that leaves the scheduler alone.
LEMMA QuietStep ==
  ASSUME ChanInv, UNCHANGED vars, ChanType',
         \A r \in Roles : Seen(r)',
         InSyscalls => \A r \in Roles : Unbroken(r)'
  PROVE  ChanInv'
<1>1. IInv'
  BY NextStep, Zenon DEF ChanInv
<1>2. sched' = sched
  BY Zenon DEF vars
<1>3. Ends(sched)' /\ (InSyscalls' <=> InSyscalls) /\ ConsumerOnTop'
  BY <1>2, Zenon DEF ChanInv, Ends, InSyscalls, ConsumerOnTop, Asleep, StateOf
<1> QED
  BY <1>1, <1>3, Zenon DEF ChanInv

\* send, recv, try_send or try_recv is called.
LEMMA BeginStep ==
  ASSUME ChanInv, NEW r \in Roles, NEW blocks \in BOOLEAN, Begin(r, blocks)
  PROVE  ChanInv'
<1>1. /\ started /\ current = SlotOf(r) /\ pc[current] = "run" /\ at[r] = "idle"
      /\ at' = [at EXCEPT ![r] = "try"] /\ recheck' = [recheck EXCEPT ![r] = FALSE]
      /\ blocking' = [blocking EXCEPT ![r] = blocks]
      /\ UNCHANGED vars /\ sched' = sched /\ len' = len /\ waiting' = waiting
      /\ pc' = pc /\ started' = started
  BY Zenon DEF Begin, Running, Goto, vars
<1>2. ~Asleep(r) /\ (InSyscalls => at[Peer(r)] \in {"idle", "try"})
  BY <1>1, RunningFacts, Zenon
<1>3. ChanType'
  BY <1>1, Zenon DEF ChanInv, ChanType, Steps
<1>4. \A q \in Roles : Seen(q)'
  BY <1>1, <1>2, RoleFacts, Zenon DEF ChanInv, ChanType, Seen, Asleep, StateOf, CanTransfer
<1>5. InSyscalls => \A q \in Roles : Unbroken(q)'
  BY <1>1, <1>2, RoleFacts, Zenon
     DEF ChanInv, ChanType, Unbroken, Asleep, StateOf, CanTransfer, current
<1> QED
  BY <1>1, <1>3, <1>4, <1>5, QuietStep, Zenon

\* The value goes in or comes out; maybe_wake_* is next.
LEMMA TrySucceedsStep ==
  ASSUME ChanInv, NEW r \in Roles, TrySucceeds(r)
  PROVE  ChanInv'
<1>1. /\ started /\ current = SlotOf(r) /\ pc[current] = "run" /\ CanTransfer(r)
      /\ at[r] \in {"try", "retry"} /\ at' = [at EXCEPT ![r] = "swap"]
      /\ len' = IF r = "P" THEN len + 1 ELSE len - 1
      /\ UNCHANGED vars /\ sched' = sched /\ blocking' = blocking /\ waiting' = waiting
      /\ pc' = pc /\ started' = started
  BY Zenon DEF TrySucceeds, Running, Goto, Transfer, vars
<1>2. ~Asleep(r) /\ (InSyscalls => at[Peer(r)] \in {"idle", "try"})
  BY <1>1, RunningFacts, Zenon
<1>3. ChanType'
  <2>1. len' \in 0..Capacity
    BY <1>1, ChannelAssumption DEF ChanInv, ChanType, CanTransfer
  <2>2. recheck' \in [Roles -> BOOLEAN]
    BY Zenon DEF TrySucceeds, ChanInv, ChanType
  <2> QED
    BY <1>1, <2>1, <2>2, Zenon DEF ChanInv, ChanType, Steps
<1>4. \A q \in Roles : at'[q] = IF q = r THEN "swap" ELSE at[q]
  BY <1>1, Zenon DEF ChanInv, ChanType
<1>5. \A q \in Roles : Seen(q)'
  BY <1>1, <1>2, <1>4, RoleFacts DEF Seen, Asleep, StateOf
<1>6. InSyscalls => \A q \in Roles : Unbroken(q)'
  BY <1>1, <1>2, <1>4, RoleFacts DEF ChanInv, Unbroken, Asleep, StateOf, current
<1> QED
  BY <1>1, <1>3, <1>5, <1>6, QuietStep, Zenon

\* A step that leaves the ring and the flags of both ends alone, and neither
\* starts nor ends at the swap or at wake_task.
LEMMA MoveStep ==
  ASSUME ChanInv, NEW r \in Roles, started, current = SlotOf(r), pc[current] = "run",
         at[r] \notin {"swap", "wake"},
         NEW step \in Steps, at' = [at EXCEPT ![r] = step],
         step \notin {"retry", "swap", "wake"}, step = "block" => at[r] = "retry" /\ ~CanTransfer(r),
         UNCHANGED <<vars, len, blocking, recheck, waiting>>
  PROVE  ChanInv'
<1>1. /\ UNCHANGED vars /\ sched' = sched /\ pc' = pc /\ started' = started
      /\ len' = len /\ waiting' = waiting /\ blocking' = blocking /\ recheck' = recheck
  BY Zenon DEF vars
<1>2. ~Asleep(r) /\ (InSyscalls => at[Peer(r)] \in {"idle", "try"})
  BY RunningFacts, Zenon
<1>3. ChanType'
  BY <1>1, Zenon DEF ChanInv, ChanType
<1>4. \A q \in Roles : at'[q] = IF q = r THEN step ELSE at[q]
  BY Zenon DEF ChanInv, ChanType
<1>5. \A q \in Roles : Seen(q)'
  BY <1>1, <1>2, <1>4, RoleFacts DEF ChanInv, Seen, Asleep, StateOf, CanTransfer
<1>6. InSyscalls => \A q \in Roles : Unbroken(q)'
  BY <1>1, <1>2, <1>4, RoleFacts DEF ChanInv, Unbroken, Asleep, StateOf, CanTransfer, current
<1> QED
  BY <1>1, <1>3, <1>5, <1>6, QuietStep, Zenon

\* The first try fails: on to the flag, or back to the caller of try_*.
LEMMA TryFailsStep ==
  ASSUME ChanInv, NEW r \in Roles, TryFails(r)
  PROVE  ChanInv'
<1> DEFINE step == IF blocking[r] THEN "flag" ELSE "idle"
<1>1. /\ step \in Steps /\ step \notin {"retry", "swap", "wake"} /\ step # "block"
  BY Zenon DEF Steps
<1>2. /\ started /\ current = SlotOf(r) /\ pc[current] = "run" /\ at[r] = "try"
      /\ at' = [at EXCEPT ![r] = step] /\ UNCHANGED <<vars, len, blocking, recheck, waiting>>
  BY Zenon DEF TryFails, Running, Goto
<1> HIDE DEF step
<1> QED
  BY <1>1, <1>2, MoveStep, Zenon

\* The second try fails with the flag up.
LEMMA RetryFailsStep ==
  ASSUME ChanInv, NEW r \in Roles, RetryFails(r)
  PROVE  ChanInv'
<1>1. /\ started /\ current = SlotOf(r) /\ pc[current] = "run" /\ at[r] = "retry" /\ ~CanTransfer(r)
      /\ at' = [at EXCEPT ![r] = "block"] /\ UNCHANGED <<vars, len, blocking, recheck, waiting>>
  BY Zenon DEF RetryFails, Running, Goto
<1>2. "block" \in Steps
  BY Zenon DEF Steps
<1> QED
  BY <1>1, <1>2, MoveStep, Zenon

\* The flag goes up before the second try.
LEMMA SetFlagStep ==
  ASSUME ChanInv, NEW r \in Roles, SetFlag(r)
  PROVE  ChanInv'
<1>1. /\ started /\ current = SlotOf(r) /\ pc[current] = "run" /\ at[r] = "flag"
      /\ at' = [at EXCEPT ![r] = "retry"] /\ waiting' = [waiting EXCEPT ![r] = TRUE]
      /\ UNCHANGED vars /\ sched' = sched /\ len' = len /\ blocking' = blocking
      /\ recheck' = recheck /\ pc' = pc /\ started' = started
  BY Zenon DEF SetFlag, Running, Goto, vars
<1>2. ~Asleep(r) /\ (InSyscalls => at[Peer(r)] \in {"idle", "try"})
  BY <1>1, RunningFacts, Zenon
<1>3. ChanType'
  BY <1>1, Zenon DEF ChanInv, ChanType, Steps
<1>4. /\ at'[r] = "retry" /\ waiting'[r]
      /\ at'[Peer(r)] = at[Peer(r)] /\ waiting'[Peer(r)] = waiting[Peer(r)]
  <2>1. Peer(r) # r /\ Peer(r) \in Roles
    BY RoleFacts, Zenon
  <2>2. at \in [Roles -> Steps] /\ waiting \in [Roles -> BOOLEAN]
    BY Zenon DEF ChanInv, ChanType
  <2> QED
    BY <1>1, <2>1, <2>2, Zenon
<1>5. \A q \in Roles : Seen(q)'
  BY <1>1, <1>2, <1>4, RoleFacts, SMTT(30) DEF ChanInv, Seen, Asleep, StateOf, CanTransfer
<1>6. InSyscalls => \A q \in Roles : Unbroken(q)'
  BY <1>1, <1>2, <1>4, RoleFacts DEF ChanInv, Unbroken, Asleep, StateOf, CanTransfer, current
<1> QED
  BY <1>1, <1>3, <1>5, <1>6, QuietStep, Zenon

\* maybe_wake_* takes the peer's flag down and remembers that it was up.
LEMMA SwapFlagStep ==
  ASSUME ChanInv, NEW r \in Roles, SwapFlag(r)
  PROVE  ChanInv'
<1> DEFINE step == IF waiting[Peer(r)] THEN "wake" ELSE AfterWake(r)
<1>1. /\ started /\ current = SlotOf(r) /\ pc[current] = "run" /\ at[r] = "swap"
      /\ at' = [at EXCEPT ![r] = step] /\ waiting' = [waiting EXCEPT ![Peer(r)] = FALSE]
      /\ UNCHANGED vars /\ sched' = sched /\ len' = len /\ blocking' = blocking
      /\ recheck' = recheck /\ pc' = pc /\ started' = started
  BY Zenon DEF SwapFlag, Running, Goto, vars
<1>2. ~Asleep(r) /\ (InSyscalls => at[Peer(r)] \in {"idle", "try"})
  BY <1>1, RunningFacts, Zenon
<1>3. step \in {"wake", "clear", "idle"} /\ (waiting[Peer(r)] => step = "wake")
  BY Zenon DEF AfterWake
<1> HIDE DEF step
<1>4. ChanType'
  BY <1>1, <1>3, Zenon DEF ChanInv, ChanType, Steps
<1>5. /\ at'[r] = step /\ waiting'[r] = waiting[r]
      /\ at'[Peer(r)] = at[Peer(r)] /\ ~waiting'[Peer(r)]
  BY <1>1, RoleFacts, Zenon DEF ChanInv, ChanType
<1>6. \A q \in Roles : Seen(q)'
  BY <1>1, <1>2, <1>3, <1>5, RoleFacts, Zenon DEF ChanInv, Seen, Asleep, StateOf, CanTransfer
<1>7. InSyscalls => \A q \in Roles : Unbroken(q)'
  BY <1>1, <1>2, <1>3, <1>5, RoleFacts
     DEF ChanInv, Unbroken, Asleep, StateOf, CanTransfer, current
<1> QED
  BY <1>1, <1>4, <1>6, <1>7, QuietStep, Zenon

\* A second try that succeeded takes its own flag down again.
LEMMA ClearFlagStep ==
  ASSUME ChanInv, NEW r \in Roles, ClearFlag(r)
  PROVE  ChanInv'
<1>1. /\ started /\ current = SlotOf(r) /\ pc[current] = "run" /\ at[r] = "clear"
      /\ at' = [at EXCEPT ![r] = "idle"] /\ waiting' = [waiting EXCEPT ![r] = FALSE]
      /\ UNCHANGED vars /\ sched' = sched /\ len' = len /\ blocking' = blocking
      /\ recheck' = recheck /\ pc' = pc /\ started' = started
  BY Zenon DEF ClearFlag, Running, Goto, vars
<1>2. ~Asleep(r) /\ (InSyscalls => at[Peer(r)] \in {"idle", "try"})
  BY <1>1, RunningFacts, Zenon
<1>3. ChanType'
  BY <1>1, Zenon DEF ChanInv, ChanType, Steps
<1>4. /\ at'[r] = "idle"
      /\ at'[Peer(r)] = at[Peer(r)] /\ waiting'[Peer(r)] = waiting[Peer(r)]
  BY <1>1, RoleFacts, Zenon DEF ChanInv, ChanType
<1>5. \A q \in Roles : Seen(q)'
  BY <1>1, <1>2, <1>4, RoleFacts DEF ChanInv, Seen, Asleep, StateOf, CanTransfer
<1>6. InSyscalls => \A q \in Roles : Unbroken(q)'
  BY <1>1, <1>2, <1>4, RoleFacts DEF ChanInv, Unbroken, Asleep, StateOf, CanTransfer, current
<1> QED
  BY <1>1, <1>3, <1>5, <1>6, QuietStep, Zenon

\* A step that leaves the channel alone and, in a system call, falls between
\* two calls or before the second try.
LEMMA SwitchingStep ==
  ASSUME ChanInv, UNCHANGED chanVars, IInv', Carried,
         InSyscalls => \A r \in Roles : at[r] \in {"idle", "try"},
         LET C == SlotOf("C")
         IN InSyscalls /\ Asleep("C") => sched'.tasks[C].priority \in {sched.tasks[C].priority, 0}
  PROVE  ChanInv'
<1>1. /\ len' = len /\ at' = at /\ blocking' = blocking /\ recheck' = recheck /\ waiting' = waiting
  BY Zenon DEF chanVars
<1>2. "C" \in Roles /\ "P" \in Roles /\ 0..2 \subseteq Slots
  BY ChannelAssumption, MaxTasksAssumption DEF Roles, Slots
<1>3. SameTasks(sched, sched') /\ Ends(sched)
  BY Zenon DEF Carried, ChanInv
<1>4. Ends(sched)' /\ (InSyscalls' <=> InSyscalls)
  <2>1. SlotOf("C") \in 0..2 /\ SlotOf("P") \in 0..2
    BY DEF SlotOf
  <2> QED
    BY <1>2, <1>3, <2>1, Zenon DEF SameTasks, Ends, InSyscalls
<1>5. \A r \in Roles : Asleep(r)' <=> Asleep(r)
  BY RoleFacts, Zenon DEF Carried, Asleep
<1>6. ChanType'
  BY <1>1, Zenon DEF ChanInv, ChanType
<1>7. \A r \in Roles : Seen(r)'
  BY <1>1, <1>5, Zenon DEF ChanInv, Seen, CanTransfer
<1>8. InSyscalls => \A r \in Roles : Unbroken(r)'
  BY <1>1, <1>5, Zenon DEF ChanInv, Unbroken, CanTransfer
<1>9. ConsumerOnTop'
  BY <1>2, <1>4, <1>5, Zenon DEF ChanInv, ConsumerOnTop
<1> QED
  BY <1>4, <1>6, <1>7, <1>8, <1>9, Zenon DEF ChanInv

\* run picks its first task before any call.
LEMMA ChanRunStep ==
  ASSUME ChanInv, Run, UNCHANGED chanVars
  PROVE  ChanInv'
<1>1. IInv /\ ~started /\ current = NoTask
  BY Zenon DEF ChanInv, IInv, Run, current
<1>2. IInv' /\ Carried
  BY <1>1, RunStep, Zenon
<1>3. InSyscalls => \A r \in Roles : at[r] \in {"idle", "try"}
  BY <1>1, Zenon DEF ChanInv, Unbroken
<1>4. SlotOf("C") \in Slots /\ SlotOf("C") # current
  <2>1. "C" \in Roles
    BY Zenon DEF Roles
  <2> QED
    BY <1>1, <2>1, RoleFacts, SchedulerAssumption
<1> QED
  BY <1>2, <1>3, <1>4, SwitchingStep, Zenon DEF Carried

\* int 49 follows block_current: the caller's loop starts again at its try.
LEMMA ChanCheckRescheduleStep ==
  ASSUME ChanInv, CheckReschedule, UNCHANGED chanVars
  PROVE  ChanInv'
<1>1. IInv /\ pc[current] # "run" /\ SlotOf("C") \in Slots
  <2>1. "C" \in Roles
    BY Zenon DEF Roles
  <2> QED
    BY <2>1, RoleFacts, Zenon DEF ChanInv, CheckReschedule
<1>2. IInv' /\ Carried /\ \A slot \in Slots : sched'.tasks[slot].priority = sched.tasks[slot].priority
  BY <1>1, CheckRescheduleStep, Zenon
<1>3. InSyscalls => \A r \in Roles : at[r] \in {"idle", "try"}
  BY <1>1, Zenon DEF ChanInv, Unbroken
<1> QED
  BY <1>1, <1>2, <1>3, SwitchingStep, Zenon

\* In a system call a tick falls only between two calls, and never on a task
\* that is blocked and still current.
LEMMA ChanTickStep ==
  ASSUME ChanInv, ChanTick
  PROVE  ChanInv'
<1>1. /\ IInv /\ Tick /\ UNCHANGED chanVars /\ started /\ (Me.user => pc[current] = "run")
      /\ Me.user => \A r \in Roles : current = SlotOf(r) => at[r] = "idle"
  BY Zenon DEF ChanTick, ChanInterruptsOn, InterruptsOn, ChanInv
<1>2. IInv' /\ Carried
  BY <1>1, TickStep, Zenon
<1>3. "C" \in Roles /\ SlotOf("C") \in Slots
  BY RoleFacts, Zenon DEF Roles
<1>4. \A r \in Roles : InSyscalls /\ current = SlotOf(r) => Me.user
  BY Zenon DEF ChanInv, Ends, InSyscalls, Me, Roles
<1>5. InSyscalls => \A r \in Roles : at[r] \in {"idle", "try"}
  BY <1>1, <1>4, Zenon DEF ChanInv, Unbroken
<1>6. InSyscalls /\ Asleep("C") => current # SlotOf("C")
  BY <1>1, <1>3, <1>4, CallerFacts, Zenon DEF Asleep, StateOf
<1> QED
  BY <1>1, <1>2, <1>3, <1>5, <1>6, SwitchingStep, Zenon DEF Carried

\* block_current: from here on it is the peer that must act.
LEMMA BlockCallStep ==
  ASSUME ChanInv, NEW r \in Roles, Block(r)
  PROVE  ChanInv'
<1> DEFINE c == SlotOf(r)
           reason == [kind |-> IF r = "P" THEN "SpscRingFull" ELSE "SpscRingEmpty",
                      peer |-> SlotOf(Peer(r))]
<1>1. /\ started /\ current = c /\ pc[current] = "run" /\ at[r] = "block"
      /\ sched' = block(sched, reason) /\ pc' = [pc EXCEPT ![c] = "blocking"]
      /\ at' = [at EXCEPT ![r] = "try"]
      /\ joining' = joining /\ started' = started
      /\ len' = len /\ blocking' = blocking /\ recheck' = recheck /\ waiting' = waiting
  BY Zenon DEF Block, Running, Goto
<1>2. /\ ~Asleep(r) /\ (InSyscalls => at[Peer(r)] \in {"idle", "try"})
      /\ IInv /\ TypeOK /\ pc[0] = "run" /\ Sound(sched) /\ Switched(sched)
  BY <1>1, RunningFacts, Zenon DEF ChanInv, IInv
<1>3. /\ c \in Slots /\ c # 0 /\ SlotOf(Peer(r)) \in Slots \ {c}
      /\ "C" \in Roles /\ "P" \in Roles
      /\ SlotOf("C") \in Slots /\ SlotOf("P") \in Slots
  BY RoleFacts, Zenon DEF Roles
<1>4. /\ reason.kind \in {"SpscRingEmpty", "SpscRingFull", "FileRead", "Waiting"}
      /\ reason.kind \in {"SpscRingEmpty", "SpscRingFull"} => reason.peer \in Slots \ {c}
      /\ r = "C" => reason.kind = "SpscRingEmpty"
  BY <1>3, Zenon
<1> HIDE DEF reason
<1>5. /\ Sound(sched') /\ Switched(sched') /\ sched'.current = c /\ SameTasks(sched, sched')
      /\ \A slot \in Slots :
           sched'.tasks[slot].state = IF slot = c THEN "Blocked" ELSE sched.tasks[slot].state
      /\ \A slot \in Slots \ {c} :
           sched'.tasks[slot].priority \in {sched.tasks[slot].priority, 0}
      /\ reason.kind = "SpscRingEmpty" => sched'.tasks[c].priority = 0
  <2>1. sched.current = c
    BY <1>1, Zenon DEF current
  <2> HIDE DEF c
  <2> QED
    BY <1>1, <1>2, <1>3, <1>4, <2>1, BlockSound
<1>6. IInv'
  <2>1. /\ pc' \in [Slots -> {"run", "blocking", "exiting", "halted", "joining"}]
        /\ pc'[0] = "run" /\ pc'[c] = "blocking"
    BY <1>1, <1>2, <1>3, MaxTasksAssumption DEF TypeOK, Slots
  <2> QED
    BY <1>1, <1>2, <1>5, <2>1, StepIInv, Zenon DEF TypeOK
<1>7. Ends(sched)' /\ (InSyscalls' <=> InSyscalls)
  <2>1. SlotOf("C") \in 0..2 /\ SlotOf("P") \in 0..2 /\ 0..2 \subseteq Slots
    BY ChannelAssumption, MaxTasksAssumption DEF SlotOf, Slots
  <2> QED
    BY <1>5, <2>1, Zenon DEF ChanInv, SameTasks, Ends, InSyscalls
<1>8. Asleep(r)' /\ (Asleep(Peer(r))' <=> Asleep(Peer(r)))
  BY <1>3, <1>5, Zenon DEF Asleep, StateOf
<1>9. ChanType'
  BY <1>1, Zenon DEF ChanInv, ChanType, Steps
<1>10. at'[r] = "try" /\ at'[Peer(r)] = at[Peer(r)]
  BY <1>1, RoleFacts, Zenon DEF ChanInv, ChanType
<1>11. \A q \in Roles : Seen(q)'
  BY <1>1, <1>8, <1>10, RoleFacts DEF ChanInv, Seen, CanTransfer
<1>12. InSyscalls => \A q \in Roles : Unbroken(q)'
  BY <1>1, <1>2, <1>8, <1>10, RoleFacts DEF ChanInv, Unbroken, CanTransfer
<1>13. ConsumerOnTop'
  <2>1. CASE r = "C"
    BY <1>4, <1>5, <2>1, Zenon DEF ConsumerOnTop
  <2>2. CASE r = "P"
    <3>1. Peer(r) = "C" /\ SlotOf("C") \in Slots \ {c}
      BY <1>3, <2>2, Zenon DEF Peer
    <3> QED
      BY <1>5, <1>7, <1>8, <3>1, Zenon DEF ConsumerOnTop, ChanInv
  <2> QED
    BY <2>1, <2>2, Zenon DEF Roles
<1> QED
  BY <1>6, <1>7, <1>9, <1>11, <1>12, <1>13, Zenon DEF ChanInv

\* wake_task finds the other end by its id, which is its slot.
LEMMA WakeCallStep ==
  ASSUME ChanInv, NEW r \in Roles, Wake(r)
  PROVE  ChanInv'
<1> DEFINE id == SlotOf(Peer(r))
           step == AfterWake(r)
<1>1. /\ started /\ current = SlotOf(r) /\ pc[current] = "run" /\ at[r] = "wake"
      /\ sched' = wake_task(sched, id) /\ at' = [at EXCEPT ![r] = step]
      /\ pc' = pc /\ joining' = joining /\ started' = started
      /\ len' = len /\ blocking' = blocking /\ recheck' = recheck /\ waiting' = waiting
  BY Zenon DEF Wake, Running, Goto
<1>2. /\ ~Asleep(r) /\ (InSyscalls => at[Peer(r)] \in {"idle", "try"})
      /\ StateOf(SlotOf(r)) = "Running"
      /\ IInv /\ TypeOK /\ pc[0] = "run" /\ Sound(sched) /\ Switched(sched)
  BY <1>1, RunningFacts, Zenon DEF ChanInv, IInv
<1>3. /\ id \in Slots /\ SlotOf(r) \in Slots /\ SlotOf("C") \in Slots
      /\ 0..2 \subseteq Slots /\ SlotOf("C") \in 0..2 /\ SlotOf("P") \in 0..2 /\ id \in 0..2
  BY RoleFacts, ChannelAssumption, MaxTasksAssumption DEF Roles, SlotOf, Slots
<1>4. SlotsOf(sched, id) = {id}
  BY <1>3, Zenon DEF SlotsOf, ChanInv, Ends
<1>5. step \in {"clear", "idle"}
  BY Zenon DEF AfterWake
<1> HIDE DEF id, step
<1>6. /\ Sound(sched') /\ sched'.current = sched.current /\ SameTasks(sched, sched')
      /\ sched'.tasks[id].state # "Blocked"
      /\ \A slot \in Slots : sched'.tasks[slot].priority = sched.tasks[slot].priority
      /\ \A slot \in Slots :
           \/ sched'.tasks[slot] = sched.tasks[slot]
           \/ sched.tasks[slot].state = "Blocked" /\ sched'.tasks[slot].state = "Ready"
  BY <1>1, <1>2, <1>3, <1>4, WakeSound
<1>7. sched'.tasks[current] = sched.tasks[current] /\ sched.tasks[current].state = "Running"
  BY <1>1, <1>2, <1>3, <1>6, Zenon DEF StateOf
<1>8. IInv'
  <2>1. Switched(sched') /\ sched'.tasks[sched'.current].state = "Running"
    BY <1>2, <1>6, <1>7, Zenon DEF Switched, current
  <2> QED
    BY <1>1, <1>2, <1>6, <2>1, StepIInv, Zenon DEF TypeOK
<1>9. Ends(sched)' /\ (InSyscalls' <=> InSyscalls)
  BY <1>3, <1>6, Zenon DEF ChanInv, SameTasks, Ends, InSyscalls
<1>10. ~Asleep(r)' /\ ~Asleep(Peer(r))'
  BY <1>1, <1>6, <1>7, Zenon DEF Asleep, StateOf, id, current
<1>11. ChanType'
  BY <1>1, <1>5, Zenon DEF ChanInv, ChanType, Steps
<1>12. at'[r] = step /\ at'[Peer(r)] = at[Peer(r)]
  BY <1>1, RoleFacts, Zenon DEF ChanInv, ChanType
<1>13. \A q \in Roles : Seen(q)'
  BY <1>1, <1>5, <1>10, <1>12, RoleFacts, SMTT(30) DEF ChanInv, Seen, CanTransfer
<1>14. InSyscalls => \A q \in Roles : Unbroken(q)'
  BY <1>1, <1>2, <1>5, <1>6, <1>10, <1>12, RoleFacts DEF ChanInv, Unbroken, CanTransfer, current
<1>15. ConsumerOnTop'
  <2>1. "C" = r \/ "C" = Peer(r)
    BY RoleFacts, Zenon DEF Roles
  <2> QED
    BY <1>10, <2>1, Zenon DEF ConsumerOnTop
<1> QED
  BY <1>8, <1>9, <1>11, <1>13, <1>14, <1>15, Zenon DEF ChanInv

\* The three tasks are spawned and no call has begun.
LEMMA InitChan == ChanInit => ChanInv
<1> SUFFICES ASSUME ChanInit PROVE ChanInv
  BY Zenon
<1> DEFINE s == spawn(NewScheduler, 1, FALSE, TRUE)
<1>1. Boot(s, 1) /\ s.tasks[0].user = FALSE
  BY FirstSpawn, Zenon
<1>2. PICK user \in BOOLEAN : sched = spawn(spawn(s, 1, user, TRUE), 1, user, TRUE)
  BY Zenon DEF ChanInit
<1> DEFINE t == spawn(s, 1, user, TRUE)
<1> HIDE DEF s
<1>3. PICK one \in Nat, two \in Nat, three \in Nat \ {0} : one = 1 /\ two = 2 /\ three = 3
  OBVIOUS
<1>4. /\ one < MaxTasks /\ one <= MaxIds /\ two < MaxTasks /\ two <= MaxIds
      /\ one + 1 = two /\ two + 1 = three /\ 0..2 \subseteq Slots
  BY <1>3, ChannelAssumption, MaxTasksAssumption, SchedulerAssumption DEF Slots
<1>5. Boot(s, one)
  BY <1>1, <1>3, Zenon
<1>6. /\ Boot(t, two) /\ t.tasks[one].user = user
      /\ \A slot \in Slots : slot # one => t.tasks[slot] = s.tasks[slot]
  <2>1. Added(s, one + 1, user, t)
    BY <1>4, <1>5, NextSpawn, Zenon
  <2> HIDE DEF t
  <2> QED
    BY <1>3, <2>1 DEF Added
<1> HIDE DEF t
<1>7. /\ Boot(sched, three) /\ sched.tasks[two].user = user
      /\ \A slot \in Slots : slot # two => sched.tasks[slot] = t.tasks[slot]
  <2>1. Added(t, two + 1, user, spawn(t, 1, user, TRUE))
    BY <1>4, <1>6, NextSpawn, Zenon
  <2>2. Added(t, two + 1, user, sched)
    BY <1>2, <2>1, Zenon DEF t
  <2> QED
    BY <1>3, <2>2 DEF Added
<1>8. /\ sched.tasks[0].user = FALSE /\ sched.tasks[1].user = sched.tasks[2].user
      /\ Boot(sched, 3)
  BY <1>1, <1>3, <1>4, <1>6, <1>7
<1>9. Unstarted
  BY Zenon DEF ChanInit, Unstarted
<1>10. IInv
  BY <1>7, <1>8, <1>9, StartIInv, Zenon
<1>11. /\ len = 0 /\ \A r \in Roles : at[r] = "idle" /\ ~waiting[r]
       /\ ChanType
  BY ChannelAssumption DEF ChanInit, ChannelNew, ChanType, Steps
<1>12. Ends(sched)
  BY <1>4, <1>8 DEF Boot, Ends, Exists, SlotOf, Slots
<1>13. \A r \in Roles : ~Asleep(r)
  BY <1>4, <1>8 DEF Boot, Asleep, StateOf, SlotOf
<1>14. \A r \in Roles : Seen(r) /\ Unbroken(r)
  BY <1>11, <1>13, Zenon DEF Seen, Unbroken
<1>15. ConsumerOnTop
  BY <1>13, Zenon DEF ConsumerOnTop, Roles
<1> QED
  BY <1>10, <1>11, <1>12, <1>14, <1>15, Zenon DEF ChanInv

\* Every step of the channel and of the scheduler under it keeps ChanInv.
LEMMA ChanNextStep ==
  ASSUME ChanInv, [ChanNext]_chanAllVars
  PROVE  ChanInv'
<1>1. CASE Run /\ UNCHANGED chanVars
  BY <1>1, ChanRunStep, Zenon
<1>2. CASE CheckReschedule /\ UNCHANGED chanVars
  BY <1>2, ChanCheckRescheduleStep, Zenon
<1>3. CASE ChanTick
  BY <1>3, ChanTickStep, Zenon
<1>4. ASSUME NEW r \in Roles, Step(r)
      PROVE  ChanInv'
  BY <1>4, TrySucceedsStep, TryFailsStep, SetFlagStep, RetryFailsStep, BlockCallStep,
     SwapFlagStep, WakeCallStep, ClearFlagStep, Zenon DEF Step
<1>5. ASSUME NEW r \in Roles, NEW blocks \in BOOLEAN, Begin(r, blocks)
      PROVE  ChanInv'
  BY <1>5, BeginStep, Zenon
<1>6. CASE UNCHANGED chanAllVars
  <2>1. /\ UNCHANGED vars /\ UNCHANGED chanVars /\ sched' = sched /\ started' = started /\ pc' = pc
    BY <1>6, Zenon DEF chanAllVars, vars
  <2>2. ChanType' /\ (\A r \in Roles : Seen(r)') /\ (InSyscalls => \A r \in Roles : Unbroken(r)')
    BY <2>1, Zenon DEF chanVars, ChanInv, ChanType, Seen, Unbroken, Asleep, StateOf, CanTransfer, current
  <2> QED
    BY <2>1, <2>2, QuietStep, Zenon
<1> QED
  BY <1>1, <1>2, <1>3, <1>4, <1>5, <1>6, Zenon DEF ChanNext

\* ChanInv is an invariant.
LEMMA ChanInductive == ChanSpec => []ChanInv
<1>1. ChanInv /\ [ChanNext]_chanAllVars => ChanInv'
  BY ChanNextStep, Zenon
<1> QED
  BY InitChan, <1>1, PTL DEF ChanSpec

\* "This double-check closes that window", whatever tick falls where: a task
\* blocked with its flag up and its transfer possible has a peer that is yet to
\* look at the flag.
THEOREM FlagWillBeSeenHolds == ChanSpec => []FlagWillBeSeen
<1>1. ChanInv => FlagWillBeSeen
  BY Zenon DEF ChanInv, Seen, FlagWillBeSeen, BlockedIn, Asleep
<1> QED
  BY <1>1, ChanInductive, PTL

\* Inside system calls no wakeup is lost: a task that is blocked although its
\* transfer could go ahead has a peer on its way to wake_task.
THEOREM NoLostWakeupInSyscallHolds == ChanSpec => []NoLostWakeupInSyscall
<1>1. ChanInv => NoLostWakeupInSyscall
  BY RoleFacts, Zenon DEF ChanInv, Unbroken, NoLostWakeupInSyscall, NoLostWakeup,
     BlockedIn, Asleep
<1> QED
  BY <1>1, ChanInductive, PTL

\* Inside system calls wake_task finds the blocked consumer at level 0, as
\* boost_for_reason promises.
THEOREM ConsumerWokenOnTopHolds == ChanSpec => []ConsumerWokenOnTop
<1>1. ChanInv => ConsumerWokenOnTop
  BY Zenon DEF ChanInv, ConsumerOnTop, ConsumerWokenOnTop, BlockedIn, Asleep
<1> QED
  BY <1>1, ChanInductive, PTL

-----------------------------------------------------------------------------
(* Entry and return *)

\* The types of the entry path's variables.
EntryType ==
  /\ mode \in [Slots -> {"user", "syscall"}]
  /\ image \in [Slots -> 1..MaxImages]
  /\ frame \in [Images -> Slots \cup {NoTask}]
  /\ entered \in [Slots -> Images \cup {KernelCr3}]
  /\ user_rsp \in [Slots -> Slots]

\* A system call runs on the kernel stack of its own task, with the user stack
\* it came from on top.
Parked(slot) ==
  mode[slot] = "syscall" => entered[slot] = Own(slot) /\ frame[Own(slot)] = slot

\* spawn fills the first empty slot, so one in use is among the first next_id.
Packed(s) == \A slot \in Slots : Exists(s, slot) => slot < s.next_id

\* Only user tasks make system calls, and when there is but one of them the
\* global cell keeps its page table until it returns.
Cr3Kept(slot) ==
  mode[slot] = "syscall" =>
    /\ started /\ sched.tasks[slot].user
    /\ sched.next_id <= 2 => USER_CR3_SCRATCH = Own(slot)

\* The inductive invariant.
EntryInv ==
  /\ IInv
  /\ EntryType
  /\ ReturnsToOwnStack
  /\ \A slot \in Slots : Parked(slot)
  /\ started => KERNEL_STACK_PTR = Own(current)
  /\ Packed(sched)
  /\ \A slot \in Slots : Cr3Kept(slot)
  /\ OwnAddressSpaceAlone

\* Two tasks never share a page table or a kernel stack.
LEMMA OwnFacts ==
  ASSUME EntryType, NEW slot \in Slots
  PROVE  /\ Own(slot) \in Images
         /\ \A other \in Slots : Own(other) = Own(slot) => other = slot
  BY Zenon DEF EntryType, Own, Images

\* With two spawns, one of them test_kernel_task, there is one user task.
LEMMA OneUserTask ==
  ASSUME Sound(sched), Packed(sched), sched.next_id <= 2,
         NEW a \in Slots, sched.tasks[a].user, NEW b \in Slots, sched.tasks[b].user
  PROVE  a = b
<1>1. \A slot \in Slots : sched.tasks[slot].user => slot = 1
  <2> SUFFICES ASSUME NEW slot \in Slots, sched.tasks[slot].user PROVE slot = 1
    BY Zenon
  <2>1. Exists(sched, slot)
    <3>1. sched.tasks[slot] # EmptySlot
      <4>1. EmptySlot.user = FALSE
        BY Zenon DEF EmptySlot
      <4> QED
        BY <4>1, Zenon
    <3>2. sched.tasks[slot] \in TaskType \cup {EmptySlot}
      BY Zenon DEF Sound, SchedulerType
    <3> QED
      BY <3>1, <3>2, Zenon DEF TaskType, Exists
  <2>2. slot # 0 /\ sched.next_id \in Nat /\ slot \in Nat
    BY DEF Sound, IdleTask, SchedulerType, Slots
  <2> QED
    BY <2>1, <2>2 DEF Packed
<1> QED
  BY <1>1, Zenon

\* The scheduler under the entry code takes the steps of Scheduler.
LEMMA EntryIsNext ==
  ASSUME EntryInv, [EntryNext]_fullVars
  PROVE  [Next]_vars
<1>1. CASE SyscallEnter \/ SyscallReturn \/ UNCHANGED fullVars
  BY <1>1, Zenon DEF SyscallEnter, SyscallReturn, fullVars
<1>2. CASE Switching
  BY <1>2, Zenon DEF Switching, Next
<1>3. CASE Plain
  <2>1. ASSUME NEW p \in SpawnPriorities, Spawn(p, TRUE, TRUE) PROVE Next
    BY <2>1, Zenon DEF Next
  <2>2. ASSUME InSyscall, BlockCurrent([kind |-> "Waiting"]) PROVE Next
    <3>1. started /\ [kind |-> "Waiting"] \in Reasons
      BY <2>2 DEF InSyscall, Reasons
    <3> QED
      BY <2>2, <3>1, Zenon DEF Next
  <2>3. ASSUME NEW id \in 0..MaxIds, WaitTask(id) \/ WakeTask(id) PROVE Next
    BY <2>3, Zenon DEF Next
  <2>4. CASE ExitCurrent
    BY <2>4, Zenon DEF Next
  <2> QED
    BY <1>3, <2>1, <2>2, <2>3, <2>4, Zenon DEF Plain
<1>4. CASE Exec
  BY <1>4, Zenon DEF Exec, Next
<1> QED
  BY <1>1, <1>2, <1>3, <1>4, Zenon DEF EntryNext

\* Steps that keep the tasks keep them in the first slots.
LEMMA PackedKept ==
  ASSUME NEW s, Packed(s), NEW t, SameTasks(s, t)
  PROVE  Packed(t)
  BY Zenon DEF Packed, SameTasks

\* spawn takes the first empty slot, which is not beyond the ids given out.
LEMMA PackedSpawn ==
  ASSUME Sound(sched), Packed(sched), NEW p \in SpawnPriorities, NEW user \in BOOLEAN,
         NEW ok \in BOOLEAN, Spawn(p, user, ok)
  PROVE  Packed(sched')
<1>1. Spawned(sched, user, ok, sched')
  <2>1. /\ sched \in SchedulerType /\ Filed(sched) /\ sched.next_id <= MaxIds /\ p \in Nat
        /\ user => p = 1
    BY SchedulerAssumption DEF Spawn, Sound, SchedulerType
  <2>2. sched' = spawn(sched, p, user, ok)
    BY Zenon DEF Spawn
  <2> QED
    BY <2>1, <2>2, SpawnFacts, Zenon
<1>2. /\ sched.next_id \in Nat /\ sched.tasks \in [Slots -> TaskType \cup {EmptySlot}]
      /\ Slots \subseteq Nat
  BY DEF Sound, SchedulerType, Slots
<1>3. CASE FreeSlots(sched) = {} \/ ~ok
  <2>1. sched'.tasks = sched.tasks /\ sched'.next_id \in {sched.next_id, sched.next_id + 1}
    BY <1>1, <1>3, Zenon DEF Spawned
  <2>2. \A slot \in Slots : slot < sched.next_id => slot < sched'.next_id
    <3> DEFINE old == sched.next_id
               new == sched'.next_id
    <3>1. old \in Nat /\ new \in {old, old + 1}
      BY <1>2, <2>1, Zenon
    <3> HIDE DEF old, new
    <3>2. \A slot \in Nat : slot < old => slot < new
      BY <3>1
    <3> QED
      BY <1>2, <3>2, Zenon DEF old, new
  <2> QED
    BY <2>1, <2>2, Zenon DEF Packed, Exists
<1>4. CASE FreeSlots(sched) # {} /\ ok
  <2>1. sched'.next_id = sched.next_id + 1 /\ Filled(sched, user, sched')
    BY <1>1, <1>4, Zenon DEF Spawned
  <2>2. PICK slot \in Slots, task \in TaskType :
          /\ slot = Least(FreeSlots(sched)) /\ sched'.tasks = [sched.tasks EXCEPT ![slot] = task]
    BY <2>1, Zenon DEF Filled
  <2>3. slot <= sched.next_id
    <3>1. CASE sched.next_id \in Slots
      <4>1. sched.next_id \in FreeSlots(sched)
        BY <1>2, <3>1 DEF Packed, FreeSlots
      <4> DEFINE S == FreeSlots(sched)
      <4>2. S \in SUBSET Nat /\ S # {}
        BY <1>2, <1>4, Zenon DEF FreeSlots
      <4> HIDE DEF S
      <4>3. \A y \in S : Least(S) <= y
        BY <4>2, LeastFacts, Zenon
      <4> QED
        BY <2>2, <4>1, <4>3, Zenon DEF S
    <3>2. CASE sched.next_id \notin Slots
      BY <1>2, <3>2, MaxTasksAssumption DEF Slots
    <3> QED
      BY <3>1, <3>2, Zenon
  <2>4. \A other \in Slots : other # slot => sched'.tasks[other] = sched.tasks[other]
    BY <1>2, <2>2, Zenon
  <2> QED
    BY <1>2, <2>1, <2>3, <2>4 DEF Packed, Exists
<1> QED
  BY <1>3, <1>4, Zenon

\* Before run nothing happens but spawn, and run itself.
LEMMA OnlyBoot ==
  ASSUME ~started, [Next]_vars
  PROVE  \/ \E p \in SpawnPriorities, user, ok \in BOOLEAN : Spawn(p, user, ok)
         \/ Run \/ UNCHANGED vars
<1>1. ~Tick /\ ~CheckReschedule /\ ~WaitPoll
  BY Zenon DEF Tick, InterruptsOn, CheckReschedule, WaitPoll
<1>2. ~Yield /\ ~ExitCurrent /\ ~ExecReplace
  BY Zenon DEF Yield, ExitCurrent, ExecReplace, MayCall
<1>3. \A id \in 0..MaxIds : ~WakeTask(id) /\ ~WaitTask(id)
  BY Zenon DEF WakeTask, InterruptsOn, WaitTask, MayCall
<1> QED
  BY <1>1, <1>2, <1>3, Zenon DEF Next

\* Nothing but spawn, before run, adds a task.
LEMMA PackedStep ==
  ASSUME EntryInv, [Next]_vars
  PROVE  Packed(sched') /\ IInv' /\ Settled
<1>1. IInv /\ Sound(sched) /\ Packed(sched)
  BY Zenon DEF EntryInv, IInv
<1>2. IInv' /\ Settled
  BY <1>1, NextStep, Zenon
<1>3. CASE started
  BY <1>1, <1>2, <1>3, PackedKept, Zenon DEF Settled
<1>4. CASE ~started
  <2>1. ASSUME NEW p \in SpawnPriorities, NEW user \in BOOLEAN, NEW ok \in BOOLEAN,
               Spawn(p, user, ok)
        PROVE  Packed(sched')
    BY <1>1, <2>1, PackedSpawn, Zenon
  <2>2. CASE Run
    BY <1>1, <1>2, <2>2, RunStep, PackedKept, Zenon DEF Carried
  <2>3. CASE UNCHANGED vars
    BY <1>1, <1>2, <2>3, Zenon DEF vars
  <2> QED
    BY <1>2, <1>4, <2>1, <2>2, <2>3, OnlyBoot, Zenon
<1> QED
  BY <1>2, <1>3, <1>4, Zenon

\* What is left to show of a step.
LEMMA StepEntry ==
  ASSUME EntryInv, [Next]_vars, EntryType', ReturnsToOwnStack',
         \A slot \in Slots : Parked(slot)',
         started' => KERNEL_STACK_PTR' = Own(current)',
         \A slot \in Slots : Cr3Kept(slot)',
         OwnAddressSpaceAlone'
  PROVE  EntryInv'
  BY PackedStep, Zenon DEF EntryInv

\* SYSCALL pushes the user stack on the task's own kernel stack.
LEMMA EnterStep ==
  ASSUME EntryInv, SyscallEnter
  PROVE  EntryInv'
<1>1. /\ started /\ sched.tasks[current].user /\ mode[current] = "user" /\ pc[current] = "run"
      /\ mode' = [mode EXCEPT ![current] = "syscall"]
      /\ USER_CR3_SCRATCH' = cr3
      /\ frame' = [frame EXCEPT ![KERNEL_STACK_PTR] = user_rsp[current]]
      /\ entered' = [entered EXCEPT ![current] = KERNEL_STACK_PTR]
      /\ UNCHANGED vars /\ sched' = sched /\ started' = started
      /\ image' = image /\ KERNEL_STACK_PTR' = KERNEL_STACK_PTR /\ user_rsp' = user_rsp
  BY Zenon DEF SyscallEnter, Me, vars
<1>2. /\ EntryType /\ Sound(sched) /\ Packed(sched) /\ current \in Slots
      /\ KERNEL_STACK_PTR = Own(current) /\ user_rsp[current] = current
      /\ \A slot \in Slots : Parked(slot) /\ Cr3Kept(slot)
  BY <1>1, Zenon DEF EntryInv, IInv, Switched, current, ReturnsToOwnStack
<1>3. Own(current) \in Images /\ \A slot \in Slots : Own(slot) = Own(current) => slot = current
  BY <1>2, OwnFacts, Zenon
<1>4. current' = current /\ \A slot \in Slots : Own(slot)' = Own(slot)
  BY <1>1, Zenon DEF Own, current
<1>5. EntryType'
  BY <1>1, <1>2, <1>3, Zenon DEF EntryType
<1>6. /\ mode'[current] = "syscall" /\ entered'[current] = Own(current)
      /\ frame'[Own(current)] = current
      /\ \A slot \in Slots \ {current} :
           mode'[slot] = mode[slot] /\ entered'[slot] = entered[slot] /\ frame'[Own(slot)] = frame[Own(slot)]
  <2>1. \A slot \in Slots \ {current} : Own(slot) \in Images /\ Own(slot) # Own(current)
    BY <1>2, <1>3, OwnFacts, Zenon
  <2> QED
    BY <1>1, <1>2, <1>3, <2>1, Zenon DEF EntryType
<1>7. \A slot \in Slots : Parked(slot)'
  BY <1>2, <1>4, <1>6 DEF Parked
<1>8. ASSUME NEW slot \in Slots
      PROVE  Cr3Kept(slot)'
  <2>1. CASE sched.next_id <= 2 /\ mode'[slot] = "syscall"
    <3>1. sched.tasks[slot].user
      BY <1>1, <1>2, <1>6, <2>1, Zenon DEF Cr3Kept
    <3>2. slot = current
      BY <1>1, <1>2, <2>1, <3>1, OneUserTask, Zenon
    <3>3. cr3 = Own(current)
      BY <1>1, <2>1, Zenon DEF EntryInv, OwnAddressSpaceAlone, OwnAddressSpace, page_table, Me
    <3> QED
      BY <1>1, <1>4, <3>1, <3>2, <3>3, Zenon DEF Cr3Kept
  <2>2. CASE ~(sched.next_id <= 2 /\ mode'[slot] = "syscall")
    BY <1>1, <1>2, <1>6, <2>2, Zenon DEF Cr3Kept
  <2> QED
    BY <2>1, <2>2, Zenon
<1>9. OwnAddressSpaceAlone'
  BY <1>4, <1>6, Zenon DEF OwnAddressSpaceAlone, OwnAddressSpace
<1>10. ReturnsToOwnStack' /\ KERNEL_STACK_PTR' = Own(current)'
  BY <1>1, <1>2, <1>4, Zenon DEF EntryInv, ReturnsToOwnStack
<1> QED
  BY <1>1, <1>5, <1>7, <1>8, <1>9, <1>10, StepEntry, Zenon

\* SYSRET finds the frame its own entry pushed.
LEMMA ReturnStep ==
  ASSUME EntryInv, SyscallReturn
  PROVE  EntryInv'
<1>1. /\ started /\ mode[current] = "syscall"
      /\ mode' = [mode EXCEPT ![current] = "user"]
      /\ cr3' = USER_CR3_SCRATCH
      /\ user_rsp' = [user_rsp EXCEPT ![current] = frame[entered[current]]]
      /\ UNCHANGED vars /\ sched' = sched /\ started' = started
      /\ image' = image /\ KERNEL_STACK_PTR' = KERNEL_STACK_PTR
      /\ USER_CR3_SCRATCH' = USER_CR3_SCRATCH /\ frame' = frame /\ entered' = entered
  BY Zenon DEF SyscallReturn, InSyscall, vars
<1>2. /\ EntryType /\ current \in Slots /\ KERNEL_STACK_PTR = Own(current)
      /\ \A slot \in Slots : Parked(slot) /\ Cr3Kept(slot) /\ user_rsp[slot] = slot
  BY <1>1, Zenon DEF EntryInv, IInv, Switched, current, ReturnsToOwnStack
<1>3. current' = current /\ \A slot \in Slots : Own(slot)' = Own(slot)
  BY <1>1, Zenon DEF Own, current
<1>4. frame[entered[current]] = current
  BY <1>1, <1>2, Zenon DEF Parked
<1>5. EntryType' /\ ReturnsToOwnStack'
  BY <1>1, <1>2, <1>4, Zenon DEF EntryType, ReturnsToOwnStack
<1>6. mode'[current] = "user" /\ \A slot \in Slots \ {current} : mode'[slot] = mode[slot]
  BY <1>1, <1>2, Zenon DEF EntryType
<1>7. \A slot \in Slots : Parked(slot)'
  BY <1>1, <1>2, <1>3, <1>6, Zenon DEF Parked
<1>8. \A slot \in Slots : Cr3Kept(slot)'
  BY <1>1, <1>2, <1>3, <1>6, Zenon DEF Cr3Kept
<1>9. OwnAddressSpaceAlone'
  BY <1>1, <1>2, <1>3, Zenon DEF Cr3Kept, OwnAddressSpaceAlone, OwnAddressSpace, page_table
<1>10. KERNEL_STACK_PTR' = Own(current)'
  BY <1>1, <1>2, <1>3, Zenon
<1> QED
  BY <1>1, <1>5, <1>7, <1>8, <1>9, <1>10, StepEntry, Zenon

\* A step of the scheduler after which the CPU is set up for the current task.
LEMMA CarryEntry ==
  ASSUME EntryInv, [Next]_vars, SameTasks(sched, sched'), started', current' \in Slots,
         UNCHANGED <<mode, image, USER_CR3_SCRATCH, frame, entered, user_rsp>>,
         KERNEL_STACK_PTR' = Own(current'),
         sched.next_id <= 2 /\ sched.tasks[current'].user /\ mode[current'] = "user" =>
           cr3' = Own(current')
  PROVE  EntryInv'
<1>1. /\ mode' = mode /\ image' = image /\ USER_CR3_SCRATCH' = USER_CR3_SCRATCH
      /\ frame' = frame /\ entered' = entered /\ user_rsp' = user_rsp
  BY Zenon
<1>2. /\ sched'.next_id = sched.next_id
      /\ \A slot \in Slots : sched'.tasks[slot].user = sched.tasks[slot].user
  BY Zenon DEF SameTasks
<1>3. Own(current)' = Own(current') /\ \A slot \in Slots : Own(slot)' = Own(slot)
  BY <1>1, Zenon DEF Own
<1>4. EntryType' /\ ReturnsToOwnStack'
  BY <1>1, Zenon DEF EntryInv, EntryType, ReturnsToOwnStack
<1>5. \A slot \in Slots : Parked(slot)'
  BY <1>1, <1>3, Zenon DEF EntryInv, Parked
<1>6. \A slot \in Slots : Cr3Kept(slot)'
  BY <1>1, <1>2, <1>3, Zenon DEF EntryInv, Cr3Kept
<1>7. OwnAddressSpaceAlone'
  <2> SUFFICES ASSUME sched'.next_id <= 2, sched'.tasks[current'].user, mode'[current'] = "user"
               PROVE  cr3' = page_table(current)'
    BY Zenon DEF OwnAddressSpaceAlone, OwnAddressSpace, Me
  <2> QED
    BY <1>1, <1>2, <1>3, Zenon DEF page_table
<1> QED
  BY <1>3, <1>4, <1>5, <1>6, <1>7, StepEntry, Zenon

\* run and reschedule load the page table and kernel stack of the task they
\* switch to, and leave the frames of parked system calls alone.
LEMMA EntrySwitchingStep ==
  ASSUME EntryInv, Switching
  PROVE  EntryInv'
<1>1. [Next]_vars
  BY EntryIsNext, Zenon DEF EntryNext
<1>2. IInv /\ IInv' /\ Settled
  BY <1>1, PackedStep, Zenon DEF EntryInv
<1>3. SameTasks(sched, sched') /\ started' /\ (started => started') /\ (started \/ Run)
  <2>1. CASE Run
    BY <1>2, <2>1, RunStep, Zenon DEF Carried, Run
  <2>2. CASE ~Run
    <3>1. started /\ started' = started
      BY <2>2, Zenon DEF Switching, Tick, InterruptsOn, CheckReschedule, WaitPoll, Yield, InSyscall
    <3> QED
      BY <1>2, <3>1, Zenon DEF Settled
  <2> QED
    BY <2>1, <2>2, Zenon
<1>4. current' \in Slots
  BY <1>2, <1>3, Zenon DEF IInv, Switched, current
<1>5. UNCHANGED <<mode, image, USER_CR3_SCRATCH, frame, entered, user_rsp>> /\ SwitchCpu
  BY Zenon DEF Switching
<1>6. CASE current' = current
  <2>1. started
    BY <1>2, <1>3, <1>4, <1>6, SchedulerAssumption DEF IInv, current, Slots
  <2>2. cr3' = cr3 /\ KERNEL_STACK_PTR' = KERNEL_STACK_PTR
    BY <1>5, <1>6, Zenon DEF SwitchCpu
  <2>3. sched.next_id <= 2 /\ sched.tasks[current'].user /\ mode[current'] = "user" =>
          cr3' = Own(current')
    BY <1>6, <2>1, <2>2, Zenon DEF EntryInv, OwnAddressSpaceAlone, OwnAddressSpace, Me, page_table
  <2>4. KERNEL_STACK_PTR' = Own(current')
    BY <1>6, <2>1, <2>2, Zenon DEF EntryInv
  <2> QED
    BY <1>1, <1>3, <1>4, <1>5, <2>3, <2>4, CarryEntry, Zenon
<1>7. CASE current' # current
  <2>1. cr3' = page_table(current') /\ KERNEL_STACK_PTR' = Own(current')
    BY <1>5, <1>7, Zenon DEF SwitchCpu
  <2>2. sched.tasks[current'].user => cr3' = Own(current')
    BY <2>1, Zenon DEF page_table
  <2> QED
    BY <1>1, <1>3, <1>4, <1>5, <2>1, <2>2, CarryEntry, Zenon
<1> QED
  BY <1>6, <1>7, Zenon

\* Blocking, exiting and waking leave the switch to int 49.
LEMMA PlainStaysCurrent ==
  ASSUME EntryInv, Plain, started
  PROVE  current' = current /\ started'
<1>1. Sound(sched) /\ sched \in SchedulerType /\ IInv
  BY Zenon DEF EntryInv, IInv, Sound
<1>2. CASE ExitCurrent
  BY <1>1, <1>2, Zenon DEF ExitCurrent, kill, current, SchedulerType
<1>3. CASE BlockCurrent([kind |-> "Waiting"])
  BY <1>1, <1>3, Zenon DEF BlockCurrent, block, boost_for_reason, current, SchedulerType
<1>4. ASSUME NEW id \in 0..MaxIds, WaitTask(id) PROVE current' = current /\ started'
  BY <1>4, Zenon DEF WaitTask, current
<1>5. ASSUME NEW id \in 0..MaxIds, WakeTask(id) PROVE current' = current /\ started'
  BY <1>1, <1>5, WakeSound, Zenon DEF WakeTask, current
<1> QED
  BY <1>2, <1>3, <1>4, <1>5, Zenon DEF Plain, Spawn

\* A step without a switch leaves the CPU set up for the current task.
LEMMA PlainStep ==
  ASSUME EntryInv, Plain
  PROVE  EntryInv'
<1>1. [Next]_vars
  BY EntryIsNext, Zenon DEF EntryNext
<1>2. IInv /\ IInv' /\ Settled
  BY <1>1, PackedStep, Zenon DEF EntryInv
<1>3. UNCHANGED entryVars
  BY Zenon DEF Plain
<1>4. CASE started
  <2>1. current' = current /\ started' /\ current \in Slots /\ SameTasks(sched, sched')
    BY <1>2, <1>4, PlainStaysCurrent, Zenon DEF Settled, IInv, Switched, current
  <2>2. UNCHANGED <<mode, image, USER_CR3_SCRATCH, frame, entered, user_rsp>>
    BY <1>3, Zenon DEF entryVars
  <2>3. cr3' = cr3 /\ KERNEL_STACK_PTR' = Own(current')
    BY <1>3, <1>4, <2>1, Zenon DEF entryVars, EntryInv
  <2>4. sched.next_id <= 2 /\ sched.tasks[current'].user /\ mode[current'] = "user" =>
          cr3' = Own(current')
    BY <1>4, <2>1, <2>3, Zenon DEF EntryInv, OwnAddressSpaceAlone, OwnAddressSpace, Me, page_table
  <2> QED
    BY <1>1, <2>1, <2>2, <2>3, <2>4, CarryEntry, Zenon
<1>5. CASE ~started
  <2>1. ~started'
    BY <1>5, Zenon DEF Plain, Spawn, ExitCurrent, MayCall, InSyscall, WakeTask, InterruptsOn
  <2>2. \A slot \in Slots : mode[slot] # "syscall"
    BY <1>5, Zenon DEF EntryInv, Cr3Kept
  <2>3. /\ mode' = mode /\ image' = image /\ frame' = frame /\ entered' = entered
        /\ user_rsp' = user_rsp
    BY <1>3, Zenon DEF entryVars
  <2>4. EntryType' /\ ReturnsToOwnStack'
    BY <2>3, Zenon DEF EntryInv, EntryType, ReturnsToOwnStack
  <2>5. \A slot \in Slots : Parked(slot)' /\ Cr3Kept(slot)'
    BY <2>2, <2>3, Zenon DEF Parked, Cr3Kept
  <2>6. OwnAddressSpaceAlone'
    BY <2>1, Zenon DEF OwnAddressSpaceAlone, OwnAddressSpace
  <2> QED
    BY <1>1, <2>1, <2>4, <2>5, <2>6, StepEntry, Zenon
<1> QED
  BY <1>4, <1>5, Zenon

\* exec leaves for user mode on the new image's stack and page table.
LEMMA ExecCallStep ==
  ASSUME EntryInv, Exec
  PROVE  EntryInv'
<1>1. [Next]_vars
  BY EntryIsNext, Zenon DEF EntryNext
<1>2. IInv /\ IInv' /\ Settled /\ Packed(sched) /\ Sound(sched) /\ Switched(sched) /\ started
  BY <1>1, PackedStep, Zenon DEF EntryInv, Exec, InSyscall, IInv
<1>3. /\ mode[current] = "syscall" /\ image[current] < MaxImages /\ started' = started
      /\ sched' = replace_current_task(sched) /\ pc[current] = "run" /\ Me.id # 0
      /\ image' = [image EXCEPT ![current] = image[current] + 1]
      /\ cr3' = <<current, image'[current]>> /\ KERNEL_STACK_PTR' = <<current, image'[current]>>
      /\ mode' = [mode EXCEPT ![current] = "user"]
      /\ user_rsp' = [user_rsp EXCEPT ![current] = current]
      /\ USER_CR3_SCRATCH' = USER_CR3_SCRATCH /\ frame' = frame /\ entered' = entered
  BY Zenon DEF Exec, InSyscall, ExecReplace, MayCall
<1>4. /\ current \in Slots /\ sched.tasks[current].user
      /\ EntryType /\ \A slot \in Slots : Parked(slot) /\ Cr3Kept(slot) /\ user_rsp[slot] = slot
  BY <1>2, <1>3, Zenon DEF EntryInv, Switched, current, Cr3Kept, ReturnsToOwnStack
<1>5. current' = current
  <2>1. current # 0
    BY <1>2, <1>3, CallerFacts, Zenon
  <2> QED
    BY <1>2, <1>3, <2>1, ReplaceSound, Zenon DEF current
<1>6. /\ sched'.next_id = sched.next_id
      /\ \A slot \in Slots : sched'.tasks[slot].user = sched.tasks[slot].user
  BY <1>2, Zenon DEF Settled, SameTasks
<1>7. /\ mode'[current] = "user"
      /\ \A slot \in Slots \ {current} : mode'[slot] = mode[slot] /\ Own(slot)' = Own(slot)
  BY <1>3, <1>4, Zenon DEF EntryType, Own
<1>8. EntryType' /\ ReturnsToOwnStack'
  <2>1. image[current] + 1 \in 1..MaxImages
    BY <1>3, <1>4, ImageAssumption DEF EntryType
  <2> QED
    BY <1>3, <1>4, <2>1, Zenon DEF EntryType, ReturnsToOwnStack
<1>9. \A slot \in Slots : Parked(slot)'
  BY <1>3, <1>4, <1>7, ZenonT(40) DEF Parked
<1>10. \A slot \in Slots : Cr3Kept(slot)'
  BY <1>2, <1>3, <1>4, <1>6, <1>7 DEF Cr3Kept
<1>11. KERNEL_STACK_PTR' = Own(current)' /\ cr3' = Own(current)'
  BY <1>3, <1>5, Zenon DEF Own
<1>12. OwnAddressSpaceAlone'
  <2>1. page_table(current)' = Own(current)'
    BY <1>4, <1>5, <1>6, Zenon DEF page_table
  <2> QED
    BY <1>11, <2>1, Zenon DEF OwnAddressSpaceAlone, OwnAddressSpace
<1> QED
  BY <1>1, <1>8, <1>9, <1>10, <1>11, <1>12, StepEntry, Zenon

\* No task runs and no system call is under way.
LEMMA InitEntry == EntryInit => EntryInv
<1> SUFFICES ASSUME EntryInit PROVE EntryInv
  BY Zenon
<1>1. IInv /\ ~started
  BY InitIInv, Zenon DEF EntryInit, Init
<1>2. Packed(sched)
  <2>1. Boot(sched, 1)
    BY FirstSpawn, Zenon DEF EntryInit, Init
  <2> QED
    BY <2>1 DEF Boot, Packed, Exists, Slots
<1>3. EntryType /\ ReturnsToOwnStack /\ \A slot \in Slots : mode[slot] = "user"
  BY ImageAssumption DEF EntryInit, EntryType, ReturnsToOwnStack
<1> QED
  BY <1>1, <1>2, <1>3, Zenon DEF EntryInv, Parked, Cr3Kept, OwnAddressSpaceAlone, OwnAddressSpace

\* EntryInv is an invariant.
LEMMA EntryInductive == EntrySpec => []EntryInv
<1>1. EntryInv /\ [EntryNext]_fullVars => EntryInv'
  <2> SUFFICES ASSUME EntryInv, [EntryNext]_fullVars PROVE EntryInv'
    BY Zenon
  <2>1. CASE EntryNext
    BY <2>1, EnterStep, ReturnStep, EntrySwitchingStep, PlainStep, ExecCallStep, Zenon DEF EntryNext
  <2>2. CASE UNCHANGED fullVars
    <3>1. /\ UNCHANGED vars /\ sched' = sched /\ started' = started
          /\ mode' = mode /\ image' = image /\ frame' = frame /\ entered' = entered
          /\ user_rsp' = user_rsp /\ cr3' = cr3 /\ KERNEL_STACK_PTR' = KERNEL_STACK_PTR
          /\ USER_CR3_SCRATCH' = USER_CR3_SCRATCH
      BY <2>2, Zenon DEF fullVars, vars, entryVars
    <3>2. EntryType' /\ ReturnsToOwnStack' /\ OwnAddressSpaceAlone'
      BY <3>1, Zenon DEF EntryInv, EntryType, ReturnsToOwnStack, OwnAddressSpaceAlone, OwnAddressSpace,
         page_table, Own, Me, current
    <3>3. /\ \A slot \in Slots : Parked(slot)' /\ Cr3Kept(slot)'
          /\ started' => KERNEL_STACK_PTR' = Own(current)'
      BY <3>1, Zenon DEF EntryInv, Parked, Cr3Kept, Own, current
    <3> QED
      BY <3>1, <3>2, <3>3, StepEntry, Zenon
  <2> QED
    BY <2>1, <2>2, Zenon
<1> QED
  BY InitEntry, <1>1, PTL DEF EntrySpec

\* A system call returns to the user stack it came from, however many calls
\* of other tasks enter, block, switch and exec in between.
THEOREM ReturnsToOwnStackHolds == EntrySpec => []ReturnsToOwnStack
<1>1. EntryInv => ReturnsToOwnStack
  BY Zenon DEF EntryInv
<1> QED
  BY <1>1, EntryInductive, PTL

\* With one user program, user code runs in its own address space: through
\* blocking, switches to the idle task and exec.
THEOREM OwnAddressSpaceAloneHolds == EntrySpec => []OwnAddressSpaceAlone
<1>1. EntryInv => OwnAddressSpaceAlone
  BY Zenon DEF EntryInv
<1> QED
  BY <1>1, EntryInductive, PTL

\* The entry code only takes steps of the scheduler: what holds of Spec holds
\* under it.
THEOREM EntryImplementsScheduler == EntrySpec => Spec
<1>1. EntryInit => Init
  BY Zenon DEF EntryInit
<1>2. EntryInv /\ [EntryNext]_fullVars => [Next]_vars
  BY EntryIsNext, Zenon
<1> QED
  BY <1>1, <1>2, EntryInductive, PTL DEF EntrySpec, Spec

=============================================================================
