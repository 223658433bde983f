------------------------------ MODULE Channel ------------------------------
(***************************************************************************)
(* kernel/src/ipc/channel.rs on top of the scheduler: a producer task that *)
(* calls send or try_send and a consumer task that calls recv or try_recv. *)
(*                                                                         *)
(* The ring is the atomic bounded queue SpscRing implements, of which the  *)
(* channel only sees the fill level.  The two directions of the protocol   *)
(* are the same code with the roles exchanged: "P" waits for room, "C" for *)
(* data, and each wakes the other after a transfer.                        *)
(***************************************************************************)
EXTENDS Scheduler

CONSTANTS Capacity,   \* N
          Callers     \* the kinds of task at the ends: "thread", "user"

ASSUME ChannelAssumption ==
  /\ Capacity \in Nat \ {0}
  /\ Callers \subseteq {"thread", "user"}
  /\ MaxTasks >= 3 /\ MaxIds >= 2

VARIABLES len,      \* values in the ring
          at,       \* per role: the next step of its call
          blocking, \* per role: whether the call is send/recv, not try_*
          recheck,  \* per role: the transfer was made by the second try
          waiting   \* producer_waiting, consumer_waiting

chanVars == <<len, at, blocking, recheck, waiting>>
chanAllVars == <<vars, chanVars>>

Roles == {"P", "C"}

Peer(r) == IF r = "P" THEN "C" ELSE "P"

\* producer_slot and consumer_slot, as registered by set_producer and
\* set_consumer before the first call.
SlotOf(r) == IF r = "P" THEN 1 ELSE 2

\* Channel::new: an empty ring, no flag up, and nobody in a call.
ChannelNew ==
  /\ len = 0
  /\ at = [r \in Roles |-> "idle"]
  /\ blocking = [r \in Roles |-> FALSE]
  /\ recheck = [r \in Roles |-> FALSE]
  /\ waiting = [r \in Roles |-> FALSE]

\* kmain has spawned test_kernel_task and the two ends of the channel: kernel
\* threads, or user tasks whose calls run inside a syscall.
ChanInit ==
  /\ \E user \in {caller = "user" : caller \in Callers} :
       sched = spawn(spawn(spawn(NewScheduler, 1, FALSE, TRUE),
                           1, user, TRUE), 1, user, TRUE)
  /\ pc = [slot \in Slots |-> "run"]
  /\ joining = [slot \in Slots |-> NoTask]
  /\ started = FALSE
  /\ ChannelNew
-----------------------------------------------------------------------------

\* The task of role r has the CPU and its call goes on with the given step.
Running(r, step) ==
  /\ started /\ current = SlotOf(r) /\ pc[current] = "run"
  /\ at[r] = step

Goto(r, step) == at' = [at EXCEPT ![r] = step]

\* try_push or try_pop would succeed.
CanTransfer(r) == IF r = "P" THEN len < Capacity ELSE len > 0

Transfer(r) == len' = IF r = "P" THEN len + 1 ELSE len - 1

\* send and recv block, try_send and try_recv do not.
Begin(r, blocks) ==
  /\ Running(r, "idle")
  /\ blocking' = [blocking EXCEPT ![r] = blocks]
  /\ recheck' = [recheck EXCEPT ![r] = FALSE]
  /\ Goto(r, "try")
  /\ UNCHANGED <<vars, len, waiting>>

\* The first try succeeds, or the re-check after the flag is set.
TrySucceeds(r) ==
  /\ Running(r, "try") \/ Running(r, "retry")
  /\ CanTransfer(r)
  /\ Transfer(r)
  /\ recheck' = [recheck EXCEPT ![r] = (at[r] = "retry")]
  /\ Goto(r, "swap")
  /\ UNCHANGED <<vars, blocking, waiting>>

TryFails(r) ==
  /\ Running(r, "try")
  /\ ~CanTransfer(r)
  /\ Goto(r, IF blocking[r] THEN "flag" ELSE "idle")
  /\ UNCHANGED <<vars, len, blocking, recheck, waiting>>

\* Mutant: no second try after the flag is set.
SetFlagNoRecheck(r) ==
  /\ Running(r, "flag")
  /\ waiting' = [waiting EXCEPT ![r] = TRUE]
  /\ Goto(r, "block")
  /\ UNCHANGED <<vars, len, blocking, recheck>>

\* "Signal that we're about to block."
SetFlag(r) ==
  /\ Running(r, "flag")
  /\ waiting' = [waiting EXCEPT ![r] = TRUE]
  /\ Goto(r, "retry")
  /\ UNCHANGED <<vars, len, blocking, recheck>>

\* The re-check fails: on to block_current.
RetryFails(r) ==
  /\ Running(r, "retry")
  /\ ~CanTransfer(r)
  /\ Goto(r, "block")
  /\ UNCHANGED <<vars, len, blocking, recheck, waiting>>

\* Mutant: the two block reasons exchanged.
BlockOtherReason(r) ==
  /\ Running(r, "block")
  /\ sched' = block(sched, [kind |-> IF r = "P" THEN "SpscRingEmpty" ELSE "SpscRingFull",
                            peer |-> SlotOf(Peer(r))])
  /\ pc' = [pc EXCEPT ![current] = "blocking"]
  /\ Goto(r, "try")
  /\ UNCHANGED <<joining, started, len, blocking, recheck, waiting>>

\* block_current; after it returns the loop starts again.
Block(r) ==
  /\ Running(r, "block")
  /\ sched' = block(sched, [kind |-> IF r = "P" THEN "SpscRingFull" ELSE "SpscRingEmpty",
                            peer |-> SlotOf(Peer(r))])
  /\ pc' = [pc EXCEPT ![current] = "blocking"]
  /\ Goto(r, "try")
  /\ UNCHANGED <<joining, started, len, blocking, recheck, waiting>>

\* What follows maybe_wake_*: clear the own flag after a re-check, or return.
AfterWake(r) == IF recheck[r] THEN "clear" ELSE "idle"

\* Mutant: takes the flag and does not wake.
SwapFlagOnly(r) ==
  /\ Running(r, "swap")
  /\ waiting' = [waiting EXCEPT ![Peer(r)] = FALSE]
  /\ Goto(r, AfterWake(r))
  /\ UNCHANGED <<vars, len, blocking, recheck>>

\* The swap of maybe_wake_consumer and maybe_wake_producer.
SwapFlag(r) ==
  /\ Running(r, "swap")
  /\ waiting' = [waiting EXCEPT ![Peer(r)] = FALSE]
  /\ Goto(r, IF waiting[Peer(r)] THEN "wake" ELSE AfterWake(r))
  /\ UNCHANGED <<vars, len, blocking, recheck>>

Wake(r) ==
  /\ Running(r, "wake")
  /\ sched' = wake_task(sched, SlotOf(Peer(r)))
  /\ Goto(r, AfterWake(r))
  /\ UNCHANGED <<pc, joining, started, len, blocking, recheck, waiting>>

ClearFlag(r) ==
  /\ Running(r, "clear")
  /\ waiting' = [waiting EXCEPT ![r] = FALSE]
  /\ Goto(r, "idle")
  /\ UNCHANGED <<vars, len, blocking, recheck>>

\* The steps of a call that has begun.
Step(r) ==
  \/ TrySucceeds(r) \/ TryFails(r) \/ SetFlag(r) \/ RetryFails(r) \/ Block(r)
  \/ SwapFlag(r) \/ Wake(r) \/ ClearFlag(r)

\* In a syscall a tick waits for the call to end or to switch the task out.
ChanInterruptsOn ==
  /\ InterruptsOn
  /\ Me.user => \A r \in Roles : current = SlotOf(r) => at[r] = "idle"

ChanTick ==
  /\ ChanInterruptsOn
  /\ Tick
  /\ UNCHANGED chanVars

ChanNext ==
  \/ (Run \/ CheckReschedule) /\ UNCHANGED chanVars
  \/ ChanTick
  \/ \E r \in Roles : Step(r) \/ \E blocks \in BOOLEAN : Begin(r, blocks)

ChanSpec == ChanInit /\ [][ChanNext]_chanAllVars

-----------------------------------------------------------------------------

\* The task of role r is asleep in send or recv.
BlockedIn(r) == StateOf(SlotOf(r)) = "Blocked" /\ at[r] = "try"

\* "Ring is truly empty and flag is set - block.  The producer's send() will
\* see consumer_waiting=true and wake us."  When a task is blocked although
\* its transfer could go ahead, the peer is on its way to wake_task.
NoLostWakeup ==
  \A r \in Roles : BlockedIn(r) /\ CanTransfer(r) =>
    \/ at[Peer(r)] = "swap" /\ waiting[r]
    \/ at[Peer(r)] = "wake"

InSyscalls == sched.tasks[SlotOf("C")].user

\* The same for callers inside a system call, where no tick can fall between
\* the flag and block_current.
NoLostWakeupInSyscall == InSyscalls => NoLostWakeup

\* "This double-check closes that window": a blocked task whose flag is still
\* up and whose transfer could go ahead has a peer that is yet to look at the
\* flag, also when ticks fall between any two steps of send and recv.
FlagWillBeSeen ==
  \A r \in Roles : BlockedIn(r) /\ waiting[r] /\ CanTransfer(r) => at[Peer(r)] = "swap"

\* "the consumer ... is woken with BlockReason::SpscRingEmpty -> boosted to
\* MLFQ level 0": wake_task finds the blocked consumer at level 0.  (A tick
\* between block_current and int 49, in a kernel thread, demotes it first.)
ConsumerWokenOnTop ==
  InSyscalls /\ BlockedIn("C") => sched.tasks[SlotOf("C")].priority = 0

\* Inside a system call a send goes through as long as the consumer keeps
\* receiving, and a recv returns once there is data for it.
CallsComplete ==
  InSyscalls =>
    /\ at["P"] # "idle" ~> at["P"] = "idle"
    /\ (at["C"] # "idle" /\ len > 0) ~> at["C"] = "idle"
=============================================================================
