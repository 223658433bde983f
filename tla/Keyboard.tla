------------------------------ MODULE Keyboard ------------------------------
(***************************************************************************)
(* The keyboard path of kernel/src/syscall/mod.rs on top of the scheduler: *)
(* the interrupt handler fills KEYBOARD_BUFFER and wakes the task in       *)
(* KEYBOARD_WAITING_TASK; sys_read of file 0 drains the buffer or blocks.  *)
(* Keys are told apart by nothing, so the buffer is its count.             *)
(*                                                                         *)
(* sys_read runs inside SYSCALL, with interrupts off from the test of the  *)
(* buffer to the switch.  The other tasks yield, exit, or wait for a task. *)
(***************************************************************************)
EXTENDS Scheduler

CONSTANTS KeyboardBufferSize,  \* the 256 of KeyboardBuffer
          ReadCounts,          \* sizes of the buffers passed to sys_read
          Readers              \* bound: slots whose program reads the keyboard

ASSUME KeyboardAssumption ==
  /\ KeyboardBufferSize \in Nat \ {0}
  /\ ReadCounts \subseteq Nat \ {0}
  /\ Readers \subseteq Slots \ {0}

VARIABLES count,                 \* KEYBOARD_BUFFER.count
          KEYBOARD_WAITING_TASK,
          reading                \* per slot: the count of the sys_read it is in, or 0

kbdVars == <<count, KEYBOARD_WAITING_TASK, reading>>
kbdAllVars == <<vars, kbdVars>>

\* The statics before the first key and the first read.
KeyboardNew ==
  /\ count = 0
  /\ KEYBOARD_WAITING_TASK = NoTask
  /\ reading = [slot \in Slots |-> 0]

KbdInit == Init /\ KeyboardNew

KbdInterruptsOn == InterruptsOn /\ reading[current] = 0

\* KeyboardBuffer.push: a full buffer drops the key.
push(n) == IF n < KeyboardBufferSize THEN n + 1 ELSE n

\* keyboard_handler_rust, push_keyboard_char.
KeyPress ==
  /\ KbdInterruptsOn
  /\ count' = push(count)
  /\ KEYBOARD_WAITING_TASK' = NoTask
  /\ sched' = IF KEYBOARD_WAITING_TASK = NoTask THEN sched
              ELSE wake_task(sched, KEYBOARD_WAITING_TASK)
  /\ UNCHANGED <<pc, joining, started, reading>>

SysRead(n) ==
  /\ started /\ Me.user /\ pc[current] = "run"
  /\ current \in Readers /\ reading[current] = 0
  /\ reading' = [reading EXCEPT ![current] = n]
  /\ UNCHANGED <<vars, count, KEYBOARD_WAITING_TASK>>

InRead == started /\ reading[current] > 0 /\ pc[current] = "run"

\* A turn of the loop that finds keys: copy what fits and return.
ReadCopy ==
  /\ InRead /\ count > 0
  /\ count' = IF reading[current] < count THEN count - reading[current] ELSE 0
  /\ reading' = [reading EXCEPT ![current] = 0]
  /\ UNCHANGED <<vars, KEYBOARD_WAITING_TASK>>

\* Mutant: the reader does not leave its slot in the cell.
ReadBlockUnregistered ==
  /\ InRead /\ count = 0
  /\ sched' = block(sched, [kind |-> "Waiting"])
  /\ pc' = [pc EXCEPT ![current] = "blocking"]
  /\ UNCHANGED <<joining, started, kbdVars>>

\* A turn of the loop that finds none: leave the slot in the cell and block.
ReadBlock ==
  /\ InRead /\ count = 0
  /\ KEYBOARD_WAITING_TASK' = current
  /\ sched' = block(sched, [kind |-> "Waiting"])
  /\ pc' = [pc EXCEPT ![current] = "blocking"]
  /\ UNCHANGED <<joining, started, count, reading>>

KbdTick ==
  /\ KbdInterruptsOn
  /\ Tick
  /\ UNCHANGED kbdVars

KbdNext ==
  \/ KeyPress \/ ReadCopy \/ ReadBlock \/ KbdTick
  \/ \E n \in ReadCounts : SysRead(n)
  \/ \E ok \in BOOLEAN : Spawn(1, TRUE, ok) /\ UNCHANGED kbdVars
  \/ (Run \/ CheckReschedule) /\ UNCHANGED kbdVars
  \/ KbdInterruptsOn /\ (Yield \/ ExitCurrent) /\ UNCHANGED kbdVars
  \/ KbdInterruptsOn /\ (\E id \in 0..MaxIds : WaitTask(id)) /\ UNCHANGED kbdVars
  \/ WaitPoll /\ UNCHANGED kbdVars

KbdSpec == KbdInit /\ [][KbdNext]_kbdAllVars

-----------------------------------------------------------------------------

\* A read that keys are there for returns, unless nothing but wait_task polls
\* from then on: "Wake up waiting task if any" (push_keyboard_char) leaves no
\* reader asleep beside them.
ReadReturns ==
  []<>~Polling =>
    \A slot \in Slots : reading[slot] > 0 /\ count > 0 ~> reading[slot] = 0
=============================================================================
