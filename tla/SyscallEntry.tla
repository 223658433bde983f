---------------------------- MODULE SyscallEntry ----------------------------
(***************************************************************************)
(* kernel/src/arch/syscall_entry.rs on top of the scheduler: how the CPU   *)
(* gets from a user program into the kernel and back, and what the context *)
(* switches of scheduler/mod.rs do to CR3 and to the kernel stack while a  *)
(* system call is parked inside them.                                      *)
(*                                                                         *)
(* A page table and a kernel stack are named by the task they were made    *)
(* for, <<slot, image>>; exec gives the task a new image.                  *)
(***************************************************************************)
EXTENDS Scheduler

CONSTANT MaxImages     \* bound: images a task can exec, the first included

ASSUME ImageAssumption == MaxImages \in Nat \ {0}

VARIABLES mode,      \* per slot: "user" or "syscall"
          image,     \* per slot: the image it runs
          cr3,       \* the CPU's page table
          USER_CR3_SCRATCH, KERNEL_STACK_PTR,
          frame,     \* per kernel stack: the user RSP pushed at its top
          entered,   \* per slot: the kernel stack its system call runs on
          user_rsp   \* per slot: whose stack its user RSP points to

entryVars == <<mode, image, cr3, USER_CR3_SCRATCH, KERNEL_STACK_PTR,
               frame, entered, user_rsp>>
fullVars == <<vars, entryVars>>

Images == Slots \X (1..MaxImages)

KernelCr3 == <<NoTask, 0>>

Own(slot) == <<slot, image[slot]>>

\* task.page_table: kernel tasks share the kernel's.
page_table(slot) == IF sched.tasks[slot].user THEN Own(slot) ELSE KernelCr3

EntryInit ==
  /\ Init
  /\ mode = [slot \in Slots |-> "user"]
  /\ image = [slot \in Slots |-> 1]
  /\ cr3 = KernelCr3
  /\ USER_CR3_SCRATCH = KernelCr3
  /\ KERNEL_STACK_PTR = KernelCr3
  /\ frame = [stack \in Images |-> NoTask]
  /\ entered = [slot \in Slots |-> KernelCr3]
  /\ user_rsp = [slot \in Slots |-> slot]

\* SYSCALL: CR3 and RSP go through the two global cells.
SyscallEnter ==
  /\ started /\ Me.user /\ mode[current] = "user" /\ pc[current] = "run"
  /\ mode' = [mode EXCEPT ![current] = "syscall"]
  /\ USER_CR3_SCRATCH' = cr3
  /\ cr3' = KernelCr3
  /\ frame' = [frame EXCEPT ![KERNEL_STACK_PTR] = user_rsp[current]]
  /\ entered' = [entered EXCEPT ![current] = KERNEL_STACK_PTR]
  /\ UNCHANGED <<vars, image, KERNEL_STACK_PTR, user_rsp>>

InSyscall == started /\ mode[current] = "syscall"

\* The way back: CR3 from the global cell, RSP from the stack.
SyscallReturn ==
  /\ InSyscall /\ pc[current] = "run"
  /\ mode' = [mode EXCEPT ![current] = "user"]
  /\ cr3' = USER_CR3_SCRATCH
  /\ user_rsp' = [user_rsp EXCEPT ![current] = frame[entered[current]]]
  /\ UNCHANGED <<vars, image, USER_CR3_SCRATCH, KERNEL_STACK_PTR, frame, entered>>

\* Mutant: only the first switch sets the kernel stack.
SwitchCpuOldStack ==
  IF current' = current
  THEN UNCHANGED <<cr3, KERNEL_STACK_PTR>>
  ELSE /\ cr3' = page_table(current')
       /\ KERNEL_STACK_PTR' = IF current = NoTask THEN Own(current') ELSE KERNEL_STACK_PTR

\* Mutant: no load_cr3.
SwitchCpuOldCr3 ==
  IF current' = current
  THEN UNCHANGED <<cr3, KERNEL_STACK_PTR>>
  ELSE cr3' = cr3 /\ KERNEL_STACK_PTR' = Own(current')

\* What run and reschedule do to the CPU when they switch to another task.
SwitchCpu ==
  IF current' = current
  THEN UNCHANGED <<cr3, KERNEL_STACK_PTR>>
  ELSE cr3' = page_table(current') /\ KERNEL_STACK_PTR' = Own(current')

\* A step of the scheduler that can switch tasks: a call made inside a system
\* call, or the timer, which only interrupts user mode and kernel tasks.
Switching ==
  /\ \/ Run
     \/ Tick /\ (Me.user => mode[current] = "user")
     \/ CheckReschedule
     \/ WaitPoll
     \/ InSyscall /\ Yield
  /\ SwitchCpu
  /\ UNCHANGED <<mode, image, USER_CR3_SCRATCH, frame, entered, user_rsp>>

\* The steps that leave the CPU as it is.  A page fault in user mode exits the
\* task too; a keyboard interrupt wakes a reader.
Plain ==
  /\ \/ \E p \in SpawnPriorities : Spawn(p, TRUE, TRUE)
     \/ ExitCurrent
     \/ InSyscall /\ BlockCurrent([kind |-> "Waiting"])
     \/ InSyscall /\ \E id \in 0..MaxIds : WaitTask(id)
     \/ \E id \in 0..MaxIds : WakeTask(id) /\ (Me.user => mode[current] = "user")
  /\ UNCHANGED entryVars

\* replace_current_task does not return to the system call: it loads the new
\* page table and stack and leaves for user mode.
Exec ==
  /\ InSyscall /\ image[current] < MaxImages
  /\ ExecReplace
  /\ image' = [image EXCEPT ![current] = @ + 1]
  /\ cr3' = <<current, image'[current]>>
  /\ KERNEL_STACK_PTR' = <<current, image'[current]>>
  /\ mode' = [mode EXCEPT ![current] = "user"]
  /\ user_rsp' = [user_rsp EXCEPT ![current] = current]
  /\ UNCHANGED <<USER_CR3_SCRATCH, frame, entered>>

EntryNext == SyscallEnter \/ SyscallReturn \/ Switching \/ Plain \/ Exec

EntrySpec == EntryInit /\ [][EntryNext]_fullVars

-----------------------------------------------------------------------------

\* A system call that blocks, yields or is overtaken by other system calls
\* returns to the user stack it came from: no entry overwrites a frame parked
\* on another task's kernel stack.
ReturnsToOwnStack == \A slot \in Slots : user_rsp[slot] = slot

\* "Switch back to user page table": user code runs in its own address space.
OwnAddressSpace ==
  started /\ Me.user /\ mode[current] = "user" => cr3 = page_table(current)

\* With a single user program it does, through switches to the idle task and
\* back and through exec.
OwnAddressSpaceAlone == sched.next_id <= 2 => OwnAddressSpace
=============================================================================
