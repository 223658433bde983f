------------------------------ MODULE Spinlock ------------------------------
(***************************************************************************)
(* kernel/src/sync.rs: spinlocks that keep interrupts off while held, on   *)
(* one CPU with kernel threads, system calls and interrupt handlers that   *)
(* all take them.                                                          *)
(*                                                                         *)
(* On one CPU a wait for a held lock never ends: lock() turned interrupts  *)
(* off, so the holder cannot run.  Interrupts come between any two steps   *)
(* at which the flag is on, the two of a guard's drop included.  Guards    *)
(* are dropped in reverse order of locking.                                *)
(***************************************************************************)
EXTENDS Naturals, Sequences

CONSTANTS Threads, Locks,
          Irq,        \* the context of an interrupt handler
          NoLock, Free,
          MaxDepth    \* bound: guards held at once by one context

ASSUME SpinlockAssumption ==
  /\ Irq \notin Threads /\ NoLock \notin Locks
  /\ Free \notin Threads \cup {Irq}
  /\ MaxDepth \in Nat

VARIABLES current,  \* the thread the CPU is on
          irq,      \* whether a handler runs on top of it
          IFlag,    \* the interrupt flag
          flags,    \* per thread: IF as saved when it was switched out
          insys,    \* per thread: it is in a system call
          pc,       \* per context: where it is in lock() or drop()
          want, was,\* per context: the arguments and locals of lock()
          guards,   \* per context: the guards alive, oldest first
          inner     \* per lock: the context inside the spin::Mutex, or Free

lockVars == <<current, irq, IFlag, flags, insys, pc, want, was, guards, inner>>

Contexts == Threads \cup {Irq}

Me == IF irq THEN Irq ELSE current

\* Last and Front of a nonempty sequence.
Top(s) == s[Len(s)]
Below(s) == SubSeq(s, 1, Len(s) - 1)

LockInit ==
  /\ current \in Threads
  /\ irq = FALSE
  /\ IFlag = TRUE
  /\ flags = [t \in Threads |-> TRUE]
  /\ insys = [t \in Threads |-> FALSE]
  /\ pc = [c \in Contexts |-> "idle"]
  /\ want = [c \in Contexts |-> NoLock]
  /\ was = [c \in Contexts |-> FALSE]
  /\ guards = [c \in Contexts |-> <<>>]
  /\ inner = [l \in Locks |-> Free]

\* lock(): are_enabled.  Nothing keeps a context from asking for a lock that
\* it holds; sys_brk does.
LockRead(l) ==
  /\ pc[Me] = "idle" /\ Len(guards[Me]) < MaxDepth
  /\ pc' = [pc EXCEPT ![Me] = "read"]
  /\ want' = [want EXCEPT ![Me] = l]
  /\ was' = [was EXCEPT ![Me] = IFlag]
  /\ UNCHANGED <<current, irq, IFlag, flags, insys, guards, inner>>

\* Mutant: interrupts stay on.
LockNoDisable ==
  /\ pc[Me] = "read"
  /\ pc' = [pc EXCEPT ![Me] = "spin"]
  /\ UNCHANGED <<current, irq, IFlag, flags, insys, want, was, guards, inner>>

\* lock(): interrupts off, if they were on.
LockDisable ==
  /\ pc[Me] = "read"
  /\ pc' = [pc EXCEPT ![Me] = "spin"]
  /\ IFlag' = IF was[Me] THEN FALSE ELSE IFlag
  /\ UNCHANGED <<current, irq, flags, insys, want, was, guards, inner>>

\* lock(): a turn of the loop of the spin::Mutex, which is held.
LockSpin ==
  /\ pc[Me] = "spin" /\ inner[want[Me]] # Free
  /\ UNCHANGED lockVars

\* lock(): the spin::Mutex is free, the guard is made.
LockAcquire ==
  /\ pc[Me] = "spin" /\ inner[want[Me]] = Free
  /\ pc' = [pc EXCEPT ![Me] = "idle"]
  /\ inner' = [inner EXCEPT ![want[Me]] = Me]
  /\ guards' = [guards EXCEPT ![Me] = Append(@, [lock |-> want[Me], interrupts_enabled |-> was[Me]])]
  /\ want' = [want EXCEPT ![Me] = NoLock]
  /\ was' = [was EXCEPT ![Me] = FALSE]
  /\ UNCHANGED <<current, irq, IFlag, flags, insys>>

\* Mutant: every guard turns interrupts on.
DropEnableAlways ==
  /\ pc[Me] = "idle" /\ guards[Me] # <<>>
  /\ pc' = [pc EXCEPT ![Me] = "release"]
  /\ IFlag' = TRUE
  /\ UNCHANGED <<current, irq, flags, insys, want, was, guards, inner>>

\* Drop for SpinlockGuard: interrupts on first, if they were on ...
DropEnable ==
  /\ pc[Me] = "idle" /\ guards[Me] # <<>>
  /\ pc' = [pc EXCEPT ![Me] = "release"]
  /\ IFlag' = IF Top(guards[Me]).interrupts_enabled THEN TRUE ELSE IFlag
  /\ UNCHANGED <<current, irq, flags, insys, want, was, guards, inner>>

\* ... then the fields are dropped, and with them the spin::Mutex is left.
DropRelease ==
  /\ pc[Me] = "release"
  /\ pc' = [pc EXCEPT ![Me] = "idle"]
  /\ inner' = [inner EXCEPT ![Top(guards[Me]).lock] = Free]
  /\ guards' = [guards EXCEPT ![Me] = Below(@)]
  /\ UNCHANGED <<current, irq, IFlag, flags, insys, want, was>>

\* An interrupt gate: IF goes off.
Interrupt ==
  /\ ~irq /\ IFlag
  /\ irq' = TRUE
  /\ IFlag' = FALSE
  /\ flags' = [flags EXCEPT ![current] = TRUE]
  /\ UNCHANGED <<current, insys, pc, want, was, guards, inner>>

Quiet(c) == pc[c] = "idle" /\ guards[c] = <<>>

\* The handler returns, to the thread it interrupted or, from the timer, to
\* another one.
Iret(t) ==
  /\ irq /\ Quiet(Irq)
  /\ irq' = FALSE
  /\ current' = t
  /\ IFlag' = flags[t]
  /\ UNCHANGED <<flags, insys, pc, want, was, guards, inner>>

\* A thread gives up the CPU (int 49) outside any critical section.
Yield(t) ==
  /\ ~irq /\ Quiet(current)
  /\ flags' = [flags EXCEPT ![current] = IFlag]
  /\ current' = t
  /\ IFlag' = flags'[t]
  /\ UNCHANGED <<irq, insys, pc, want, was, guards, inner>>

\* SYSCALL masks IF, SYSRET brings it back.
Syscall ==
  /\ ~irq /\ Quiet(current)
  /\ insys' = [insys EXCEPT ![current] = ~@]
  /\ IFlag' = insys[current]
  /\ UNCHANGED <<current, irq, flags, pc, want, was, guards, inner>>

LockNext ==
  \/ \E l \in Locks : LockRead(l)
  \/ LockDisable \/ LockSpin \/ LockAcquire \/ DropEnable \/ DropRelease
  \/ Interrupt \/ \E t \in Threads : Iret(t) \/ Yield(t)
  \/ Syscall

LockSpec == LockInit /\ [][LockNext]_lockVars

-----------------------------------------------------------------------------

\* The interrupt flag of code that holds no lock.
Base == ~irq /\ ~insys[current]

Guards == [lock : Locks, interrupts_enabled : BOOLEAN]

\* Every context is at a point of lock() or drop(), its guards are real.
LockTypeOK ==
  /\ current \in Threads
  /\ irq \in BOOLEAN /\ IFlag \in BOOLEAN
  /\ flags \in [Threads -> BOOLEAN] /\ insys \in [Threads -> BOOLEAN]
  /\ pc \in [Contexts -> {"idle", "read", "spin", "release"}]
  /\ want \in [Contexts -> Locks \cup {NoLock}]
  /\ was \in [Contexts -> BOOLEAN]
  /\ guards \in [Contexts -> Seq(Guards)]
  /\ inner \in [Locks -> Contexts \cup {Free}]

\* A thread in drop(), between the STI and the release of its only guard.
InWindow(c) ==
  /\ c # Irq /\ ~insys[c]
  /\ pc[c] = "release"
  /\ Len(guards[c]) = 1 /\ guards[c][1].interrupts_enabled

\* "This prevents deadlocks if an interrupt handler attempts to acquire the
\* same lock as the code it interrupted": no handler waits for that code.
NoHandlerDeadlock ==
  irq /\ pc[Irq] = "spin" => inner[want[Irq]] # current

\* What is left of that promise: whoever asks for a lock finds it free, unless
\* the asker holds it already, or the holder is a thread that was interrupted
\* in drop(), between the STI and the release of that very lock.
WaitsOnlyInDrop ==
  pc[Me] = "spin" =>
    LET holder == inner[want[Me]]
    IN \/ holder \in {Free, Me}
       \/ InWindow(holder) /\ guards[holder][1].lock = want[Me]

\* The last guard dropped leaves interrupts as the first lock() found them: on
\* in a thread, off in a system call and in a handler, whatever nested locks,
\* interrupts and switches came between.
InterruptsRestored ==
  Quiet(Me) => (IFlag <=> Base)

-----------------------------------------------------------------------------
(* Why: interrupts are on only outside critical sections and in the window  *)
(* of drop(), so that is where every context but the running one is.        *)

\* A context that holds nothing and waits for nothing; at most it was
\* interrupted before lock() turned interrupts off.
Outside(c) ==
  /\ guards[c] = <<>>
  /\ pc[c] \in {"idle", "read"}
  /\ pc[c] = "read" => was[c] /\ c # Irq /\ ~insys[c]

OthersOut ==
  \A c \in Contexts \ {Me} :
    /\ Outside(c) \/ InWindow(c)
    /\ c # Irq => (flags[c] <=> ~insys[c])

\* A held spin::Mutex belongs to a guard of its holder.
HeldByGuard ==
  \A l \in Locks : inner[l] # Free =>
    \E i \in DOMAIN guards[inner[l]] : guards[inner[l]][i].lock = l

\* Only the oldest guard will turn interrupts back on.
OldestRestores ==
  \A i \in DOMAIN guards[Me] :
    guards[Me][i].interrupts_enabled <=> (i = 1 /\ Base)

\* The interrupt flag at each point of the running context.
FlagHere ==
  /\ IFlag <=> Base /\ \/ guards[Me] = <<>> /\ pc[Me] # "spin"
                       \/ Len(guards[Me]) = 1 /\ pc[Me] = "release"
  /\ pc[Me] \in {"read", "spin"} => (was[Me] <=> Base /\ guards[Me] = <<>>)
  /\ pc[Me] = "release" => guards[Me] # <<>>

\* Whoever is in lock() asks for a lock.
WantsLock == \A c \in Contexts : pc[c] \in {"read", "spin"} => want[c] \in Locks

\* A handler runs on top of a thread that had interrupts on.
Interrupted == irq => ~insys[current]

\* The inductive invariant behind WaitsOnlyInDrop and InterruptsRestored.
LockInv ==
  /\ LockTypeOK /\ OthersOut /\ HeldByGuard /\ OldestRestores /\ FlagHere /\ WantsLock
  /\ Interrupted
=============================================================================
