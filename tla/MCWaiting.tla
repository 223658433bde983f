----------------------------- MODULE MCWaiting -----------------------------
(***************************************************************************)
(* An instance of the two places where a task sleeps until another one, or *)
(* an interrupt, wakes it: the ends of a channel and the keyboard read.    *)
(* One boot runs one of the two workloads on the scheduler they share.     *)
(***************************************************************************)
EXTENDS Channel, Keyboard

VARIABLE workload

waitVars == <<vars, chanVars, kbdVars, workload>>

WaitInit ==
  \/ workload = "channel" /\ ChanInit /\ KeyboardNew
  \/ workload = "keyboard" /\ KbdInit /\ ChannelNew

WaitNext ==
  \/ workload = "channel" /\ ChanNext /\ UNCHANGED <<kbdVars, workload>>
  \/ workload = "keyboard" /\ KbdNext /\ UNCHANGED <<chanVars, workload>>

-----------------------------------------------------------------------------
(* Fairness *)

\* A task in the middle of a kernel call goes on with it when it is current;
\* at most one of these steps is enabled at a time.
KernelStep ==
  /\ \/ (Run \/ CheckReschedule \/ WaitPoll) /\ UNCHANGED kbdVars
     \/ ReadCopy \/ ReadBlock
  /\ UNCHANGED <<chanVars, workload>>

\* PIT ticks are latched while interrupts are masked and delivered at the
\* first instruction that unmasks them: strong fairness.
MayTick == ChanInterruptsOn /\ KbdInterruptsOn

TimerTick == MayTick /\ Tick /\ UNCHANGED <<chanVars, kbdVars, workload>>

\* A task that is given the CPU gets at least one step of its call done before
\* the next tick, 10 ms later.
CallStep(r) == workload = "channel" /\ Step(r) /\ UNCHANGED <<kbdVars, workload>>

\* The consumer keeps calling recv.  Nothing makes the producer send.
Receive ==
  workload = "channel" /\ Begin("C", TRUE) /\ UNCHANGED <<kbdVars, workload>>

WaitFairSpec ==
  /\ WaitInit /\ [][WaitNext]_waitVars
  /\ WF_waitVars(KernelStep)
  /\ []<>MayTick => []<><<TimerTick>>_waitVars
  /\ \A r \in Roles : SF_waitVars(CallStep(r))
  /\ SF_waitVars(Receive)
=============================================================================
