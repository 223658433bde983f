------------------------------ MODULE SpscRing ------------------------------
(***************************************************************************)
(* libs/beast_ring: SpscRing<T, N>, the lock-free ring under every channel *)
(* of the kernel.  One producer and one consumer run concurrently; an      *)
(* action is what a caller does between two accesses to memory the other   *)
(* one also accesses.  A counter is a usize: it wraps at Width.            *)
(*                                                                         *)
(* head is stored by the producer alone and tail by the consumer alone, so *)
(* the load of one's own counter needs no step and no local copy.          *)
(***************************************************************************)
EXTENDS Integers, Sequences

CONSTANTS N,        \* the const generic N, the capacity
          Width,    \* number of values of a usize
          Msgs,     \* values of type T
          None      \* Option::None

\* The assertion in SpscRing::new makes N a power of two below 2^64, so it
\* divides the number of values of a usize; a ring has a first slot.
ASSUME RingAssumption ==
  /\ N \in Nat \ {0}
  /\ Width \in Nat
  /\ \E k \in 2..Width : Width = k * N
  /\ None \notin Msgs

VARIABLES head,     \* producer write index
          tail,     \* consumer read index
          buffer,   \* the slots
          pp, pval, \* producer: next step of try_push, its argument
          cp, cval, \* consumer: next step of its call, the value it has read
          chead,    \* consumer: the head that len() has loaded
          pushRes,  \* last result of try_push
          popRes,   \* last result of try_pop
          lenRes    \* last result of len()

prodVars == <<pp, pval, pushRes>>
consVars == <<cp, cval, chead, popRes>>
ringVars == <<head, tail, buffer, prodVars, consVars, lenRes>>

Counter == 0..(Width - 1)

wrapping_sub(a, b) == (a - b) % Width

wrapping_add(a, b) == (a + b) % Width

Slot(c) == c % N

RingInit ==
  /\ head = 0 /\ tail = 0
  /\ buffer \in [0..(N - 1) -> {None}]
  /\ pp = "idle" /\ pval = None /\ pushRes = "ok"
  /\ cp = "idle" /\ cval = None /\ chead = 0 /\ popRes = None
  /\ lenRes = 0

-----------------------------------------------------------------------------
(* try_push *)

\* Mutant: the full test is off by one.
PushCheckOffByOne(v) ==
  /\ pp = "idle"
  /\ wrapping_sub(head, tail) <= N
  /\ pp' = "write" /\ pval' = v
  /\ UNCHANGED <<head, tail, buffer, pushRes, consVars, lenRes>>

\* Loads tail and finds a free slot.
PushCheck(v) ==
  /\ pp = "idle"
  /\ wrapping_sub(head, tail) < N
  /\ pp' = "write" /\ pval' = v
  /\ UNCHANGED <<head, tail, buffer, pushRes, consVars, lenRes>>

\* Loads tail and finds the ring full: Err(value).
PushErr ==
  /\ pp = "idle"
  /\ wrapping_sub(head, tail) >= N
  /\ pushRes' = "err"
  /\ UNCHANGED <<head, tail, buffer, pp, pval, consVars, lenRes>>

PushWrite ==
  /\ pp = "write"
  /\ buffer' = [buffer EXCEPT ![Slot(head)] = pval]
  /\ pp' = "publish"
  /\ UNCHANGED <<head, tail, pval, pushRes, consVars, lenRes>>

\* Stores head + 1: the value becomes visible to the consumer.
PushPublish ==
  /\ pp = "publish"
  /\ head' = wrapping_add(head, 1)
  /\ pp' = "idle" /\ pushRes' = "ok"
  /\ UNCHANGED <<tail, buffer, pval, consVars, lenRes>>

-----------------------------------------------------------------------------
(* try_pop *)

PopCheck ==
  /\ cp = "idle"
  /\ tail # head
  /\ cp' = "read"
  /\ UNCHANGED <<head, tail, buffer, cval, chead, popRes, prodVars, lenRes>>

PopNone ==
  /\ cp = "idle"
  /\ tail = head
  /\ popRes' = None
  /\ UNCHANGED <<head, tail, buffer, cp, cval, chead, prodVars, lenRes>>

\* Mutant: reads the slot tail is about to move to.
PopReadNext ==
  /\ cp = "read"
  /\ cval' = buffer[Slot(wrapping_add(tail, 1))]
  /\ cp' = "publish"
  /\ UNCHANGED <<head, tail, buffer, chead, popRes, prodVars, lenRes>>

PopRead ==
  /\ cp = "read"
  /\ cval' = buffer[Slot(tail)]
  /\ cp' = "publish"
  /\ UNCHANGED <<head, tail, buffer, chead, popRes, prodVars, lenRes>>

\* Stores tail + 1: the slot becomes free for the producer.
PopPublish ==
  /\ cp = "publish"
  /\ tail' = wrapping_add(tail, 1)
  /\ cp' = "idle" /\ popRes' = cval
  /\ UNCHANGED <<head, buffer, cval, chead, prodVars, lenRes>>

-----------------------------------------------------------------------------
(* len loads head, then tail.  Called by the consumer the two loads are two *)
(* steps, the producer may push between them; called by the producer they   *)
(* are one, since head cannot move.                                         *)

ConsumerLenLoadHead ==
  /\ cp = "idle"
  /\ chead' = head /\ cp' = "len"
  /\ UNCHANGED <<head, tail, buffer, cval, popRes, prodVars, lenRes>>

\* Mutant: the counters subtracted the wrong way round.
ConsumerLenSwapped ==
  /\ cp = "len"
  /\ lenRes' = wrapping_sub(tail, chead)
  /\ cp' = "idle"
  /\ UNCHANGED <<head, tail, buffer, cval, chead, popRes, prodVars>>

ConsumerLen ==
  /\ cp = "len"
  /\ lenRes' = wrapping_sub(chead, tail)
  /\ cp' = "idle"
  /\ UNCHANGED <<head, tail, buffer, cval, chead, popRes, prodVars>>

ProducerLen ==
  /\ pp = "idle"
  /\ lenRes' = wrapping_sub(head, tail)
  /\ UNCHANGED <<head, tail, buffer, prodVars, consVars>>

-----------------------------------------------------------------------------

ProducerStep ==
  \/ \E v \in Msgs : PushCheck(v)
  \/ PushErr \/ PushWrite \/ PushPublish \/ ProducerLen

ConsumerStep ==
  \/ PopCheck \/ PopNone \/ PopRead \/ PopPublish
  \/ ConsumerLenLoadHead \/ ConsumerLen

RingNext == ProducerStep \/ ConsumerStep

RingSpec == RingInit /\ [][RingNext]_ringVars

-----------------------------------------------------------------------------

\* The counters stay in the range of a usize, the slots hold messages.
RingTypeOK ==
  /\ head \in Counter /\ tail \in Counter
  /\ buffer \in [0..(N - 1) -> Msgs \cup {None}]
  /\ pp \in {"idle", "write", "publish"} /\ pval \in Msgs \cup {None}
  /\ cp \in {"idle", "read", "publish", "len"} /\ cval \in Msgs \cup {None}
  /\ chead \in Counter /\ lenRes \in Counter
  /\ pushRes \in {"ok", "err"} /\ popRes \in Msgs \cup {None}

Used == wrapping_sub(head, tail)

\* The ring never holds more than N values, however the two callers
\* interleave and however often the counters have wrapped.
NeverOverfull == Used <= N

\* The slot the producer is writing is never the slot the consumer is
\* reading: the plain accesses to buffer in try_push and try_pop do not race.
NoSlotRace == pp = "write" /\ cp = "read" => Slot(head) # Slot(tail)

\* len() called by the producer or the consumer never underflows, although
\* it loads the two counters one after the other.
LenInRange == lenRes \in 0..N

\* The values between the two counters, oldest first.
RingContents == [i \in 1..Used |-> buffer[Slot(tail + i - 1)]]

Fifo == INSTANCE BoundedFifo WITH q <- RingContents

\* The ring with its unsynchronised slots and wrapping counters behaves as
\* an atomic bounded FIFO queue: no value is lost, duplicated, reordered or
\* torn, Err is returned only when full and None only when empty.
RefinesFifo == Fifo!FifoSpec
=============================================================================
