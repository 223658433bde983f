------------------------------ MODULE IoUring ------------------------------
(* One io_uring ring (kernel/src/io_uring/mod.rs, sys_io_uring_* of
   kernel/src/syscall/mod.rs) with the program that owns it
   (userland/io_uring_test/src/main.rs) on the other side of the two shared
   pages.  The requests act on the descriptors of Files.

   The program may be preempted between any two of its memory accesses, so a
   push and a pop are two steps each.  A syscall is one step.  Any task may
   enter any ring: the table is global and enter checks no owner.

   Indices are u32 and wrap: they are kept modulo IdxMod.  A slot is the index
   modulo entries, as in the code.  Where entries does not divide IdxMod (it is
   no power of two) the index before the wrap and the one after it may have one
   slot, and where entries is more than PageEntries (of the 128 that setup
   allows 101 fit) an entry of the submission queue is written on the page of
   the completion queue. *)
EXTENDS Files

CONSTANTS MaxEntries,   \* IOURING_MAX_ENTRIES
          PageEntries,  \* entries that fit on the submission queue's page
          IdxMod,       \* 2^32 in the code
          SetupSizes,   \* sizes that programs ask setup for
          Owner,        \* the task that set the ring up
          Requests,     \* what the program submits: records, see below
          FixedTables,  \* tables that register_fds is given
          Buffers,      \* buffer ids that register_buffer is given
          MaxPush       \* bound: requests submitted in all

ASSUME RingAssumption ==
  MaxEntries \in Nat \ {0} /\ IdxMod \in Nat /\ IdxMod > MaxEntries

VARIABLES asked,     \* the size the program asked setup for
          pages,     \* the frame allocator has a page for read_zc
          stop,      \* "no", or why nothing more is said of the behaviour
          ring,      \* the ring and the two pages it shares
          program,   \* where the program is in push_sqe or pop_cqe
          ran,       \* history: user_data of the requests run, in order
          answered   \* history: user_data of the completions popped, in order

setVars == <<asked, pages, stop>>
ringVars == <<setVars, ring, program, ran, answered>>
uringVars == <<files, ringVars>>

\* A request is [op, fd, len, iovec, path, prio, chain, linked, fixed]: addr and
\* len of the code are the buffer's length, the lengths of an iovec or a path.
\* prio: bits 4..6 of flags; chain: SQE_CHAIN; linked: bit 7, "use the chained
\* result as the descriptor"; fixed: SQE_FIXED_FILE.
Keyboard == 0

\* ring.entries: IoUring::new brings the size into range.
Entries ==
  IF asked \in 1 .. MaxEntries THEN asked ELSE IF asked = 0 THEN 1 ELSE MaxEntries

Advance(index) == (index + 1) % IdxMod
Distance(from, to) == (to - from + IdxMod) % IdxMod
Slot(index) == index % Entries

\* The zeroed page: a NOP of priority 0.
Zeroed == [request |-> [op |-> "nop", fd |-> 0, len |-> 0, iovec |-> <<>>,
                        path |-> [abs |-> TRUE, parts |-> <<>>], prio |-> 0,
                        chain |-> FALSE, linked |-> FALSE, fixed |-> FALSE],
           data |-> 0]

-----------------------------------------------------------------------------
(* Running one request: exec_sqe.  The state of a batch is [fs, ring, ran,
   rest]: rest is empty until a request has to wait, and then that request and
   those behind it. *)

\* The descriptor submit_sqes puts in its copy of the request ...
LinkedFd(r, sqe) == IF sqe.linked THEN Max({r.chain_result, 0}) ELSE sqe.fd

\* ... and the one exec_sqe replaces it by.
FixedFd(r, sqe, fd) ==
  IF sqe.fixed /\ fd < Len(r.fixed_files) THEN r.fixed_files[fd + 1] ELSE fd

\* read_zc takes its buffer id from the low four bits of flags, where
\* SQE_CHAIN (1) and SQE_FIXED_FILE (4) are too, and ignores the fixed table.
BufferId(sqe) == (IF sqe.chain THEN 1 ELSE 0) + (IF sqe.fixed THEN 4 ELSE 0)

\* readv stops at an error or at a short read, writev only at an error; either
\* returns what was transferred before, or the error if that is nothing.
readv(fs, task, fd, lens) ==
  LET step(acc, len) ==
        LET r == sys_read(acc.fs, task, fd, len) IN
        IF acc.stop THEN acc
        ELSE IF r.ret < 0
        THEN [acc EXCEPT !.stop = TRUE, !.ret = IF @ > 0 THEN @ ELSE r.ret]
        ELSE [fs |-> r.fs, ret |-> acc.ret + r.ret, stop |-> r.ret < len]
      upto[k \in 0 .. Len(lens)] ==
        IF k = 0 THEN [fs |-> fs, ret |-> 0, stop |-> FALSE]
        ELSE step(upto[k - 1], lens[k])
  IN  upto[Len(lens)]

writev(fs, task, fd, lens) ==
  LET step(acc, len) ==
        LET w == sys_write(acc.fs, task, fd, len) IN
        IF acc.stop THEN acc
        ELSE IF w.ret < 0
        THEN [acc EXCEPT !.stop = TRUE, !.ret = IF @ > 0 THEN @ ELSE w.ret]
        ELSE [acc EXCEPT !.fs = w.fs, !.ret = @ + w.ret]
      upto[k \in 0 .. Len(lens)] ==
        IF k = 0 THEN [fs |-> fs, ret |-> 0, stop |-> FALSE]
        ELSE step(upto[k - 1], lens[k])
  IN  upto[Len(lens)]

\* The bytes an iovec asks for.
TotalLen(lens) ==
  LET upto[k \in 0 .. Len(lens)] == IF k = 0 THEN 0 ELSE upto[k - 1] + lens[k]
  IN  upto[Len(lens)]

exec_sqe(st, task, sqe) ==
  LET linked == LinkedFd(st.ring, sqe)
      fd == FixedFd(st.ring, sqe, linked)
  IN  CASE sqe.op = "read"  -> sys_read(st.fs, task, fd, sqe.len)
        [] sqe.op = "write" -> sys_write(st.fs, task, fd, sqe.len)
        [] sqe.op = "open"  -> sys_open(st.fs, task, sqe.path)
        [] sqe.op = "close" -> sys_close(st.fs, task, fd)
        [] sqe.op = "readv"  -> readv(st.fs, task, fd, sqe.iovec)
        [] sqe.op = "writev" -> writev(st.fs, task, fd, sqe.iovec)
        [] sqe.op = "read_zc" ->
             IF BufferId(sqe) \in st.ring.bufs /\ pages
             THEN file_read(st.fs, task, linked, sqe.len)
             ELSE [fs |-> st.fs, ret |-> Failed]
        [] sqe.op = "nop"   -> [fs |-> st.fs, ret |-> Failed]

\* A read of descriptor 0 waits for the keyboard with IO_URINGS locked (the
\* keyboard buffer, see Keyboard, is taken to be empty at first).
WaitsForKey(st, sqe) ==
  /\ FixedFd(st.ring, sqe, LinkedFd(st.ring, sqe)) = Keyboard
  /\ \/ sqe.op = "read" /\ sqe.len > 0
     \/ sqe.op = "readv" /\ sqe.iovec # <<>> /\ Head(sqe.iovec) > 0

\* One more completion than the ring holds: mutant.
push_cqe_late(r, data, result) ==
  IF Distance(r.cq_head, r.cq_tail) > Entries THEN r
  ELSE [r EXCEPT !.cq[Slot(r.cq_tail)] = [data |-> data, result |-> result],
                 !.cq_tail = Advance(@)]

\* A completion that finds the ring full is dropped.
push_cqe(r, data, result) ==
  IF Distance(r.cq_head, r.cq_tail) >= Entries THEN r
  ELSE [r EXCEPT !.cq[Slot(r.cq_tail)] = [data |-> data, result |-> result],
                 !.cq_tail = Advance(@)]

\* What submit_sqes does with the result of the request at index i.
Answer(st, i, ret) ==
  LET sqe == st.ring.sq[Slot(i)]
  IN  [st EXCEPT
        !.ran = Append(@, sqe.data),
        !.ring = IF sqe.request.chain THEN [@ EXCEPT !.chain_result = ret]
                 ELSE push_cqe([@ EXCEPT !.chain_result = 0], sqe.data, ret)]

\* The body of submit_sqes' inner loop for the request at index i.
RunOne(st, task, i) ==
  LET request == st.ring.sq[Slot(i)].request
      done == exec_sqe(st, task, request)
  IN  IF st.rest # <<>> \/ WaitsForKey(st, request)
      THEN [st EXCEPT !.rest = Append(@, i)]
      ELSE Answer([st EXCEPT !.fs = done.fs], i, done.ret)

-----------------------------------------------------------------------------
(* Which requests of a batch run, and in which order: submit_sqes. *)

Window(r) == [k \in 1 .. Distance(r.sq_head, r.sq_tail) |->
                (r.sq_head + k - 1) % IdxMod]

\* The requests one pass over the window runs: those of its priority, up to
\* and including the first that is not chained to the next.
Pass(r, prio) ==
  LET w == Window(r)
      At(k) == r.sq[Slot(w[k])].request
      Taken(k) == /\ At(k).prio = prio
                  /\ \A j \in 1 .. k - 1 : At(j).prio = prio => At(j).chain
      upto[k \in 0 .. Len(w)] ==
        IF k = 0 THEN <<>>
        ELSE IF Taken(k) THEN Append(upto[k - 1], w[k]) ELSE upto[k - 1]
  IN  upto[Len(w)]

\* Priorities from 4 down to 1 only: mutant.
BatchOrder_skips_zero(r) == Pass(r, 4) \o Pass(r, 3) \o Pass(r, 2) \o Pass(r, 1)

\* Five passes, highest priority first; never more than entries in all.
BatchOrder(r) ==
  LET order == Pass(r, 4) \o Pass(r, 3) \o Pass(r, 2) \o Pass(r, 1) \o Pass(r, 0)
  IN  SubSeq(order, 1, IF Len(order) < Entries THEN Len(order) ELSE Entries)

\* The head stays: mutant.
Consumed_nothing(r, tail) == r

\* The head moves to the tail the call found, over the requests no pass ran too.
Consumed(r, tail) == [r EXCEPT !.sq_head = tail]

NoTaskWaits == [task |-> 0, rest |-> <<>>, tail |-> 0]

\* The passes over order.  A call that has to wait keeps the lock and what it
\* has still to run.
submit_sqes(task, start, order, tail) ==
  LET run[k \in 0 .. Len(order)] ==
        IF k = 0 THEN start ELSE RunOne(run[k - 1], task, order[k])
      end == run[Len(order)]
  IN  IF end.rest # <<>>
      THEN [end EXCEPT !.ring.locked = [task |-> task, rest |-> end.rest, tail |-> tail]]
      ELSE [end EXCEPT !.ring = Consumed([@ EXCEPT !.locked = NoTaskWaits], tail)]

SetUring(end) == files' = end.fs /\ ring' = end.ring /\ ran' = end.ran

Now == [fs |-> files, ring |-> ring, ran |-> ran, rest |-> <<>>]

-----------------------------------------------------------------------------
UringInit ==
  /\ asked \in SetupSizes /\ pages = TRUE /\ stop = "no"
  /\ ring = [sq |-> [i \in 0 .. Entries - 1 |-> Zeroed], sq_head |-> 0, sq_tail |-> 0,
             cq |-> [i \in 0 .. Entries - 1 |-> [data |-> 0, result |-> 0]],
             cq_head |-> 0, cq_tail |-> 0, chain_result |-> 0,
             fixed_files |-> <<>>, bufs |-> {}, locked |-> NoTaskWaits]
  /\ program = [pc |-> "idle", pushed |-> 0]
  /\ ran = <<>> /\ answered = <<>>

ProgramRuns(pc) == program.pc = pc /\ ring.locked.task # Owner

\* push_sqe: the entry first, then the tail.  push_sqe does not look at the
\* head; the program never has more than entries requests outstanding.
MayPush ==
  /\ ProgramRuns("idle") /\ program.pushed < MaxPush
  /\ Distance(ring.sq_head, ring.sq_tail) < Entries

PushWrite ==
  /\ MayPush /\ Slot(ring.sq_tail) < PageEntries
  /\ \E request \in Requests :
       ring' = [ring EXCEPT !.sq[Slot(ring.sq_tail)] =
                  [request |-> request, data |-> program.pushed + 1]]
  /\ program' = [pc |-> "pushing", pushed |-> program.pushed + 1]
  /\ UNCHANGED <<files, ran, answered>>

\* The slot lies beyond the page: the entry overwrites the page mapped behind
\* it, the completion queue's, and nothing is said of what follows.
PushOver ==
  /\ MayPush /\ Slot(ring.sq_tail) >= PageEntries
  /\ stop' = "overrun"
  /\ UNCHANGED <<files, asked, pages, ring, program, ran, answered>>

PushTail ==
  /\ ProgramRuns("pushing")
  /\ ring' = [ring EXCEPT !.sq_tail = Advance(@)]
  /\ program' = [program EXCEPT !.pc = "idle"]
  /\ UNCHANGED <<files, ran, answered>>

\* pop_cqe: the entry is copied out before the head frees its slot.
PopRead ==
  /\ ProgramRuns("idle") /\ ring.cq_head # ring.cq_tail
  /\ answered' = Append(answered, ring.cq[Slot(ring.cq_head)].data)
  /\ program' = [program EXCEPT !.pc = "popping"]
  /\ UNCHANGED <<files, ring, ran>>

PopHead ==
  /\ ProgramRuns("popping")
  /\ ring' = [ring EXCEPT !.cq_head = Advance(@)]
  /\ program' = [program EXCEPT !.pc = "idle"]
  /\ UNCHANGED <<files, ran, answered>>

\* io_uring_enter.  The retries it makes for min_complete find the queue empty.
Enter(task) ==
  /\ ring.locked = NoTaskWaits /\ (task = Owner => program.pc = "idle")
  /\ ring.sq_head # ring.sq_tail
  /\ SetUring(submit_sqes(task, Now, BatchOrder(ring), ring.sq_tail))
  /\ UNCHANGED <<program, answered>>

\* Keys have come for the read that waits: it returns as many as it asked for
\* or fewer, and the call goes on with the requests behind it.
KeysCome ==
  /\ ring.locked # NoTaskWaits
  /\ LET first == Head(ring.locked.rest)
         request == ring.sq[Slot(first)].request
         wanted == IF request.op = "read" THEN request.len
                   ELSE TotalLen(request.iovec)
     IN \E keys \in 1 .. wanted :
          SetUring(submit_sqes(ring.locked.task, Answer(Now, first, keys),
                               Tail(ring.locked.rest), ring.locked.tail))
  /\ UNCHANGED <<program, answered>>

\* io_uring_register: opcodes 0 to 3.
Register ==
  /\ ring.locked = NoTaskWaits /\ program.pc = "idle"
  /\ \/ \E id \in Buffers : ring' = [ring EXCEPT !.bufs = @ \cup {id}]
     \/ \E id \in Buffers : ring' = [ring EXCEPT !.bufs = @ \ {id}]
     \/ \E table \in FixedTables : ring' = [ring EXCEPT !.fixed_files = table]
     \/ ring' = [ring EXCEPT !.fixed_files = <<>>]
  /\ UNCHANGED <<files, program, ran, answered>>

\* A call on a ring, by another task, while one waits for the keyboard with the
\* table of rings locked: it spins in its system call, where no interrupt comes,
\* for ever.
CallSpins ==
  /\ ring.locked # NoTaskWaits
  /\ \E task \in FileTasks : task # ring.locked.task
  /\ stop' = "spins"
  /\ UNCHANGED <<files, asked, pages, ring, program, ran, answered>>

\* Other tasks take the last free page, or give one back.
PagesChange ==
  /\ pages' = ~pages
  /\ UNCHANGED <<files, asked, stop, ring, program, ran, answered>>

RingStep ==
  /\ \/ PushWrite \/ PushTail \/ PopRead \/ PopHead \/ Register \/ KeysCome
     \/ \E task \in FileTasks : Enter(task)
  /\ UNCHANGED setVars

UringNext == stop = "no" /\ (RingStep \/ PushOver \/ CallSpins \/ PagesChange)

UringSpec == FilesInit /\ UringInit /\ [][UringNext]_uringVars

-----------------------------------------------------------------------------
(* Properties *)

Completions(r) == [k \in 1 .. Distance(r.cq_head, r.cq_tail) |->
                     r.cq[Slot((r.cq_head + k - 1) % IdxMod)].data]

\* What the program has popped or can still pop: while it is between the two
\* steps of a pop, the entry at the head is already in answered.
Delivered ==
  LET waiting == Completions(ring)
  IN  answered \o (IF program.pc = "popping" THEN Tail(waiting) ELSE waiting)

RanAt(data) == CHOOSE k \in DOMAIN ran : ran[k] = data

\* The slots go on over the wrap as before it: entries is a power of two.  Of
\* other sizes, which setup accepts as well, nothing is claimed.
Regular == IdxMod % Entries = 0

\* In a regular ring no request runs twice, however pushes, pops and enter calls
\* of several tasks interleave and however often the indices wrap.
RunOnce == Regular => \A j, k \in DOMAIN ran : ran[j] = ran[k] => j = k

\* In a regular ring the completions the program sees are those of requests that
\* ran, each once, in the order they ran: a full ring drops new completions and
\* never overwrites one the program has not popped.  This holds up to the point
\* where a push goes beyond its page (PushOver).
AnswersInOrder ==
  Regular =>
    /\ \A k \in DOMAIN Delivered : Delivered[k] \in Range(ran)
    /\ \A j, k \in DOMAIN Delivered :
         j < k => RanAt(Delivered[j]) < RanAt(Delivered[k])

Unchained(r) == {i \in Range(Window(r)) : ~r.sq[Slot(i)].request.chain}

PrioAt(r, i) == r.sq[Slot(i)].request.prio

\* When an enter call on a regular ring, that need not wait, takes a batch in
\* which no two unchained requests have the same priority, none has a priority
\* above 4, and the completion ring has room for all, every unchained request
\* is answered.  (Of several unchained requests with one priority only the
\* first runs; the others are consumed without a trace.)
AnsweredIfDistinct ==
  [][ /\ Regular /\ ring'.sq_head # ring.sq_head /\ ring.locked = NoTaskWaits
      /\ \A i \in Unchained(ring) :
           /\ PrioAt(ring, i) =< 4
           /\ \A j \in Unchained(ring) : PrioAt(ring, i) = PrioAt(ring, j) => i = j
      /\ Cardinality(Unchained(ring)) + Distance(ring.cq_head, ring.cq_tail)
           =< Entries
      => \A i \in Unchained(ring) :
           ring.sq[Slot(i)].data \in Range(Completions(ring')) ]_uringVars
=============================================================================
