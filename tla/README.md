# A formal model of BeastOS

BeastOS is a small x86-64 kernel in Rust with a few user programs. This
directory holds TLA+ models of the parts of it whose state is hard to keep
right, the TLC configurations that check them on small instances, and TLAPS
proofs of what matters most. `PROJECT.json` lists, machine-readably, the parts
of the system, the runs, the source lines behind every definition, the hazards
and the theorems.

## The system

One CPU runs kernel threads, user programs inside or outside system calls, and
interrupt handlers. (`smp::init` is a stub: no other processor is started.)
All gates are interrupt gates and `SYSCALL` masks the interrupt flag, so the
kernel is preemptible in kernel threads only; a system call is left only where
it asks for it (`int 49`). Beside the CPU a SATA disk works on its own.

| Part | State | Operations | Meets |
|---|---|---|---|
| SPSC ring, `libs/beast_ring` | head, tail, slots | try_push, try_pop, len | channels |
| Run queue, `scheduler/mlfq.rs` | buf, head, tail, len | push_back, push_front, pop_front, remove | scheduler |
| Scheduler, `scheduler/` | tasks, queues, current, countdown | spawn, kill, tick, reschedule, block, wake, join, exec | all below |
| Spinlock, `sync.rs` | inner mutex, interrupt flag | lock, drop | every handler |
| Channel, `ipc/channel.rs` | ring, two waiting flags | send, recv | scheduler, ring |
| System call entry, `arch/syscall_entry.rs` | scratch cells, CR3, kernel stack | enter, return, switch | scheduler |
| Keyboard, `syscall/mod.rs` | buffer, waiting-task cell | key interrupt, sys_read | scheduler |
| Frames, `memory/pmm.rs` | bitmap, free counter | init, alloc, free, alloc_contiguous | all of memory, disk driver |
| Heap, `memory/heap.rs` | free list | allocate, deallocate | kernel data |
| Address spaces, `memory/vmm.rs`, `syscall/mod.rs` | page tables, breaks, rings | map, split, unmap, fault, brk, exec, ring set-up | frames |
| Disk driver, `drivers/ahci.rs` | port, command slot, command pages | init, read_sector, write_sector | frames, the disk |
| Files, `fs/{vfs,ramfs,tar}.rs`, `syscall/mod.rs` | descriptors, files, directories | open, read, write, seek, create, mkdir, remove, chdir | system calls |
| io_uring, `io_uring/mod.rs` | submission and completion rings | push, enter, pop, register | files, keyboard |
| FAT32, `fs/fat32.rs` | handle, sectors | open, read, seek, directory scan | disk |
| Object store, `fs/{file_ops,path_cache,token,merkle,ring_transfer}.rs`, `storage/` | tokens, paths, hashes, objects, transfers | save, move, copy, delete, transfer | rings |
| Editor, shell, `userland/` | lines, selection, history | keys, mouse | system calls |

What makes them hard: a wakeup that comes before its sleeper sleeps; globals
shared by system calls that block; queue entries that outlive the state that
made them valid; counters that wrap; the order of "interrupts on" and "lock
released"; loops that poll with interrupts masked; pages with two owners; a command given up while the disk goes on
with it; bookkeeping kept in two places; rings and tables at their limit. The
`hazards` of `PROJECT.json` list these line by line.

Three of these parts have no caller in this build: nothing makes a channel,
mounts a FAT32 volume or reaches the object store from a system call. They are
modelled as the modules they are, with the callers their interfaces allow.

## Modules

| Module | Models |
|---|---|
| `SpscRing` | the ring, one action per access to shared memory, counters modulo `Width` |
| `BoundedFifo` | what the ring promises: an atomic bounded queue |
| `RunQueue`, `TaskQueue`, `RunQueueSpec` | the run-queue operations on sequences, the circular buffer with its cursors, what the buffer promises |
| `Spinlock` | lock and drop, interrupts between any two of their steps, switches |
| `Scheduler` | `mlfq.rs` and `scheduler/mod.rs` on `RunQueue` |
| `Channel`, `SyscallEntry`, `Keyboard` | each extends `Scheduler` and adds its own state and steps |
| `Frames`, `FrameAllocator` | the operations on the bitmap; the allocator and its callers |
| `KernelHeap` | the first-fit free list |
| `AddressSpace` | page tables of a small radix on `Frames`, and the system calls that change them |
| `Ahci` | the disk driver and the disk, on `FrameAllocator` |
| `Paths`, `Files` | path resolution; descriptors, handles and the RAM file system behind prefix-matched mounts |
| `IoUring` | the rings in shared memory, on `Files` |
| `Fat32`, `FatDirectory` | cluster chains and reads; directory scans |
| `ObjectStore` | path cache, tokens, reference-counted objects, path hashes, transfers |
| `Editor`, `FlatText` | the editor's line array, and the flat text it implements |
| `ShellLine` | the shell's line editor and history ring |
| `Maps` | insertion into and removal from a map, for `Files` and `ObjectStore` |
| `ModArith`, `*Proofs` | lemmas on wrapping counters and sequences; proofs |
| `MC*` | what TLC is started on |

`MCPrimitives`, `MCMemory`, `MCStorage` and `MCSyscallEntry` explore several
components side by side: the variable `which` is chosen in the initial state and
says whose steps a behaviour takes, the others stay as they began. Nothing is
claimed of their interaction there. `MCWaiting` has two workloads on one
scheduler, a channel or a keyboard reader. Where components interact in the code, one
module extends the other (`Channel` and `Keyboard` the scheduler, `AddressSpace`
and `Ahci` the frame allocator, `IoUring` the files).

How state and actions correspond to the code:

- In `Scheduler`, `Frames`, `Files` and `AddressSpace` an operator whose first
  argument is the structure behind a lock (`s`, `fs`, `m`) is the Rust method of
  that name: it returns the structure the method leaves. A critical section runs
  with interrupts off and so is one step, as is an interrupt handler and a
  system call that does not block; that this is sound is what `Spinlock` is about.
- `pc[slot]` says where a task is between two critical sections of one call:
  `block_current` and `exit_current` release the lock before they raise the
  reschedule interrupt, and a tick may fall in between when the caller is a
  kernel thread.
- `Channel` keeps the order of the source inside send and recv: try, raise the
  flag, try again, block, and on the other side transfer, swap the flag, wake.
  Its ring is the atomic queue that `SpscRing` is shown to implement.
- `AddressSpace` has the four table levels, with `Radix` entries each; one entry
  of the top table is the user half, one the direct map, which the boot loader
  makes of huge pages and a mapping splits. A physical page is a number; tables
  live in pages of the allocator, so a page used twice shows. `halted` stands for the calls that
  never return: `sys_brk` inside a page locks `SCHEDULER` a second time, and
  `sys_fb_info` writes to a user address through the kernel's table. Breaks,
  buffers and destinations that a caller names may be anywhere in the user half,
  the heap and the image of the caller included, and a physical page may be one
  that is in use; addresses in the direct map, which the source does not refuse
  either, are outside the model.
- `Ahci` interleaves the driver with the disk between any two of its accesses to
  the port. `DiskFetch`, `DiskTransfer` and `DiskError` are external: what the
  driver may rely on from an AHCI port. Other owners of pages act only between
  two commands, since the driver polls with interrupts off. The allocator is set
  up when the driver starts. In the code it is not: `kmain` calls `drivers::init`
  before `memory::init`, so `init_port` meets an empty bitmap and the disk is not
  there; the model is of the driver on a kernel that calls them the other way.
- `IoUring` takes pushes and pops of the user program in two steps each, so that
  an enter call of another task falls between writing an entry and publishing
  it. A batch that reads descriptor 0 blocks with the ring's lock held and goes
  on when keys come (`KeysCome`). Of setup the module has the size it settles on
  (`Entries`). Two steps end a behaviour: a call of another task while the lock is
  held spins for ever (`CallSpins`), and a push to a slot beyond the page of the
  submission queue overwrites the page behind it (`PushOver`). `PagesChange` is
  the rest of the kernel using up or freeing memory. `ran` and `answered` are
  history.
- `ObjectStore`'s hash maps two contents that differ after 32 bytes to one
  hash, as `storage/hash.rs` does.
- `Editor` and `ShellLine` have one action per key. What Tab completes a line to
  is any ending (`Endings`).

Left out of these modules: fields nobody reads, log output, the contents of
messages and keys, name encodings, and the helpers inside a modelled part that
nothing calls (`requeue_current`, `promote`, the copy-on-write stubs).

## Runs

| Run | Shows |
|---|---|
| `primitives` | the ring refines a FIFO, its slot accesses do not race and `len` is in range; the run queue refines a bounded sequence; the spinlock restores the interrupt flag, and whoever waits for it waits for a lock of its own or has interrupted the drop of a guard |
| `scheduler` | user tasks and kernel threads that yield, block (and so boost each other), exit, join and exec, wakeups from interrupts, spawns out of memory: one task runs, every ready task has one queue entry at its own level, no other task has one, dead tasks stay dead, blocked tasks are made ready before they run, a switch passes over nobody of a higher level |
| `waiting` | inside system calls send and recv lose no wakeup and complete; in preemptible threads a raised flag is always seen; a consumer woken in a system call is at the top level; with one reader, a read that keys are there for returns; no ready task starves, unless nothing runs any more but tasks polling in `wait_task` |
| `memory` | pages are free or held once and the counter agrees; heap blocks do not overlap; every page the kernel hands out has one use across mapping, splitting, failure, exec and zero-copy reads; the direct map translates as at boot; a heap keeps its pages below the break, but for those a zero-copy read replaces; the disk uses only the driver's pages and a successful read or write is of the sector asked for, as long as no command has timed out |
| `storage` | resolved paths are the kept components; cursors stay within files that other handles change or remove; in a ring whose size divides the range of the indices a request runs once and completions come in order, all of them when priorities differ; references, bytes, paths and hashes of the object store agree; FAT reads deliver the file's bytes up to an unreadable sector; directory entries have their own names |
| `syscall_entry` | a system call returns to its own user stack; a lone program always runs in its own address space; the editor implements a flat text and its selection is in it; the shell recalls the line filed |

Six runs state what a comment says and the code does not do; TLC finds the
counterexample (`findings` quotes the lines):

| Run | Counterexample |
|---|---|
| `channel_preempted` | a tick between the second check and `block_current`: the wakeup is spent on a task not asleep yet |
| `cr3_of_another_task` | two programs: the return path loads the CR3 another program left in the global cell |
| `heap_not_backed` | a break in the middle of a page: the page is below the break and has no frame |
| `accepted_file_loses_content` | a transfer is accepted, the sender deletes the file: the recipient's token leads to no object |
| `handler_spins` | an interrupt after `drop` has enabled interrupts and before the mutex is released: the handler spins on the lock of the code it interrupted |
| `starved_by_join` | a user task alone on the highest ready level waits for a task in `wait_task`: it yields to itself with interrupts masked, so no tick and no boost come |

`waiting` and `channel_preempted` belong together: callers are kernel threads or
system calls, chosen in the initial state, and the lost wakeup needs a tick, so
it is out of reach of system calls. So do `primitives` and `handler_spins`:
`WaitsOnlyInDrop` says that the window in `drop`, and a lock taken twice by one
context, are the only ways to wait for a spinlock. And `waiting` and
`starved_by_join`: `NoStarvation` says that, exec apart, polling in `wait_task` is
the only thing that keeps the boost from doing what its comment says. The counterexample
of `starved_by_join` ends in stuttering, since a turn of the polling loop leaves
the state as it is.

What the properties leave out on purpose, because the code does not give it:

- `NoStarvation` and `ReadReturns` do not speak of behaviours in which, from some
  moment on, only tasks polling in `wait_task` run. No property says that
  `wait_task` returns: it waits for an empty slot, and a dead task keeps its slot.
  (`adaptive_wait` of io_uring and the devfs poll the same way; neither is
  called.)
- `NoStarvation` is checked without exec. `replace_current_task` starts an image
  with an unused quantum and without a reschedule, so a task that execs before
  its quantum ends is never switched out.
- `ReadReturns` has one reader. A second one overwrites the waiting-task cell.
- `OneUsePerPage` does not count what the kernel's own table maps in the user half:
  `sys_map_mmio` and `sys_map_phys` map any page a caller names there, in use or
  not. `BelowBreakKept` leaves out the page a zero-copy read replaces.
- `RunOnce` and `AnswersInOrder` need a size that divides the range of the
  indices, as powers of two do (`Regular`). Setup accepts 1 to 128: with 3
  entries the slots of the last index and of index 0 are the same. They also
  end where a push leaves its page, which rings of 102 entries and more reach.
- `DmaInOwnPages` and `AnswerIsTheSector` end at the first timeout. After one,
  the driver has given pages back that the disk still uses, and a late completion
  is taken for that of the next command: without the restriction TLC finds a
  write that is reported as done and never reached the disk.
- `AnsweredIfDistinct` needs distinct priorities: of several unchained requests of
  one priority in a batch only the first runs, the others are consumed. A
  priority above 4 is never run. It also speaks only of calls that need not wait
  for keys.
- `FatReadsFile` stops at the first unreadable sector: the read goes on with the
  next cluster and the buffer then misses a part in the middle. A sector is
  unreadable throughout a behaviour or not at all.
- `StoreExact` does not count the tokens that `accept_transfer` makes, which take
  no reference; and where two contents have one hash, it says of a path that the
  hash is stored.
- `PathHashCurrent` leaves copies out: `copy_file` updates the parent's hash and
  not the one of the new path.
- `SelectionInText` leaves out a selection begun before a cut or a paste, which
  neither key resets.

### Bounds, and why they are enough

- `N = 2`, `Width = 8`: the ring fills, empties and wraps its slots; the counters
  wrap too, at a multiple of the capacity as 2^64 is. The proofs remove the bound.
- `MaxTasks` 3 or 4 slots, 3 levels (2 in `SyscallEntry`), boost every 2 or 3
  ticks: the idle task and two or three tasks are enough for a waker, a sleeper
  and a third that is passed over; three levels give a top, a middle and a
  bottom. In the code a boost comes every 500 ticks and the longest quantum is
  32; with an interval near the quanta of the model boosts fall at every place
  inside and between quanta. A longer interval delays the boost, and only that.
- `MaxIds` bounds the spawns; all slots can be in use.
- Two threads, three locks, three guards deep; channel capacity 2; keyboard buffer
  of 3 with reads of 1 and 2; two program images per task.
- Frames: three memory-map entries with holes, a reserved page inside and a page
  beyond the bitmap; five pages are left, exactly what the disk driver needs for
  a command, so that one page of another owner makes it run out of memory. Two
  sectors and two contents tell one command from another. A behaviour is
  followed up to the first call after a timeout (`DiskBound`).
- Heap of 12 units with three layouts: blocks split, are used whole, and are
  moved up for alignment. The proofs remove these bounds.
- `Radix = 3` and 24 pages of memory for two programs: every table level is
  created and split, and memory runs out. `MaxCalls = 5` calls of either program
  in any order; `BreakChoices` has breaks at a page boundary, inside a page and
  below the start of the heap; zero-copy reads go to the image or the heap, and
  the page that is mapped by number is one a program uses.
- Files: a mount matched by prefix only, a file from the boot archive, two tasks,
  four calls. io_uring: setup with 0, 2 and 9 entries gives rings of one, two and
  three (the most), of which two fit on the page; indices modulo 4, four requests,
  one of each kind of operation, flag and priority branch.
- Object store: three paths, one below another, three contents of which two
  collide, two users, four operations; one more in the transfer run.
- FAT32: sectors of 4 bytes, clusters of two, chains in order, out of order and
  cut short, any one sector unreadable; directories of up to four slots of nine
  kinds.
- Editor: four lines of three characters, files that are too long and too wide,
  five keys. Shell: a ring of two lines, three filed. The proof removes these.
- Symmetry is not used: slots, pages and sectors are ordered by the code.

### Fairness

Only the timer and kernel code are assumed to go on. `FairTick`: PIT ticks are
latched while interrupts are masked, so if interrupts are on again and again
ticks are taken again and again. A task in the middle of a kernel call goes on
with it when it is current (weak fairness of `Run`, `CheckReschedule`, `WaitPoll`
and the steps of sys_read). The steps of send and recv have strong fairness:
a task that gets the CPU again and again has 10 ms each time, enough for a step
before the next tick. Programs owe nothing: they may stop making calls, except
in `CallsComplete`, where the consumer keeps calling recv; nothing makes the
producer send. The conditions are in `MCWaiting`, and in `FairSpec` for
`starved_by_join`. The memory and storage components have no liveness property:
their calls are single steps, or wait for a disk or a user that owes nothing.

## Proofs

All proofs are checked by TLAPS and hold for every value of the constants that
meets the named assumptions.

### `PrimitivesProofs`

The ring, from `RingAssumption` (the capacity is positive and divides the number
of counter values at least twice; the source asserts a power of two):

- `RingTypeCorrect`, `RingNoSlotRace`, `RingBounded`, `RingRefinesFifo`.
- Neither the absence of a race nor the bound is inductive. `RingInv` adds what
  each side knows while it is inside a call: a producer past its check still has
  a free slot, because the consumer can only free more; a consumer past its
  check still has a value; the head that `len` has loaded lies between the tail
  and the real head. With `ModArith` (wrapping differences, the slot of a
  counter) every action preserves it. For the refinement each step is shown to
  leave `RingContents` alone, except that publishing the head appends one value
  and publishing the tail removes the oldest.

The spinlock, from `SpinlockAssumption`, for any number of threads and locks and
any nesting:

- `SpinlockWaitsOnlyInDrop` and `SpinlockRestores`, with interrupts between any
  two steps.
- `LockInv` says why: contexts the CPU is not in hold nothing, but for an
  interrupted thread in the window of its last drop (`OthersOut`, `Interrupted`);
  a held mutex has a guard (`HeldByGuard`); only the oldest guard turns
  interrupts on again (`OldestRestores`); and the interrupt flag is a function of
  where the running context is (`FlagHere`).

The run queue, from `MaxTasksAssumption` and `NoTaskAssumption`:

- `TaskQueueImplementsRunQueue`: the circular buffer implements `RunQueueSpec`.
  `BufSound` says that tail is len cells after head modulo `MAX_TASKS`; each
  operation is then shown to do to the contents what its counterpart in `RunQueue`
  does. `remove` pops every entry and pushes back the ones to keep: the loop is a
  recursive function, and its state after n pops is related to the abstract one
  by induction on n (`Copied`).

### `StorageProofs`

The frames, from `FramesAssumption` and `AllocatorAssumption` (memory map entries
are disjoint sets of page numbers):

- `FramesNeverShared`: `FramesPartition`. `FramesInv` adds that the bitmap holds
  pages of the bitmap's range, so that it is finite and its cardinality counts;
  a run found by `alloc_contiguous` has as many pages as were asked for.

The disk driver, with `AhciAssumption` (a sector holds something), for every
memory map, set of sectors and contents:

- `DiskUsesDriverPages`: `DmaInOwnPages`, and `SectorsAreAnswered`:
  `AnswerIsTheSector`. Neither is inductive: that the buffer is the driver's says
  nothing of what the disk will fetch. `AhciInv` adds that the pages of a command
  are taken, that its table and its buffer are different pages (`Owned`), and, until
  a command times out, that the port is in step with the driver (`InStep`): PxCI is
  set only while the driver waits, slot 0 points to its table, the command the disk
  has fetched is the driver's, and a command that ended without an error has moved
  its sector.

The heap, from `HeapAssumption`, for every heap size, header size and set of
layouts:

- `HeapNeverOverlaps`: `HeapDisjoint`, which is inductive once the blocks are
  known to be numbers (`HeapInv`). The work is in the arithmetic of a split: the
  aligned address, the size taken and the leftover stay inside the block they
  come from, and the rounded size freed is the size taken or less.

The object store, from `StoreAssumption` (contents have lengths and hashes, the
bounds are numbers), for any paths, contents, users, space limit and hash
function, collisions included:

- `StoreExactHolds`, `PathsAgreeHolds`, `PathHashCurrentHolds`.
- `StoreInv` is the three of them and that no path leads to a token that a
  transfer made: such a token has no reference of its own, and deleting or copying
  it by path would break the counts. `PathsAgree` is what makes
  `PathHashCurrent` inductive: updating the hash of a parent writes at the path its
  token records, which is the path it was found by. The total of bytes is a sum over
  the objects, which come and go in any order; a section of its own shows that a
  sum over a finite set does not depend on the order.

### `SchedulerProofs`

From `MaxTasksAssumption`, `NoTaskAssumption` and `SchedulerAssumption`, for any
number of slots, levels and spawned tasks, any quanta and any boost interval:

- `SchedulerTypeCorrect`, `OneRunningHolds`, `ReadyIsFiledHolds`,
  `OnlyReadyQueuedHolds`, and the action properties `NoRevivalHolds` and
  `SwitchToHighestHolds`.
- The first part has the operations on a queue, seen as a set of slots without
  repetition, and then the methods of `Scheduler` one by one. Each keeps `Sound`:
  every queue holds exactly the ready tasks of its level, each once (`Filed`), a
  running task is the current one (`Alone`), and `test_kernel_task` in slot 0 is
  ready or running (`IdleTask`). The last is what the properties themselves do not
  say and all need: `reschedule` always finds a task, so its fallback, which makes
  the old task Running again, is never taken for one that has blocked or died.
- The second part takes the boot and the actions. `IInv` adds where the current
  task is (`Switched`, `OneRunning`): a tick may find it blocked or dead, between
  the release of the lock and `int 49`, and then must not file it.

### `SyscallProofs`

The channel, with `ChannelAssumption` (a positive capacity, and room for the idle task and the
two ends):

- `FlagWillBeSeenHolds`, `NoLostWakeupInSyscallHolds`, `ConsumerWokenOnTopHolds`.
- `FlagWillBeSeen` speaks of a blocked end; it is inductive from the second check
  on (`Seen`): an end that is about to block with its flag up has either found the
  ring unchanged, or the other end has yet to swap the flag. `Unbroken` is for
  system calls: an end that is past its first try is the current task, so the two
  ends are never both in the middle of a call. All of `IInv` is carried along, as
  each step of send and recv that blocks or wakes is a step of the scheduler.

The entry path, for any number of programs and images:

- `ReturnsToOwnStackHolds`, `OwnAddressSpaceAloneHolds`, and
  `EntryImplementsScheduler`: the entry path around the scheduler takes only
  steps of the scheduler, so the invariants above hold there too.
- `EntryInv` adds that a task in a system call has its user stack pointer on its own
  kernel stack (`Parked`), that the kernel stack the next entry uses is that of the
  current task, and, while there is one user program, that the global cell holds
  its page table until it returns (`Cr3Kept`). Slots are filled from the lowest
  (`Packed`), so two spawns mean one user program.

### `ServiceProofs`

The file syscalls, from `FilesAssumption` (counts, offsets and archive sizes are
natural numbers):

- `CursorWithinFileHolds`. `Sound` adds that directory entries lead to files that
  are there, so that a handle opened through one is in range, and that dropping the
  last reference frees only files nobody has (`CollectSound`). It is a theorem about
  `FilesSpec`; the calls that io_uring makes on behalf of a task are model-checked.

The shell, from `ShellAssumption`, for every size of the history ring:

- `HistoryRecallsRightLine`: `RecallsFiledLine`. `HistoryInv` says that the ring
  holds the last lines filed, each at its own index modulo the size, and that the
  index of the recalled line is in range; filing a line overwrites exactly the
  slot of the line that falls out.

Path resolution, for paths of any length:

- `NormalizeKeeps`: `ComponentsAreKept`. The property speaks of a whole path and
  the code takes it component by component; `PathInv` says of every prefix what the
  stack holds: the names that no later `..` of the prefix cancels.

Directory scans, for directories of any length:

- `DirectoryEntriesOwnNames`: `EntriesNamedByOwnFragments`. `ScanInv` says of the
  slots scanned so far that the fragments collected are those right before the next
  slot, and that the entries listed are those of the slots seen.

### `EditorProofs`

From `EditorAssumption`, for every size of the line array, every set of
characters, files and clipboards:

- `SelectionStaysInText` and `EditorRefinesFlatText`. `EditorInv` keeps cursor and
  mark in the array; `HasView` ties a document to the text before its cursor and
  the text after it, and every handler is shown to do to these two what
  `FlatText` says, or to leave them alone when the array is full.

### `UringProofs`

From `RingAssumption`, for every size of the ring, range of the indices and set of
requests, any tasks and any number of pushes:

- `RequestsRunOnce` and `CompletionsInOrder`. `UringInv` counts the indices without
  wrapping, so that a request is known by its number; it says which requests a call
  that waits for the keyboard has still to run (`Lock`), and that the completions
  that wait are those of requests that ran, in that order (`Sound`). Where the
  size divides the range, different requests that wait have different slots.

### Only model-checked

All liveness (`NoStarvation`, `CallsComplete`, `ReadReturns`) is out of the
prover's reach. What a recursion over a list computes for every input cannot be
stated step by step in two places: the clusters a FAT chain leads to
(`FatReadsFile`), and which requests a batch answers (`AnsweredIfDistinct`). The page
tables (`OneUsePerPage`, `DirectMapIntact`, `BelowBreakKept`) are walked and changed
by recursions over four levels and are model-checked only.

## Not modelled

- IRQ event rings (`ipc/spsc_with_boost.rs`, `forward_interrupt_to_ring`): the
  mappings they make are in `AddressSpace`. The only user, `usb_driver`, takes the
  ring's higher-half address for an error number, since it is negative as an
  `i64`, and returns before it waits for an event.
- devfs: `fs::init`, which would mount it, has no caller.
- Console, framebuffer, mouse, PIC and PIT drivers, scancode decoding, boot and
  descriptor-table set-up: port and memory-mapped I/O and straight-line code.
- Executable parsers: byte formats without state of their own.
- `pressure.rs`: figures that are reported and not acted on.
  `libs/beast_capability`: linked and not called.
- libc, the compositor, the shell's commands and the system call wrappers:
  clients whose calls are the inputs of the models. The driver crates are stubs.
- `fs/snapshot.rs` and `fs/gc.rs` are not compiled; `storage/block_store.rs` is
  commented out.
