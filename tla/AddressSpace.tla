---------------------------- MODULE AddressSpace ----------------------------
(***************************************************************************)
(* kernel/src/memory/vmm.rs and arch/paging.rs: four levels of page tables *)
(* with huge pages that a mapping splits, kept in the physical pages they  *)
(* describe; and the handlers that map, unmap and fault: sys_brk,          *)
(* sys_exec, the IPC and io_uring rings, driver mappings, page faults.     *)
(*                                                                         *)
(* A table has Radix entries instead of 512.  An address is a page number  *)
(* (the bytes of a page matter to brk only).  Entry 0 of a top table is    *)
(* the user half, entry 1 the kernel's direct map of memory (HHDM); the    *)
(* recursive entry, which the source sets and never walks, is left out.    *)
(* Where a caller names an address (a break, a buffer, a destination) it   *)
(* is one of the user half.  The source does not check that: an address in *)
(* the direct map, which would replace the kernel's own mapping, is        *)
(* outside the model.                                                      *)
(***************************************************************************)
EXTENDS Frames, Sequences

CONSTANTS NTasks, Radix, Ram, HeapFrame, Dev,  \* Dev: the framebuffer's page
          KernelRoot, KernelPdpt,             \* tables the boot loader built
          Guard, Image, Stack, HeapStart,     \* layout of a user program,
          UringAt, IpcAt, MmioAt, FbAt,       \* in pages
          PageBytes, MaxHeap,                 \* brk counts bytes
          MaxRings, MaxBreak, BreakChoices,   \* bounds on what tasks ask for:
          Buffers, PhysChoices, Dests, Promised  \* pages they name

ASSUME SpaceAssumption ==
  /\ Radix \in Nat \ {0, 1} /\ PageBytes \in Nat \ {0} /\ MaxHeap \in Nat
  /\ Ram \subseteq Pages /\ IsFiniteSet(Ram)
  /\ 0 \notin BreakChoices    \* sys_brk(0) only asks for the break

Procs == 1..NTasks

VARIABLES
  mem,       \* physical memory: the allocator and the pages that hold tables
  space,     \* task -> page_table, brk, alive and the rings it has set up
  rings,     \* IPC_RINGS: phys, producer, consumer
  urings,    \* IO_URINGS: the page table each was set up for
  halted     \* the kernel has panicked or stopped for ever

spaceVars == <<mem, space, rings, urings, halted>>

-----------------------------------------------------------------------------
(* Tables.  An entry is an address and a set of flags: P present,          *)
(* W writable, U user, H huge, D the on-demand bit 9.                      *)

Absent == [addr |-> 0, flags |-> {}]
Indices == 0..(Radix - 1)
EmptyTable == [i \in Indices |-> Absent]

\* pml4_index, pdpt_index, pd_index, pt_index: levels 1 to 4.
Index(virt, level) == (virt \div Radix^(4 - level)) % Radix

\* Pages that an entry of a level stands for: 1 GiB at level 2, 2 MiB at 3.
SpanOf(level) == Radix^(4 - level)

Present(entry) == "P" \in entry.flags
Huge(entry) == "H" \in entry.flags

set_address(m, table, index, addr, flags) ==
  [m EXCEPT !.tables[table][index] = [addr |-> addr, flags |-> flags]]

\* A page from the allocator, with zeroes or with the entries given.
NewTable(m, content) ==
  LET got == alloc_page(m.pmm)
  IN IF got.page = NoPage THEN [ok |-> FALSE, m |-> m, table |-> 0]
     ELSE [ok |-> TRUE, table |-> got.page,
           m |-> [pmm |-> got.pmm,
                  tables |-> [p \in DOMAIN m.tables \cup {got.page} |->
                                IF p = got.page THEN content ELSE m.tables[p]]]]

Intermediate(flags) == {"P", "W"} \cup (flags \cap {"U"})

\* Links a new table, if there was a page for it, into the entry it is for.
Linked(new, table, index, flags) ==
  IF new.ok
  THEN [new EXCEPT !.m = set_address(@, table, index, new.table, Intermediate(flags))]
  ELSE new

\* Mutant: the pieces are spaced as if the entry were one level lower.
split_page_close(m, table, index, flags, level) ==
  LET entry == m.tables[table][index]
      child == entry.flags \cup (flags \cap {"U", "W"})
      piece(i) == [addr |-> entry.addr + i,
                   flags |-> IF level = 2 THEN child ELSE child \ {"H"}]
  IN Linked(NewTable(m, [i \in Indices |-> piece(i)]), table, index, flags)

\* split_1gib_page (level 2) and split_2mib_page (level 3).
split_page(m, table, index, flags, level) ==
  LET entry == m.tables[table][index]
      child == entry.flags \cup (flags \cap {"U", "W"})
      piece(i) == [addr |-> entry.addr + i * SpanOf(level + 1),
                   flags |-> IF level = 2 THEN child ELSE child \ {"H"}]
  IN Linked(NewTable(m, [i \in Indices |-> piece(i)]), table, index, flags)

get_or_create_table(m, table, index, flags, level) ==
  LET entry == m.tables[table][index]
  IN IF ~Present(entry) THEN Linked(NewTable(m, EmptyTable), table, index, flags)
     ELSE IF Huge(entry)
       THEN IF level = 1 THEN [ok |-> FALSE, m |-> m, table |-> 0]
            ELSE split_page(m, table, index, flags, level)
     ELSE [ok |-> TRUE, table |-> entry.addr,
           m |-> set_address(m, table, index, entry.addr,
                             entry.flags \cup (flags \cap {"U", "W"}))]

\* The walk of the mapping functions: a step that fails leaves the tables
\* that the steps before it have made.
WalkTo(m, root, virt, flags) ==
  LET step(from, level) ==
        IF from.ok THEN get_or_create_table(from.m, from.table, Index(virt, level), flags, level)
        ELSE from
  IN step(step(step([ok |-> TRUE, m |-> m, table |-> root], 1), 2), 3)

\* Sets the entry the walk leads to.
SetLeaf(to, index, phys, flags) ==
  IF to.ok THEN [ok |-> TRUE, m |-> set_address(to.m, to.table, index, phys, flags)]
  ELSE [ok |-> FALSE, m |-> to.m]

MapEntry(m, root, virt, phys, flags) ==
  SetLeaf(WalkTo(m, root, virt, flags), Index(virt, 4), phys, flags)

map_page_with_flags(m, root, virt, phys, flags) == MapEntry(m, root, virt, phys, flags)

map_page(m, root, virt, phys, user) ==
  MapEntry(m, root, virt, phys, {"P", "W"} \cup IF user THEN {"U"} ELSE {})

\* handle_fault and unmap_page walk without looking for huge pages; the
\* addresses they are called with lie in the user half, which has none.
PteOf(m, root, virt) ==
  LET pml4_e == m.tables[root][Index(virt, 1)]
      pdpt_e == m.tables[pml4_e.addr][Index(virt, 2)]
      pd_e == m.tables[pdpt_e.addr][Index(virt, 3)]
  IN IF Present(pml4_e) /\ Present(pdpt_e) /\ Present(pd_e)
     THEN [found |-> TRUE, table |-> pd_e.addr, entry |-> m.tables[pd_e.addr][Index(virt, 4)]]
     ELSE [found |-> FALSE, table |-> 0, entry |-> Absent]

handle_fault(m, root, virt) ==
  LET pte == PteOf(m, root, virt)
      got == alloc_page(m.pmm)
  IN IF /\ pte.found /\ ~Present(pte.entry) /\ "D" \in pte.entry.flags
        /\ got.page # NoPage
     THEN [ok |-> TRUE,
           m |-> set_address([m EXCEPT !.pmm = got.pmm], pte.table, Index(virt, 4), got.page,
                             (pte.entry.flags \ {"D"}) \cup {"P"})]
     ELSE [ok |-> FALSE, m |-> m]

\* The address is returned for an on-demand entry too, which holds none (0).
unmap_page(m, root, virt) ==
  LET pte == PteOf(m, root, virt)
  IN IF pte.found /\ (Present(pte.entry) \/ "D" \in pte.entry.flags)
     THEN [ok |-> TRUE, phys |-> pte.entry.addr,
           m |-> set_address(m, pte.table, Index(virt, 4), 0, {})]
     ELSE [ok |-> FALSE, phys |-> NoPage, m |-> m]

translate(m, root, virt) ==
  LET pml4_e == m.tables[root][Index(virt, 1)]
      pdpt_e == m.tables[pml4_e.addr][Index(virt, 2)]
      pd_e == m.tables[pdpt_e.addr][Index(virt, 3)]
      pt_e == m.tables[pd_e.addr][Index(virt, 4)]
  IN IF ~Present(pml4_e) \/ ~Present(pdpt_e) THEN NoPage
     ELSE IF Huge(pdpt_e) THEN pdpt_e.addr + (virt % SpanOf(2))
     ELSE IF ~Present(pd_e) THEN NoPage
     ELSE IF Huge(pd_e) THEN pd_e.addr + (virt % SpanOf(3))
     ELSE IF Present(pt_e) THEN pt_e.addr ELSE NoPage

\* The kernel half is shared: the new top table points to the same tables.
create_user_page_table(m) ==
  NewTable(m, [i \in Indices |->
                 IF i > 0 /\ Present(m.tables[KernelRoot][i])
                 THEN m.tables[KernelRoot][i] ELSE Absent])

-----------------------------------------------------------------------------
(* Several pages, each allocated and then mapped.  A page whose mapping    *)
(* fails is not given back.                                                *)

UserFlags == {"P", "W", "U"}

\* One page of a user program: ok is FALSE when there is no page for it or
\* for a table on its way.
MapFresh(s, root, virt, flags) ==
  LET got == alloc_page(s.m.pmm)
  IN IF ~s.ok \/ got.page = NoPage THEN [s EXCEPT !.ok = FALSE]
     ELSE MapEntry([s.m EXCEPT !.pmm = got.pmm], root, virt, got.page, flags)

\* The pages first, first + 1, ..., last in this order, up to a failure.
MapFreshRange(m, root, first, last) ==
  LET upTo[v \in (first - 1)..last] ==
        IF v < first THEN [ok |-> TRUE, m |-> m]
        ELSE MapFresh(upTo[v - 1], root, v, UserFlags)
  IN upTo[last]

\* IoUring::new takes both pages before map_to_user maps the first.
MapBehind(s, root, virt, phys) ==
  IF s.ok THEN map_page_with_flags(s.m, root, virt, phys, UserFlags) ELSE s

MapFreshPair(m, root, virt) ==
  LET sq == alloc_page(m.pmm)
      cq == alloc_page(sq.pmm)
      taken == [ok |-> NoPage \notin {sq.page, cq.page}, m |-> [m EXCEPT !.pmm = cq.pmm]]
  IN MapBehind(MapBehind(taken, root, virt, sq.page), root, virt + 1, cq.page)

\* A program in the making: its tables, and the result so far.  After a
\* failure nothing more is done, and nothing is given back.
NewRoot(new) ==
  [result |-> IF new.ok THEN "ok" ELSE "ENOMEM", m |-> new.m, root |-> new.table]

Continued(prog, mapped, failure) ==
  IF prog.result = "ok"
  THEN [prog EXCEPT !.m = mapped.m, !.result = IF mapped.ok THEN "ok" ELSE failure]
  ELSE prog

WithPage(prog, virt, flags, failure) ==
  Continued(prog, MapFresh([ok |-> TRUE, m |-> prog.m], prog.root, virt, flags), failure)

WithKernelStack(prog) ==
  LET kstack == alloc_page(prog.m.pmm)
  IN Continued(prog, [ok |-> kstack.page # NoPage, m |-> [prog.m EXCEPT !.pmm = kstack.pmm]],
               "panic")

\* The address space of a new program: the image, the guard page (a failure
\* there is a warning), the user stack and the kernel stack (which panic).
NewProgram(m) ==
  LET image == WithPage(NewRoot(create_user_page_table(m)), Image, UserFlags, "ENOEXEC")
      guarded == WithPage(image, Guard, {"P", "U"}, "ok")
  IN WithKernelStack(WithPage(guarded, Stack, UserFlags, "panic"))

-----------------------------------------------------------------------------

\* What the boot loader and memory::init leave: a direct map of huge pages,
\* and the pages of the kernel heap taken.
BootMemory ==
  [pmm |-> pmm_init({Ram}, {HeapFrame}),
   tables |-> [p \in {KernelRoot, KernelPdpt} |->
     IF p = KernelRoot
     THEN [EmptyTable EXCEPT ![1] = [addr |-> KernelPdpt, flags |-> {"P", "W"}]]
     ELSE [i \in Indices |-> [addr |-> i * SpanOf(2), flags |-> {"P", "W", "H"}]]]]

\* kmain has started every task with a program of its own, which it lays out
\* as sys_exec does.
SpaceInit ==
  LET started[i \in 0..NTasks] ==
        IF i = 0 THEN [m |-> BootMemory, root |-> 0] ELSE NewProgram(started[i - 1].m)
  IN /\ mem = started[NTasks].m
     /\ space = [t \in Procs |-> [page_table |-> started[t].root,
                                  brk |-> HeapStart * PageBytes, alive |-> TRUE]]
     /\ rings = <<>> /\ urings = <<>> /\ halted = FALSE

Root(t) == space[t].page_table

\* The task is in a system call.  Interrupts are off there: a call is a step.
InCall(t) == ~halted /\ space[t].alive

RoundUp(addr) == (addr + PageBytes - 1) \div PageBytes
RoundDown(addr) == addr \div PageBytes

\* Shrinking moves the break and keeps the pages.  The break may go below
\* where the heap began.
BrkShrink(t, addr) ==
  /\ InCall(t) /\ addr < space[t].brk
  /\ space' = [space EXCEPT ![t].brk = addr]
  /\ UNCHANGED <<mem, rings, urings, halted>>

\* Mutant: the first page of the range is the one that holds the old break.
BrkGrow_round_down(t, addr) ==
  /\ InCall(t)
  /\ addr >= space[t].brk /\ addr <= space[t].brk + MaxHeap
  /\ RoundDown(addr) > RoundUp(space[t].brk)
  /\ LET mapped == MapFreshRange(mem, Root(t), RoundDown(space[t].brk), RoundDown(addr) - 1)
     IN /\ mem' = mapped.m
        /\ space' = [space EXCEPT ![t].brk = IF mapped.ok THEN addr ELSE @]
  /\ UNCHANGED <<rings, urings, halted>>

\* Growing maps the pages from the old break rounded up to the new one
\* rounded down; on failure the break stays and so do the pages mapped.
BrkGrow(t, addr) ==
  /\ InCall(t)
  /\ addr >= space[t].brk /\ addr <= space[t].brk + MaxHeap
  /\ RoundDown(addr) > RoundUp(space[t].brk)
  /\ LET mapped == MapFreshRange(mem, Root(t), RoundUp(space[t].brk), RoundDown(addr) - 1)
     IN /\ mem' = mapped.m
        /\ space' = [space EXCEPT ![t].brk = IF mapped.ok THEN addr ELSE @]
  /\ UNCHANGED <<rings, urings, halted>>

\* No whole page to map: the scheduler lock is taken again while it is held.
BrkGrowWithinPage(t, addr) ==
  /\ InCall(t)
  /\ addr >= space[t].brk /\ addr <= space[t].brk + MaxHeap
  /\ RoundDown(addr) <= RoundUp(space[t].brk)
  /\ halted' = TRUE
  /\ UNCHANGED <<mem, space, rings, urings>>

\* sys_exec: nothing of the old address space is given back, and nothing of
\* a new one that could not be completed.
SysExec(t) ==
  /\ InCall(t)
  /\ LET new == NewProgram(mem)
     IN /\ mem' = new.m
        /\ halted' = (new.result = "panic")
        /\ space' = IF new.result = "ok"
                    THEN [space EXCEPT ![t].page_table = new.root,
                                       ![t].brk = HeapStart * PageBytes]
                    ELSE space
  /\ UNCHANGED <<rings, urings>>

\* sys_ipc_create_ring: a page for the ring, at one fixed address.
IpcCreate(t, partner) ==
  /\ InCall(t) /\ Len(rings) < MaxRings
  /\ LET got == alloc_page(mem.pmm)
     IN IF got.page = NoPage THEN UNCHANGED <<mem, rings>>
        ELSE /\ mem' = map_page_with_flags([mem EXCEPT !.pmm = got.pmm], Root(t), IpcAt,
                                           got.page, UserFlags).m
             /\ rings' = Append(rings, [phys |-> got.page, producer |-> t,
                                      consumer |-> partner])
  /\ UNCHANGED <<space, urings, halted>>

\* sys_ipc_connect: the named partner maps the page at the same address.
IpcConnect(t, id) ==
  /\ InCall(t) /\ id \in DOMAIN rings /\ rings[id].consumer = t
  /\ mem' = map_page_with_flags(mem, Root(t), IpcAt, rings[id].phys, UserFlags).m
  /\ UNCHANGED <<space, rings, urings, halted>>

\* sys_io_uring_setup: two pages, mapped one behind the other.
IoUringSetup(t) ==
  /\ InCall(t) /\ Len(urings) < MaxRings
  /\ LET mapped == MapFreshPair(mem, Root(t), UringAt)
     IN /\ mem' = mapped.m
        /\ urings' = IF mapped.ok THEN Append(urings, Root(t)) ELSE urings
  /\ UNCHANGED <<space, rings, halted>>

\* Mutant: the page is given back after a read of something, too.
ReadZc_always_frees(t, ring, virt, some) ==
  /\ InCall(t) /\ ring \in DOMAIN urings
  /\ LET got == alloc_page(mem.pmm)
         m == [mem EXCEPT !.pmm = got.pmm]
         n == map_page_with_flags(unmap_page(m, urings[ring], virt).m,
                                  urings[ring], virt, got.page, UserFlags).m
     IN mem' = IF got.page = NoPage THEN mem
               ELSE IF some THEN [n EXCEPT !.pmm = free_page(@, got.page)]
               ELSE [m EXCEPT !.pmm = free_page(@, got.page)]
  /\ UNCHANGED <<space, rings, urings, halted>>

\* read_zc, of any ring by any task: the file's data arrives in a page of its
\* own, which takes the place of the page of the registered buffer, whatever
\* that is, in the table the ring was set up for.  A read of nothing gives
\* the page back.
ReadZc(t, ring, virt, some) ==
  /\ InCall(t) /\ ring \in DOMAIN urings
  /\ LET got == alloc_page(mem.pmm)
         m == [mem EXCEPT !.pmm = got.pmm]
     IN mem' = IF got.page = NoPage THEN mem
               ELSE IF some
                 THEN map_page_with_flags(unmap_page(m, urings[ring], virt).m,
                                          urings[ring], virt, got.page, UserFlags).m
               ELSE [m EXCEPT !.pmm = free_page(@, got.page)]
  /\ UNCHANGED <<space, rings, urings, halted>>

\* sys_map_mmio, of a page the caller names, at an address that follows from
\* it.  VMM is the kernel's page table, and a failed mapping is ignored.
SysMapMmio(t, phys) ==
  /\ InCall(t)
  /\ mem' = map_page(mem, KernelRoot, MmioAt + phys, phys, TRUE).m
  /\ UNCHANGED <<space, rings, urings, halted>>

\* sys_map_phys, of a page and to an address that the caller names.  The
\* dispatcher runs it on the kernel's page table too.
SysMapPhys(t, phys, dest) ==
  /\ InCall(t)
  /\ mem' = map_page_with_flags(mem, KernelRoot, dest, phys, UserFlags).m
  /\ UNCHANGED <<space, rings, urings, halted>>

\* sys_fb_info maps the framebuffer on the kernel's page table as well, and
\* then writes its answer to the caller's buffer through it: a fault in the
\* kernel, unless that table happens to map the address.
SysFbInfo(t) ==
  /\ InCall(t)
  /\ LET mapped == map_page_with_flags(mem, KernelRoot, FbAt, Dev, UserFlags)
     IN /\ mem' = mapped.m
        /\ halted' = (mapped.ok /\ translate(mapped.m, KernelRoot, Stack) = NoPage)
  /\ UNCHANGED <<space, rings, urings>>

\* sys_create_irq_ring: the page of the ring, which lies in the kernel heap,
\* is mapped where the direct map has it, for user access.
MapIrqRing(t) ==
  /\ InCall(t)
  /\ mem' = map_page(mem, KernelRoot, Radix^3 + HeapFrame, HeapFrame, TRUE).m
  /\ UNCHANGED <<space, rings, urings, halted>>

\* map_user_page(on_demand = true), which has no caller yet: a promise of a page.
MapOnDemand(t, virt) ==
  /\ InCall(t)
  /\ mem' = MapEntry(mem, Root(t), virt, 0, {"U", "W", "D"}).m
  /\ UNCHANGED <<space, rings, urings, halted>>

\* page_fault_handler_rust, from user mode on a page that is not there.
PageFault(t, virt) ==
  /\ InCall(t) /\ translate(mem, Root(t), virt) = NoPage
  /\ LET fixed == handle_fault(mem, Root(t), virt)
     IN /\ mem' = fixed.m
        /\ space' = [space EXCEPT ![t].alive = fixed.ok]
  /\ UNCHANGED <<rings, urings, halted>>

SpaceNext ==
  \E t \in Procs :
    \/ \E addr \in BreakChoices :
         BrkShrink(t, addr) \/ BrkGrow(t, addr) \/ BrkGrowWithinPage(t, addr)
    \/ SysExec(t)
    \/ \E partner \in Procs : IpcCreate(t, partner)
    \/ \E id \in DOMAIN rings : IpcConnect(t, id)
    \/ IoUringSetup(t) \/ SysFbInfo(t) \/ MapIrqRing(t)
    \/ \E ring \in DOMAIN urings, virt \in Buffers, some \in BOOLEAN : ReadZc(t, ring, virt, some)
    \/ \E phys \in PhysChoices :
         SysMapMmio(t, phys) \/ \E dest \in Dests : SysMapPhys(t, phys, dest)
    \/ \E virt \in Promised : MapOnDemand(t, virt) \/ PageFault(t, virt)

SpaceSpec == SpaceInit /\ [][SpaceNext]_spaceVars

-----------------------------------------------------------------------------
(* The tables, and what they map in the user half.  A place is an entry: a *)
(* table and an index.                                                     *)

Roots == {KernelRoot} \cup {Root(t) : t \in Procs} \cup {urings[i] : i \in DOMAIN urings}

EntryAt(place) == mem.tables[place[1]][place[2]]

Below(places) ==
  {place \in {EntryAt(p).addr : p \in places} \X Indices : Present(EntryAt(place))}

PdptPlaces(roots) == {place \in roots \X {0} : Present(EntryAt(place))}
PdPlaces(roots) == Below(PdptPlaces(roots))
PtPlaces(roots) == Below(PdPlaces(roots))
PagePlaces(roots) == Below(PtPlaces(roots))

\* The entries of the direct map that were split, which lead to tables.
SplitPlaces ==
  LET pds == {place \in {KernelPdpt} \X Indices : ~Huge(EntryAt(place))}
  IN pds \cup {place \in Below(pds) : ~Huge(EntryAt(place))}

RingPages == {rings[i].phys : i \in DOMAIN rings}

\* What the kernel allocates has one use.  No page that the allocator calls
\* free is a table or mapped for a program; no page is two tables, a table
\* and a program's page, or pages of two programs, whatever was mapped,
\* replaced, split, abandoned half-way or left behind by exec.  Only the
\* page of an IPC ring is shared, and only by the ends of the ring.  The
\* pages that the kernel's own table maps in the user half do not count:
\* they are the ones that callers of sys_map_mmio and sys_map_phys name,
\* which nothing keeps from naming a page with a use.  The tables on the way
\* to them do.
OneUsePerPage ==
  LET tablePlaces ==
        SplitPlaces \cup PdptPlaces(Roots) \cup PdPlaces(Roots) \cup PtPlaces(Roots)
      pagePlaces == PagePlaces(Roots \ {KernelRoot})
      private == {p \in tablePlaces \cup pagePlaces : EntryAt(p).addr \notin RingPages}
      used(places) == {EntryAt(p).addr : p \in places}
  IN /\ used(tablePlaces \cup pagePlaces) \subseteq Ram \ mem.pmm.bitmap
     /\ used(tablePlaces) \cap RingPages = {}
     /\ Cardinality(used(private)) = Cardinality(private)
     /\ \A t \in Procs, i \in DOMAIN rings :
          (\E p \in PagePlaces({Root(t)}) : EntryAt(p).addr = rings[i].phys)
            => t \in {rings[i].producer, rings[i].consumer}

\* Splitting the huge pages of the direct map, once per driver that asks for
\* a ring, leaves every kernel address where it was in every address space.
DirectMapIntact ==
  \A root \in Roots, phys \in 0..(Radix^3 - 1) :
    translate(mem, root, Radix^3 + phys) = phys

\* The heap of a program keeps its pages, and so what the program has
\* written there, as long as the break stays above them: whatever the task
\* or another one does, short of exec, and of a zero-copy read into the page
\* through a ring of this program, which puts a fresh page in its place.
BelowBreakKept ==
  [][\A t \in Procs :
       Root(t)' = Root(t) =>
         \A virt \in HeapStart..(MaxBreak \div PageBytes) :
           /\ virt * PageBytes < space[t].brk
           /\ virt * PageBytes < space'[t].brk
           /\ translate(mem, Root(t), virt) # NoPage
           => \/ translate(mem', Root(t), virt) = translate(mem, Root(t), virt)
              \/ /\ \E r \in Procs, ring \in DOMAIN urings :
                      urings[ring] = Root(t) /\ ReadZc(r, ring, virt, TRUE)
                 /\ translate(mem', Root(t), virt) = alloc_page(mem.pmm).page]_spaceVars

\* "Growing - allocate pages up to the new break" (syscall/mod.rs:443): every
\* byte of the heap below the break has a page.
HeapBacked ==
  \A t \in Procs : \A virt \in HeapStart..(MaxBreak \div PageBytes) :
    space[t].alive /\ virt * PageBytes < space[t].brk
      => translate(mem, Root(t), virt) # NoPage
=============================================================================
