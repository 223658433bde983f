-------------------------------- MODULE Ahci --------------------------------
(***************************************************************************)
(* kernel/src/drivers/ahci.rs: one SATA port, its driver, and the disk     *)
(* that works beside it.  The driver keeps three pages of the frame        *)
(* allocator for the port and takes two more for a command: a buffer and a *)
(* command table.  It polls with interrupts off, so no other task runs     *)
(* during a command; the disk does, and after a timeout it goes on with a  *)
(* command whose pages the driver has given back.                          *)
(*                                                                         *)
(* The allocator is one that memory::init has filled.  In this build kmain *)
(* calls drivers::init first, so init_port finds no free page and there is *)
(* no driver; the model is of a driver whose initialisation comes after.   *)
(***************************************************************************)
EXTENDS FrameAllocator

CONSTANTS Lbas,        \* sectors
          SectorData   \* contents of a sector

ASSUME AhciAssumption == SectorData # {}

VARIABLES ahci,     \* the driver: AhciDriver and the locals of a command
          hba,      \* the port: slot 0 of its command list, PxCI, PxTFD
          page_data,      \* what a page holds
          disk,     \* what a sector holds
          answer    \* what the last call returned

ahciVars == <<ahci, hba, page_data, disk, answer>>

\* data: what the page is if it is read as a sector.
Other == [kind |-> "other", data |-> 0]
Sector(d) == [kind |-> "data", data |-> d]
Table(op, lba, buf) == [kind |-> "table", data |-> 0, op |-> op, lba |-> lba, buf |-> buf]

NoAnswer == [ok |-> FALSE, op |-> "none", lba |-> 0, data |-> 0]

\* pc "off": no driver.  timedOut: some command has not been waited for.
AhciInit ==
  /\ ahci = [pc |-> "off", clb |-> NoPage, fb |-> NoPage, buf |-> NoPage, ct |-> NoPage,
             op |-> "none", lba |-> 0, ok |-> FALSE, timedOut |-> FALSE]
  /\ hba = [clb |-> NoPage, fb |-> NoPage, slot |-> NoPage, CI |-> FALSE, err |-> FALSE,
            cmd |-> Other]
  /\ page_data = [page \in Pages |-> Other]
  /\ disk = [lba \in Lbas |-> CHOOSE d \in SectorData : TRUE]
  /\ answer = NoAnswer

\* The allocator after the driver took, or gave back, a set of pages.
Took(got, n) ==
  /\ pmm' = got.pmm
  /\ held' = held \cup RunAt(got.page, n)

Gave(page) ==
  /\ pmm' = free_page(pmm, page)
  /\ held' = held \ {page}

\* Out of memory for the FIS area: the command list is given back.
NoFisArea(clb) ==
  /\ pmm' = free_page(free_page(clb.pmm, clb.page), clb.page + 1)
  /\ UNCHANGED <<held, ahciVars>>

\* init and init_port: the fields are set last, so a driver that fails here
\* is dropped with none.
init_port ==
  LET clb == alloc_contiguous(pmm, 2)
      fb == alloc_page(clb.pmm)
  IN /\ ahci.pc = "off"
     /\ clb.page # NoPage
     /\ \/ fb.page = NoPage /\ NoFisArea(clb)
        \/ /\ fb.page # NoPage
           /\ pmm' = fb.pmm
           /\ held' = held \cup {clb.page, clb.page + 1, fb.page}
           /\ ahci' = [ahci EXCEPT !.pc = "idle", !.clb = clb.page, !.fb = fb.page]
           /\ hba' = [hba EXCEPT !.clb = clb.page, !.fb = fb.page]
           /\ UNCHANGED <<page_data, disk, answer>>

\* read_sector, write_sector up to issue_command.
StartSector(op, lba, data) ==
  LET got == alloc_page(pmm)
  IN /\ ahci.pc = "idle"
     /\ \/ /\ got.page = NoPage
           /\ answer' = NoAnswer
           /\ UNCHANGED <<pmm, held, ahci, hba, page_data, disk>>
        \/ /\ got.page # NoPage
           /\ Took(got, 1)
           /\ ahci' = [ahci EXCEPT !.pc = "table", !.buf = got.page, !.op = op, !.lba = lba]
           /\ page_data' = IF op = "read" THEN page_data
                           ELSE [page_data EXCEPT ![got.page] = Sector(data)]
           /\ answer' = NoAnswer
           /\ UNCHANGED <<hba, disk>>

\* issue_command up to the fence: the command table and slot 0.
FillCommand ==
  LET got == alloc_page(pmm)
  IN /\ ahci.pc = "table"
     /\ \/ /\ got.page = NoPage
           /\ ahci' = [ahci EXCEPT !.pc = "finish", !.ok = FALSE]
           /\ UNCHANGED <<pmm, held, hba, page_data>>
        \/ /\ got.page # NoPage
           /\ Took(got, 1)
           /\ ahci' = [ahci EXCEPT !.pc = "issue", !.ct = got.page]
           /\ page_data' = [page_data EXCEPT ![got.page] = Table(ahci.op, ahci.lba, ahci.buf)]
           /\ hba' = [hba EXCEPT !.slot = got.page]
     /\ UNCHANGED <<disk, answer>>

\* PxCI := 1.
Issue ==
  /\ ahci.pc = "issue"
  /\ ahci' = [ahci EXCEPT !.pc = "wait"]
  /\ hba' = [hba EXCEPT !.CI = TRUE]
  /\ UNCHANGED <<frameVars, page_data, disk, answer>>

\* Mutant: the loop is left at once.
Completed_unchecked ==
  /\ ahci.pc = "wait"
  /\ Gave(ahci.ct)
  /\ ahci' = [ahci EXCEPT !.pc = "finish", !.ct = NoPage, !.ok = ~hba.err]
  /\ UNCHANGED <<hba, page_data, disk, answer>>

\* Mutant: the result does not depend on PxTFD.
Completed_ignores_error ==
  /\ ahci.pc = "wait"
  /\ ~hba.CI
  /\ Gave(ahci.ct)
  /\ ahci' = [ahci EXCEPT !.pc = "finish", !.ct = NoPage, !.ok = TRUE]
  /\ UNCHANGED <<hba, page_data, disk, answer>>

\* The loop sees PxCI clear, and the result is what PxTFD says.
Completed ==
  /\ ahci.pc = "wait"
  /\ ~hba.CI
  /\ Gave(ahci.ct)
  /\ ahci' = [ahci EXCEPT !.pc = "finish", !.ct = NoPage, !.ok = ~hba.err]
  /\ UNCHANGED <<hba, page_data, disk, answer>>

\* The loop ends by its counter; the disk may still clear PxCI before the
\* driver writes to it.
TimedOut ==
  /\ ahci.pc = "wait"
  /\ hba.CI
  /\ Gave(ahci.ct)
  /\ ahci' = [ahci EXCEPT !.pc = "reissue", !.ct = NoPage, !.ok = FALSE, !.timedOut = TRUE]
  /\ UNCHANGED <<hba, page_data, disk, answer>>

Reissue ==
  /\ ahci.pc = "reissue"
  /\ ahci' = [ahci EXCEPT !.pc = "finish"]
  /\ hba' = [hba EXCEPT !.CI = TRUE]
  /\ UNCHANGED <<frameVars, page_data, disk, answer>>

\* The end of read_sector and of write_sector.
FinishSector ==
  /\ ahci.pc = "finish"
  /\ answer' = IF ahci.ok
               THEN [ok |-> TRUE, op |-> ahci.op, lba |-> ahci.lba,
                     data |-> page_data[ahci.buf].data]
               ELSE NoAnswer
  /\ Gave(ahci.buf)
  /\ ahci' = [ahci EXCEPT !.pc = "idle", !.buf = NoPage, !.op = "none", !.lba = 0, !.ok = FALSE]
  /\ UNCHANGED <<hba, page_data, disk>>

-----------------------------------------------------------------------------
(* The disk.                                                               *)

\* It takes the command slot 0 points to, whatever that page holds by now.
DiskFetch ==
  /\ hba.CI /\ hba.cmd = Other
  /\ page_data[hba.slot].kind = "table"
  /\ hba' = [hba EXCEPT !.cmd = page_data[hba.slot]]
  /\ UNCHANGED <<frameVars, ahci, page_data, disk, answer>>

\* It moves the sector between its medium and the buffer, and completes.
DiskTransfer ==
  /\ hba.cmd # Other
  /\ \/ /\ hba.cmd.op = "read"
        /\ page_data' = [page_data EXCEPT ![hba.cmd.buf] = Sector(disk[hba.cmd.lba])]
        /\ UNCHANGED disk
     \/ /\ hba.cmd.op = "write"
        /\ disk' = [disk EXCEPT ![hba.cmd.lba] = page_data[hba.cmd.buf].data]
        /\ UNCHANGED page_data
  /\ hba' = [hba EXCEPT !.CI = FALSE, !.err = FALSE, !.cmd = Other]
  /\ UNCHANGED <<frameVars, ahci, answer>>

\* It completes with an error, and the medium is as it was.
DiskError ==
  /\ hba.CI
  /\ hba' = [hba EXCEPT !.CI = FALSE, !.err = TRUE, !.cmd = Other]
  /\ UNCHANGED <<frameVars, ahci, page_data, disk, answer>>

-----------------------------------------------------------------------------
(* The rest of the kernel, between two commands.                           *)

Between == ahci.pc \in {"off", "idle"}

PortPages == IF ahci.pc = "off" THEN {} ELSE {ahci.clb, ahci.clb + 1, ahci.fb}
DriverPages == PortPages \cup ({ahci.buf, ahci.ct} \ {NoPage})

\* A page that is handed out is overwritten by its new owner.
OthersTake ==
  /\ Between
  /\ AllocPage
  /\ page_data' = [page \in Pages |-> IF page \in held' \ held THEN Other ELSE page_data[page]]
  /\ UNCHANGED <<ahci, hba, disk, answer>>

OthersGive(page) ==
  /\ Between
  /\ page \notin PortPages
  /\ FreePage(page)
  /\ UNCHANGED ahciVars

AhciNext ==
  \/ init_port
  \/ \E lba \in Lbas : StartSector("read", lba, 0)
  \/ \E lba \in Lbas, d \in SectorData : StartSector("write", lba, d)
  \/ FillCommand \/ Issue \/ Completed \/ TimedOut \/ Reissue \/ FinishSector
  \/ DiskFetch \/ DiskTransfer \/ DiskError
  \/ OthersTake
  \/ \E page \in held : OthersGive(page)

AhciSpec == FramesInit /\ AhciInit /\ [][AhciNext]_<<frameVars, ahciVars>>

-----------------------------------------------------------------------------

\* The pages the disk reads or writes belong to the driver.  The disk runs
\* beside the driver, so this rests on the order in issue_command and
\* read_sector: nothing is given back before PxCI is seen clear.  It is
\* claimed only while no command has timed out: a timeout gives the table
\* and the buffer back under a disk that may still use them.
DmaInOwnPages ==
  ~ahci.timedOut =>
    /\ hba.CI => hba.slot \in DriverPages
    /\ hba.cmd # Other => hba.cmd.buf \in DriverPages

\* A sector that is read is the sector that was asked for, and a write that
\* succeeds is on the disk, though slot 0, the buffer page and the table page
\* are used again by every command, and errors and calls without memory come
\* in between.  A timeout ends this: the late completion of one command is
\* taken for that of the next.
AnswerIsTheSector ==
  ~ahci.timedOut /\ answer.ok => answer.data = disk[answer.lba]
=============================================================================
