------------------------------- MODULE Files -------------------------------
(* The file syscalls (kernel/src/syscall/mod.rs) over the VFS with the mounts
   kmain makes: the read-only tar archive at "/" and the RAM filesystem at
   "/home" (fs/vfs.rs, fs/tar.rs, fs/ramfs.rs).

   A syscall runs with interrupts off on the one CPU, so each is one action.
   State, in the record files:
     tree   the ramfs: canonical path below /home -> Dir or the id of a file
            (a file id stands for one Arc<Spinlock<RamFsFile>>);
     len    the length of each file that an entry or a handle still refers to
            (bytes themselves are not told apart);
     fds    per task, descriptor -> handle.  Descriptors 0 to 2 stay None, and
            the None entries of the vector are left out;
     cwd    per task, the working directory.
   A path a user passes is [abs, parts]; reading it from user memory is not
   modelled.  sys_ls and sys_getcwd change nothing and are left out. *)
EXTENDS Paths, FiniteSetsExt, Functions

CONSTANTS FileTasks,    \* the tasks that make file syscalls
          UserPaths,    \* the paths they pass: records [abs, parts]
          HomeNames,    \* names starting with "home": name -> what follows
          NoSuffix,     \* "home" itself: nothing follows
          Tar,          \* files of the archive: canonical path -> length
          Counts,       \* byte counts of reads and writes
          Offsets,      \* offsets given to lseek
          MaxFds,       \* bound: descriptors a task has open
          MaxLen        \* bound: file length

ASSUME FilesAssumption ==
  Counts \subseteq Nat /\ Offsets \subseteq Nat /\ Tar \in [DOMAIN Tar -> Nat]

VARIABLE files

Dir == 0   \* no file id
Console == {1, 2}
EBADF == -9
ENOENT == -2
EINVAL == -22
Failed == -1

\* vfs.open, read_dir, mkdir and remove try the mounts in reverse order and
\* compare the path with the mount point as strings.  /home is tried first:
\* it takes every path whose first component starts with "home", and what
\* follows the prefix is the path within the ramfs.  All else goes to the tar.
InRamFs(path) == path # <<>> /\ path[1] \in DOMAIN HomeNames

Relative(path) ==
  IF HomeNames[path[1]] = NoSuffix THEN Tail(path)
  ELSE <<HomeNames[path[1]]>> \o Tail(path)

resolve_user_path(fs, task, p) ==
  CASE p.abs             -> normalize(p.parts)
    [] p = [abs |-> FALSE, parts |-> <<".">>] -> fs.cwd[task]
    [] OTHER             -> normalize(fs.cwd[task] \o p.parts)

-----------------------------------------------------------------------------
(* ramfs.rs *)

\* Every proper prefix names a directory: the walk of open, mkdir and remove.
ParentsExist(tree, path) ==
  /\ path # <<>>
  /\ \A i \in 1 .. Len(path) - 1 :
       SubSeq(path, 1, i) \in DOMAIN tree /\ tree[SubSeq(path, 1, i)] = Dir

\* The handles of ramfs files that any task has open.
RamHandles(fs) ==
  {h \in UNION {Range(fs.fds[t]) : t \in FileTasks} : h.kind = "ram"}

\* File ids that a directory entry or an open handle holds a reference to.
Referenced(fs) ==
  (Range(fs.tree) \ {Dir}) \cup {h.file : h \in RamHandles(fs)}

\* Dropping the last Arc frees the file.
Collect(fs) ==
  [fs EXCEPT !.len = [i \in DOMAIN @ \cap Referenced(fs) |-> @[i]]]

FreshFile(fs) == CHOOSE i \in 1 .. Cardinality(DOMAIN fs.len) + 1 :
                   i \notin DOMAIN fs.len

RamHandle(file) == [kind |-> "ram", file |-> file, cursor |-> 0]

\* RamFs::open creates the file when only the last component is missing.
ram_open(fs, path) ==
  IF ~ParentsExist(fs.tree, path) THEN [ok |-> FALSE, fs |-> fs]
  ELSE IF path \notin DOMAIN fs.tree
  THEN LET new == FreshFile(fs)
       IN  [ok |-> TRUE, handle |-> RamHandle(new),
            fs |-> [fs EXCEPT !.tree = With(@, path, new),
                              !.len = With(@, new, 0)]]
  ELSE IF fs.tree[path] = Dir THEN [ok |-> FALSE, fs |-> fs]
  ELSE [ok |-> TRUE, handle |-> RamHandle(fs.tree[path]), fs |-> fs]

ram_mkdir(fs, path) ==
  IF ParentsExist(fs.tree, path) /\ path \notin DOMAIN fs.tree
  THEN [fs EXCEPT !.tree = With(@, path, Dir)]
  ELSE fs

\* Removing a directory drops all below it; open handles keep their files.
ram_remove(fs, path) ==
  IF ParentsExist(fs.tree, path) /\ path \in DOMAIN fs.tree
  THEN Collect([fs EXCEPT !.tree =
                  [p \in {q \in DOMAIN @ : ~StartsWith(q, path)} |-> @[p]]])
  ELSE fs

-----------------------------------------------------------------------------
(* Dispatch on the mount.  TarArchive has no mkdir and no remove of its own:
   the trait's defaults refuse. *)
vfs_open(fs, path) ==
  IF InRamFs(path) THEN ram_open(fs, Relative(path))
  ELSE IF path \in DOMAIN Tar
       THEN [ok |-> TRUE, handle |-> [kind |-> "tar", size |-> Tar[path]],
             fs |-> fs]
       ELSE [ok |-> FALSE, fs |-> fs]

vfs_mkdir(fs, path) == IF InRamFs(path) THEN ram_mkdir(fs, Relative(path)) ELSE fs

vfs_remove(fs, path) ==
  IF InRamFs(path) THEN ram_remove(fs, Relative(path)) ELSE fs

-----------------------------------------------------------------------------
(* The syscalls as operators on the state, [fs |-> new state, ret |-> result],
   so that io_uring can run them too. *)
IsOpen(fs, task, fd) == fd \in DOMAIN fs.fds[task]

LowestFree(fds) == CHOOSE i \in 3 .. Cardinality(DOMAIN fds) + 3 :
                     /\ i \notin DOMAIN fds
                     /\ \A j \in 3 .. i - 1 : j \in DOMAIN fds

sys_open(fs, task, p) ==
  LET opened == vfs_open(fs, resolve_user_path(fs, task, p))
      fd == LowestFree(fs.fds[task])
  IN  IF opened.ok
      THEN [fs |-> [opened.fs EXCEPT !.fds[task] = With(@, fd, opened.handle)],
            ret |-> fd]
      ELSE [fs |-> fs, ret |-> ENOENT]

\* The result tells a descriptor beyond the vector (EBADF) from a None entry
\* (0); only the state matters here.
sys_close(fs, task, fd) ==
  [fs |-> Collect([fs EXCEPT !.fds[task] = Without(@, fd)]),
   ret |-> IF IsOpen(fs, task, fd) THEN 0 ELSE EBADF]

\* RamFsFileHandle::read advances the cursor; TarFile::read always starts at
\* the beginning of the file.
file_read(fs, task, fd, count) ==
  IF ~IsOpen(fs, task, fd) THEN [fs |-> fs, ret |-> EBADF]
  ELSE LET h == fs.fds[task][fd] IN
    IF h.kind = "tar" THEN [fs |-> fs, ret |-> Min({h.size, count})]
    ELSE LET available == Max({0, fs.len[h.file] - h.cursor})
             to_read == Min({available, count})
         IN  [fs |-> [fs EXCEPT !.fds[task][fd].cursor = @ + to_read],
              ret |-> to_read]

\* Descriptor 0, the keyboard, is Keyboard's.
sys_read(fs, task, fd, count) ==
  IF count = 0 THEN [fs |-> fs, ret |-> EINVAL] ELSE file_read(fs, task, fd, count)

\* What is written to the console is taken to be text.
sys_write(fs, task, fd, count) ==
  IF count = 0 THEN [fs |-> fs, ret |-> EINVAL]
  ELSE IF fd \in Console THEN [fs |-> fs, ret |-> count]
  ELSE IF ~IsOpen(fs, task, fd) THEN [fs |-> fs, ret |-> EBADF]
  ELSE LET h == fs.fds[task][fd] IN
    IF h.kind = "tar" THEN [fs |-> fs, ret |-> Failed]
    ELSE LET end == h.cursor + count
         IN  [fs |-> [fs EXCEPT !.len[h.file] = Max({@, end}),
                                !.fds[task][fd].cursor = end],
              ret |-> count]

\* Seek with the bound left out: mutant.
seek_unbounded(fs, task, fd, offset) ==
  IF IsOpen(fs, task, fd) /\ fs.fds[task][fd].kind = "ram"
  THEN [fs EXCEPT !.fds[task][fd].cursor = offset]
  ELSE fs

\* An offset beyond the end is an error, and so is any seek in a tar file.
seek(fs, task, fd, offset) ==
  IF /\ IsOpen(fs, task, fd)
     /\ fs.fds[task][fd].kind = "ram"
     /\ offset =< fs.len[fs.fds[task][fd].file]
  THEN [fs EXCEPT !.fds[task][fd].cursor = offset]
  ELSE fs

-----------------------------------------------------------------------------
FilesInit ==
  files = [tree |-> <<>>, len |-> <<>>,
           fds |-> [t \in FileTasks |-> <<>>],
           cwd |-> [t \in FileTasks |-> <<>>]]

SysOpen(t) ==
  /\ Cardinality(DOMAIN files.fds[t]) < MaxFds
  /\ \E p \in UserPaths : files' = sys_open(files, t, p).fs

SysClose(t) ==
  \E fd \in DOMAIN files.fds[t] : files' = sys_close(files, t, fd).fs

SysRead(t) ==
  \E fd \in DOMAIN files.fds[t], count \in Counts :
    files' = sys_read(files, t, fd, count).fs

SysWrite(t) ==
  \E fd \in DOMAIN files.fds[t] \cup Console, count \in Counts :
    /\ files' = sys_write(files, t, fd, count).fs
    /\ \A i \in DOMAIN files'.len : files'.len[i] =< MaxLen

SysLseek(t) ==
  \E fd \in DOMAIN files.fds[t], offset \in Offsets :
    files' = seek(files, t, fd, offset)

\* sys_chdir does not look whether the directory exists.
SysChdir(t) ==
  \E p \in UserPaths :
    files' = [files EXCEPT !.cwd[t] =
                normalize(IF p.abs THEN p.parts ELSE @ \o p.parts)]

\* sys_create opens the file and drops the handle.
SysCreate(t) ==
  \E p \in UserPaths :
    files' = vfs_open(files, resolve_user_path(files, t, p)).fs

SysMkdir(t) ==
  \E p \in UserPaths :
    files' = vfs_mkdir(files, resolve_user_path(files, t, p))

SysDelete(t) ==
  \E p \in UserPaths :
    files' = vfs_remove(files, resolve_user_path(files, t, p))

\* exec replaces the Task: the new one starts with no descriptor beyond the
\* standard three and inherits the working directory (replace_current_task).
SysExecFiles(t) == files' = Collect([files EXCEPT !.fds[t] = <<>>])

FilesNext ==
  \E t \in FileTasks :
    \/ SysOpen(t) \/ SysClose(t) \/ SysRead(t) \/ SysWrite(t) \/ SysLseek(t)
    \/ SysChdir(t) \/ SysCreate(t) \/ SysMkdir(t) \/ SysDelete(t)
    \/ SysExecFiles(t)

FilesSpec == FilesInit /\ [][FilesNext]_files

-----------------------------------------------------------------------------
(* Properties *)

\* Every handle refers to a file that is still there, and its cursor is at
\* most the file's length, whatever the other handles on the file did and
\* whether or not its directory entry is gone.  So write never leaves a gap
\* for resize to fill with zeros, and seek's check is never outdated.
CursorWithinFile ==
  \A h \in RamHandles(files) :
    h.file \in DOMAIN files.len /\ h.cursor =< files.len[h.file]
=============================================================================
