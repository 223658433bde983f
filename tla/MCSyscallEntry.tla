--------------------------- MODULE MCSyscallEntry ---------------------------
(* User programs for TLC: how they enter and leave the kernel, and the editor
   and the shell, each on its own.  `which` says whose steps a behaviour
   takes. *)
EXTENDS SyscallEntry, Editor, ShellLine

CONSTANT MaxKeys      \* bound: keys the editor handles before it is left

VARIABLES which, keys

\* Files with an empty line, a line too wide and more lines than fit.
MCFiles == {<<"b", "c", "n", "n", "b", "c", "c", "b">>,
            <<"b", "n", "c", "n", "b", "n", "c", "n", "b">>}
MCClips == {<<"b", "n", "c">>}
MCRows == {-2, 1}
MCEndings == {<<"a">>, <<"b", "a">>}

MCVars == <<fullVars, editorVars, shellVars, which, keys>>

MCInit ==
  /\ EntryInit /\ ShellInit /\ keys = 0
  /\ \/ /\ which \in {"entry", "shell"}
        /\ turn = "mouse" /\ mark = NoMark /\ doc = FreshDoc(<<>>)
     \/ which = "editor" /\ EditorInit

MCNext ==
  /\ which' = which
  /\ \/ which = "entry" /\ EntryNext /\ UNCHANGED <<editorVars, shellVars, keys>>
     \/ which = "shell" /\ ShellNext /\ UNCHANGED <<fullVars, editorVars, keys>>
     \/ /\ which = "editor" /\ EditorNext /\ UNCHANGED <<fullVars, shellVars>>
        /\ keys' = IF turn = "key" THEN keys + 1 ELSE keys
        /\ turn = "key" /\ keys >= MaxKeys => turn' # "mouse"

MCSpec == MCInit /\ [][MCNext]_MCVars
=============================================================================
