----------------------------- MODULE ShellLine -----------------------------
(* The shell's line editor and command history (userland/shell/src/main.rs):
   read_line's keys, the ring of the last HistorySize lines, and completion.
   What a command does is not modelled; running one leaves all of this alone.
   Ctrl-D ends the program and with it all of this.

     line             input_buffer[..buffer_len]
     history          ring slot -> line      history_count  lines ever filed
     history_index    -1, or how far back the line shown was recalled from
     filed            history: every line add_to_history filed, in order *)
EXTENDS Integers, Sequences, Maps

CONSTANTS HistorySize,        \* the 10 of history
          MaxLine,            \* the 255 a line can hold
          Space, ShellChars,  \* ShellChars contains Space
          Endings,            \* what completing a word may add to it
          MaxFiled            \* bound: lines filed

ASSUME ShellAssumption ==
  /\ HistorySize \in Nat \ {0} /\ MaxLine \in Nat /\ Space \in ShellChars

VARIABLES line, history, history_count, history_index, filed

shellVars == <<line, history, history_count, history_index, filed>>
historyVars == <<history, history_count, filed>>

ShellInit ==
  /\ line = <<>> /\ history = [i \in 0 .. HistorySize - 1 |-> <<>>]
  /\ history_count = 0 /\ history_index = -1 /\ filed = <<>>

\* Off by one: mutant.
Recalled_older(index) == history[(history_count - index) % HistorySize]

\* The line load_history puts in the buffer.
Recalled(index) == history[(history_count - 1 - index) % HistorySize]

KeyUp ==
  /\ history_count > 0
  /\ history_index + 1 < history_count /\ history_index + 1 < HistorySize
  /\ history_index' = history_index + 1
  /\ line' = Recalled(history_index')
  /\ UNCHANGED historyVars

KeyDown ==
  /\ history_index >= 0
  /\ history_index' = history_index - 1
  /\ line' = IF history_index = 0 THEN <<>> ELSE Recalled(history_index')
  /\ UNCHANGED historyVars

KeyErase ==
  /\ line # <<>> /\ line' = DropLast(line)
  /\ UNCHANGED <<history_index, historyVars>>

KeyTyped(ch) ==
  /\ Len(line) < MaxLine /\ line' = Append(line, ch)
  /\ UNCHANGED <<history_index, historyVars>>

\* handle_tab: when one command or listed name alone begins like the word
\* before the cursor, the rest of it is added as far as it fits.  What is
\* listed is up to the file system, and so is the rest.
KeyTab ==
  \E rest \in Endings :
    LET whole == line \o rest
    IN  /\ line # <<>> /\ line[Len(line)] # Space
        /\ line' = IF Len(whole) =< MaxLine THEN whole ELSE SubSeq(whole, 1, MaxLine)
        /\ UNCHANGED <<history_index, historyVars>>

\* Ctrl-C.
KeyCancel == line' = <<>> /\ history_index' = -1 /\ UNCHANGED historyVars

IsRepeat ==
  history_count > 0 /\ history[(history_count - 1) % HistorySize] = line

\* A line that is not empty is filed, unless it repeats the last one, and run.
KeyEnter ==
  /\ IF line = <<>> \/ IsRepeat THEN UNCHANGED historyVars
     ELSE /\ history_count < MaxFiled
          /\ history' = [history EXCEPT ![history_count % HistorySize] = line]
          /\ history_count' = history_count + 1
          /\ filed' = Append(filed, line)
  /\ line' = <<>> /\ history_index' = -1

ShellNext ==
  \/ KeyUp \/ KeyDown \/ KeyErase \/ KeyTab \/ KeyCancel \/ KeyEnter
  \/ \E ch \in ShellChars : KeyTyped(ch)

ShellSpec == ShellInit /\ [][ShellNext]_shellVars

-----------------------------------------------------------------------------
(* Properties *)

\* Going back or forward in the history shows the line filed that many lines
\* ago, with the ring wrapped around any number of times and lines typed over
\* in between, and it never goes back to a line that has been overwritten.
RecallsFiledLine ==
  [][/\ history_index' # history_index
     /\ history_index' >= 0
     => /\ history_index' < Len(filed)
        /\ line' = filed[Len(filed) - history_index']]_shellVars
=============================================================================
