------------------------------- MODULE Editor -------------------------------
(* The text editor (userland/editor/src/main.rs): a fixed array of lines, a
   cursor, a scroll position and a selection, driven by a loop that first
   samples the mouse and then handles one key.

     doc    [lines, y, x, scroll_y, dirty]: lines is buffer[i][..line_lens[i]]
            for i below line_count, the cursor is 0-based
     mark   [start, is_selecting, outdated]: selection_start or NoPos; outdated
            is history: the text was cut or pasted into since the start was set
     turn   what the loop does next: "mouse" or "key"; "left" after return and
            "panicked" after a slice out of range

   The clipboard is the kernel's and any program may set it, so paste takes any
   content.  What save writes is not kept, only whether it could open the file. *)
EXTENDS Integers, Sequences

CONSTANTS MAX_LINES, MAX_LINE_LEN,
          TextRows,       \* ROWS - 4, the lines drawn
          Newline, EditorChars,
          LoadedFiles,    \* contents of the file named on the command line
          Clips,          \* what the clipboard may hold
          MouseRows, MouseCols   \* places clicked, row 0 is the first line drawn

ASSUME EditorAssumption ==
  /\ MAX_LINES \in Nat \ {0, 1} /\ MAX_LINE_LEN \in Nat \ {0}
  /\ TextRows \in Nat \ {0} /\ Newline \notin EditorChars
  /\ MouseRows \subseteq Int /\ MouseCols \subseteq Nat
  /\ \A s \in LoadedFiles \cup Clips : s \in Seq({s[i] : i \in DOMAIN s})

VARIABLES doc, mark, turn

editorVars == <<doc, mark, turn>>

NoPos == [y |-> -1, x |-> -1]

AtMost(a, b) == IF a =< b THEN a ELSE b

Row(d, y) == d.lines[y + 1]
CursorRow(d) == Row(d, d.y)

\* The first i entries of s, then new, then s from its entry j on: what the
\* code's loops that shift characters or lines by one place end in.
Spliced(s, i, new, j) == SubSeq(s, 1, i) \o new \o SubSeq(s, j, Len(s))

-----------------------------------------------------------------------------
(* load_file *)

\* One byte: a line end files the line, a character beyond the width is lost.
LoadByte(s, byte) ==
  IF s.full THEN s
  ELSE IF byte = Newline
  THEN [lines |-> Append(s.lines, s.line), line |-> <<>>,
        full |-> Len(s.lines) + 1 >= MAX_LINES]
  ELSE [s EXCEPT !.line = IF Len(@) < MAX_LINE_LEN THEN Append(@, byte) ELSE @]

load_file(bytes) ==
  LET read[k \in 0 .. Len(bytes)] ==
        IF k = 0 THEN [lines |-> <<>>, line |-> <<>>, full |-> FALSE]
        ELSE LoadByte(read[k - 1], bytes[k])
      s == read[Len(bytes)]
      lines == IF s.line # <<>> /\ ~s.full THEN Append(s.lines, s.line) ELSE s.lines
  IN  IF lines = <<>> THEN <<<<>>>> ELSE lines

-----------------------------------------------------------------------------
(* The editing operations, on d = doc *)
move_up(d) ==
  IF d.y = 0 THEN d
  ELSE [d EXCEPT !.y = @ - 1, !.x = AtMost(@, Len(Row(d, d.y - 1))),
                 !.scroll_y = IF d.y - 1 < @ THEN @ - 1 ELSE @]

move_down(d) ==
  IF d.y >= Len(d.lines) - 1 THEN d
  ELSE [d EXCEPT !.y = @ + 1, !.x = AtMost(@, Len(Row(d, d.y + 1))),
                 !.scroll_y = IF d.y + 1 >= @ + TextRows THEN @ + 1 ELSE @]

move_left(d) ==
  IF d.x > 0 THEN [d EXCEPT !.x = @ - 1]
  ELSE IF d.y > 0 THEN [d EXCEPT !.y = @ - 1, !.x = Len(Row(d, d.y - 1))]
  ELSE d

move_right(d) ==
  IF d.x < Len(CursorRow(d)) THEN [d EXCEPT !.x = @ + 1]
  ELSE IF d.y < Len(d.lines) - 1 THEN [d EXCEPT !.y = @ + 1, !.x = 0]
  ELSE d

insert_char(d, ch) ==
  IF Len(CursorRow(d)) >= MAX_LINE_LEN - 1 THEN d
  ELSE [d EXCEPT !.lines[d.y + 1] = Spliced(@, d.x, <<ch>>, d.x + 1),
                 !.x = @ + 1]

\* Joining two lines is refused when the result is too wide.
handle_backspace(d) ==
  IF d.x > 0
  THEN [d EXCEPT !.lines[d.y + 1] = Spliced(@, d.x - 1, <<>>, d.x + 1),
                 !.x = @ - 1]
  ELSE IF d.y > 0 /\ Len(Row(d, d.y - 1)) + Len(CursorRow(d)) < MAX_LINE_LEN
  THEN [d EXCEPT !.lines = Spliced(@, d.y - 1, <<Row(d, d.y - 1) \o CursorRow(d)>>, d.y + 2),
                 !.y = @ - 1, !.x = Len(Row(d, d.y - 1))]
  ELSE d

\* The lines below are not moved down first: mutant.
handle_enter_overwrites(d) ==
  IF Len(d.lines) >= MAX_LINES - 1 THEN d
  ELSE LET head == SubSeq(CursorRow(d), 1, d.x)
           rest == SubSeq(CursorRow(d), d.x + 1, Len(CursorRow(d)))
       IN  [d EXCEPT !.lines = Spliced(@, d.y, <<head, rest>>, d.y + 3),
                     !.y = @ + 1, !.x = 0]

handle_enter(d) ==
  IF Len(d.lines) >= MAX_LINES - 1 THEN d
  ELSE LET head == SubSeq(CursorRow(d), 1, d.x)
           rest == SubSeq(CursorRow(d), d.x + 1, Len(CursorRow(d)))
       IN  [d EXCEPT !.lines = Spliced(@, d.y, <<head, rest>>, d.y + 2),
                     !.y = @ + 1, !.x = 0]

\* Characters that do not fit are dropped one by one, and dirty is not set.
PasteByte(d, ch) == IF ch = Newline THEN handle_enter(d) ELSE insert_char(d, ch)

paste(d, clip) ==
  LET pasted[k \in 0 .. Len(clip)] ==
        IF k = 0 THEN d ELSE PasteByte(pasted[k - 1], clip[k])
  IN  pasted[Len(clip)]

\* Pos is ordered by line, then column.
Precedes(p, q) == p.y < q.y \/ (p.y = q.y /\ p.x < q.x)

\* copy slices every line from start_x to end_x; a slice whose start lies after
\* its end panics.
CopyPanics(d, start) ==
  /\ start # NoPos
  /\ LET cursor == [y |-> d.y, x |-> d.x]
         p1 == IF Precedes(start, cursor) THEN start ELSE cursor
         p2 == IF Precedes(start, cursor) THEN cursor ELSE start
     IN  \E y \in p1.y .. p2.y :
           (IF y = p1.y THEN p1.x ELSE 0) >
             (IF y = p2.y THEN p2.x ELSE Len(Row(d, y)))

-----------------------------------------------------------------------------
NoMark == [start |-> NoPos, is_selecting |-> FALSE, outdated |-> FALSE]

FreshDoc(bytes) ==
  [lines |-> load_file(bytes), y |-> 0, x |-> 0, scroll_y |-> 0, dirty |-> FALSE]

EditorInit ==
  /\ \E bytes \in LoadedFiles : doc = FreshDoc(bytes)
  /\ mark = NoMark /\ turn = "mouse"

\* The button is down at a row and column.  A row above the text is negative
\* and wraps around, so that with scroll_y added it can name a line again.
MousePressed(row, col) ==
  LET char_y == row + doc.scroll_y
      on_line == 0 =< char_y /\ char_y < Len(doc.lines)
  IN  /\ turn = "mouse" /\ turn' = "key"
      /\ doc' = IF on_line
                THEN [doc EXCEPT !.y = char_y, !.x = AtMost(col, Len(Row(doc, char_y)))]
                ELSE doc
      /\ mark' = IF on_line /\ ~mark.is_selecting
                 THEN [start |-> [y |-> doc.y, x |-> doc.x],
                       is_selecting |-> TRUE, outdated |-> FALSE]
                 ELSE mark

MouseReleased ==
  /\ turn = "mouse" /\ turn' = "key"
  /\ mark' = [mark EXCEPT !.is_selecting = FALSE]
  /\ UNCHANGED doc

\* One key of the match in run.
Key(d, m, next) == turn = "key" /\ doc' = d /\ mark' = m /\ turn' = next

Unmarked == [mark EXCEPT !.start = NoPos, !.outdated = FALSE]

MarkHere ==
  IF mark.start # NoPos THEN mark
  ELSE [mark EXCEPT !.start = [y |-> doc.y, x |-> doc.x], !.outdated = FALSE]

Moves(d) == {move_up(d), move_down(d), move_left(d), move_right(d)}

Arrow == \E d \in Moves(doc) : Key(d, Unmarked, "mouse")
ShiftArrow == \E d \in Moves(doc) : Key(d, MarkHere, "mouse")

Edited(d) == [d EXCEPT !.dirty = TRUE]

TypeChar == \E ch \in EditorChars :
  Key(Edited(insert_char(doc, ch)), Unmarked, "mouse")
Enter == Key(Edited(handle_enter(doc)), Unmarked, "mouse")

\* The selection is kept: mutant.
Backspace_keeps_mark == Key(Edited(handle_backspace(doc)), mark, "mouse")

Backspace == Key(Edited(handle_backspace(doc)), Unmarked, "mouse")

\* Cut and paste leave selection_start as it is.
Outdated == [mark EXCEPT !.outdated = mark.start # NoPos]

Copy ==
  Key(doc, mark, IF CopyPanics(doc, mark.start) THEN "panicked" ELSE "mouse")

\* The whole line of the cursor goes, whatever was selected.
Cut ==
  IF CopyPanics(doc, mark.start) THEN Key(doc, mark, "panicked")
  ELSE Key(Edited([doc EXCEPT !.lines[doc.y + 1] = <<>>, !.x = 0]), Outdated, "mouse")

Paste == \E clip \in Clips : Key(paste(doc, clip), Outdated, "mouse")

Save == \E opened \in BOOLEAN :
  Key([doc EXCEPT !.dirty = @ /\ ~opened], mark, "mouse")

OtherKey == Key(doc, mark, "mouse")
Quit == Key(doc, mark, "left")

\* The program is gone.
Ended == turn \in {"left", "panicked"} /\ UNCHANGED editorVars

KeyNext ==
  \/ Arrow \/ ShiftArrow \/ TypeChar \/ Enter \/ Backspace
  \/ Copy \/ Cut \/ Paste \/ Save \/ OtherKey \/ Quit

EditorNext ==
  \/ \E row \in MouseRows, col \in MouseCols : MousePressed(row, col)
  \/ MouseReleased \/ KeyNext \/ Ended

EditorSpec == EditorInit /\ [][EditorNext]_editorVars

-----------------------------------------------------------------------------
(* Properties *)

\* The lines joined, and the characters before the cursor.
Joined(lines) ==
  LET upto[k \in 0 .. Len(lines) - 1] ==
        IF k = 0 THEN lines[1] ELSE upto[k - 1] \o <<Newline>> \o lines[k + 1]
  IN  upto[Len(lines) - 1]

Flat == INSTANCE FlatText WITH
  NL <- Newline, text <- Joined(doc.lines),
  at <- Len(Joined(SubSeq(doc.lines, 1, doc.y + 1)))
          - Len(CursorRow(doc)) + doc.x

\* The line array implements a flat text: through any sequence of keys, clicks,
\* joins and splits, and with the lines or a line full, a step moves the cursor,
\* inserts at it, erases the character before it or clears its line, and every
\* other character stays in its place.  (Which of these a key does is not
\* compared.)
EditsFlatText == Flat!FlatSpec

\* The selection's start is a place in the text, so that copy's slices are in
\* range, unless the text was cut or pasted into since the start was set.
SelectionInText ==
  mark.start # NoPos /\ ~mark.outdated =>
    /\ mark.start.y < Len(doc.lines)
    /\ mark.start.x =< Len(Row(doc, mark.start.y))
=============================================================================
