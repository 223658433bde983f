------------------------------ MODULE FlatText ------------------------------
(* What a text editor promises of its keys: the text is one sequence of
   characters with line ends among them, the cursor a place in it, and a key
   moves the cursor, inserts at it, erases the character before it, or clears
   the line it is on.  Nothing else in the text ever changes. *)
EXTENDS Integers, Sequences

CONSTANT NL            \* the line end

VARIABLES text, at     \* the text, and the characters before the cursor

flatVars == <<text, at>>

Before == SubSeq(text, 1, at)
After == SubSeq(text, at + 1, Len(text))

FlatInit == at = 0

MoveCursor == text' = text /\ at' \in 0 .. Len(text)

\* Something is inserted and the cursor is after it.
InsertText ==
  LET n == Len(text') - Len(text)
  IN  /\ n > 0 /\ at' = at + n
      /\ text' = Before \o SubSeq(text', at + 1, at + n) \o After

EraseBefore ==
  /\ at > 0 /\ at' = at - 1
  /\ text' = SubSeq(text, 1, at - 1) \o After

\* The characters of the cursor's line go, its line end stays.
ClearLine ==
  \E from \in 0 .. at, to \in at .. Len(text) :
    /\ \A i \in from + 1 .. to : text[i] # NL
    /\ from = 0 \/ text[from] = NL
    /\ to = Len(text) \/ text[to + 1] = NL
    /\ text' = SubSeq(text, 1, from) \o SubSeq(text, to + 1, Len(text))
    /\ at' = from

FlatNext == MoveCursor \/ InsertText \/ EraseBefore \/ ClearLine

FlatSpec == FlatInit /\ [][FlatNext]_flatVars
=============================================================================
