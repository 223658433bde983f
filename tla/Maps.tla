-------------------------------- MODULE Maps --------------------------------
(* The collections of the standard library: BTreeMap and a vector of options
   as functions, with insert and remove; a vector's pop and a slice's
   starts_with on sequences.  The prover carries the definitions of all that a
   module extends into each of its obligations, so the modules with proofs
   take these from here and not from SequencesExt. *)
EXTENDS Integers, Sequences

With(f, x, y) == [z \in DOMAIN f \cup {x} |-> IF z = x THEN y ELSE f[z]]

Without(f, x) == [y \in DOMAIN f \ {x} |-> f[y]]

DropLast(s) == SubSeq(s, 1, Len(s) - 1)

StartsWith(s, prefix) ==
  Len(prefix) =< Len(s) /\ SubSeq(s, 1, Len(prefix)) = prefix
=============================================================================
