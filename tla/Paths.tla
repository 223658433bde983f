------------------------------- MODULE Paths -------------------------------
(* PathNormalizer::normalize (kernel/src/fs/path_cache.rs): the loop that
   turns the parts of a path, split at '/', into the components of its
   canonical form.  An empty part is skipped exactly like "." and is not kept
   apart from it.  normalize is also what join, sys_chdir and
   resolve_user_path end in, on the concatenation of the working directory
   and the relative path. *)
EXTENDS Integers, Sequences, FiniteSets, Maps

CONSTANTS Names,      \* the component names a path may contain
          MaxParts    \* bound: the parts of one path that TLC explores

ASSUME PathsAssumption == "." \notin Names /\ ".." \notin Names

VARIABLES read,        \* the parts consumed so far
          components   \* the stack of components the loop keeps

pathVars == <<read, components>>

Parts == Names \cup {".", ".."}

\* ".." that is ignored instead of popping the last component: mutant
Consume_ignores_up(stack, part) ==
  IF part \in {".", ".."} THEN stack ELSE Append(stack, part)

\* One round of the loop, by the arm its match takes.  pop on an empty stack
\* does nothing: ".." at the root stays at the root.
Consume(stack, part) ==
  CASE part = "."     -> stack
    [] part = ".."    -> IF stack = <<>> THEN stack ELSE DropLast(stack)
    [] part \in Names -> Append(stack, part)

\* normalize as a function of the whole path, for the modules that call it.
normalize(parts) ==
  LET stack[k \in 0 .. Len(parts)] ==
        IF k = 0 THEN <<>> ELSE Consume(stack[k - 1], parts[k])
  IN  stack[Len(parts)]

PathInit == read = <<>> /\ components = <<>>

NextPart ==
  /\ Len(read) < MaxParts
  /\ \E part \in Parts :
       /\ read' = Append(read, part)
       /\ components' = Consume(components, part)

PathNext == NextPart

PathSpec == PathInit /\ [][PathNext]_pathVars

-----------------------------------------------------------------------------
(* What the canonical form should be, said without a stack: a name at i is
   kept unless some later stretch of the path climbs above it, that is,
   contains more ".." than names. *)
Count(from, to, kind) ==
  Cardinality({k \in from .. to : read[k] \in kind})

Kept ==
  {i \in 1 .. Len(read) :
     /\ read[i] \in Names
     /\ \A j \in i + 1 .. Len(read) :
          Count(i + 1, j, {".."}) =< Count(i + 1, j, Names)}

KeptAfter(i) == {k \in Kept : k > i}

\* The loop's stack is always the kept names in the order they were read (as
\* many components follow one as kept names follow it in the path), so a
\* relative path never escapes the root and a later name is never cancelled by
\* an earlier "..".
ComponentsAreKept ==
  /\ Len(components) = Cardinality(Kept)
  /\ \A i \in Kept :
       components[Cardinality(Kept) - Cardinality(KeptAfter(i))] = read[i]
=============================================================================
