---------------------------- MODULE MCVtfsRemote ----------------------------
(***************************************************************************)
(* Small instances of VtfsRemote for TLC.                                  *)
(***************************************************************************)
EXTENDS VtfsRemote, TLC

CONSTANTS n1, n2,          \* names
          b1, b2,          \* buffers
          r1, r2, r3, r4,  \* primary keys
          c1               \* a byte that programs write

\* kmalloc's size classes at the scale of the model: 1 and 2 bytes share one.
Classes == <<2, 2, 3>>

\* An allocator that gives exactly what is asked for.
Exact == <<1, 2>>

NoBytes  == {}

\* A write of one byte, and one of which encode sends only the first.
Writes   == {<<c1>>, <<c1, Nul>>}

\* A bound: the tree has one regular file at a time, under one name or two; the
\* database may have more.
OneFile == Cardinality(RegularFiles) <= 1

\* A bound: no step begins where a file reads as bytes that nobody wrote.  Its name,
\* number and size are those of a file whose last write was copied and lost.
OnlyWritten ==
  \A x \in RegularFiles :
    LET e == ent[First(x)] IN e.data \in DOMAIN mem => CleanUpTo(mem[e.data], e.size)

Symmetry == Permutations(Names) \cup Permutations(Buffers) \cup Permutations(Ids)
=============================================================================
