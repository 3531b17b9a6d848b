----------------------------- MODULE MCVtfsTree -----------------------------
(***************************************************************************)
(* Small instances of VtfsTree for TLC.                                    *)
(***************************************************************************)
EXTENDS VtfsTree, TLC

CONSTANTS n1, n2,      \* names
          b1, b2, b3,  \* buffers
          c1, c2       \* bytes that programs write

\* kmalloc's size classes at the scale of the model: 1 and 2 bytes share one.
Classes == <<2, 2, 3>>

NoBytes  == {}
OneByte  == {<<c1>>}
Writes   == {<<c1>>, <<c2, c2>>}

Symmetry == Permutations(Names) \cup Permutations(Buffers)
=============================================================================
