---------------------------- MODULE MCVtfsServer ----------------------------
(***************************************************************************)
(* Small instances of VtfsServer for TLC.                                  *)
(***************************************************************************)
EXTENDS VtfsServer, TLC

CONSTANTS t1, t2,      \* tokens
          n1, n2,      \* names
          c1, c2       \* bytes that clients write

OneByte == {<<c1>>}
Writes  == {<<c1>>, <<c2, c2>>}

Symmetry == Permutations(Names) \cup Permutations(Ids)

SymmetryTokens == Symmetry \cup Permutations(Tokens)
=============================================================================
