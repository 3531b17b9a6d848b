---------------------------- MODULE MCVtfsRaces ----------------------------
(***************************************************************************)
(* Small instances of VtfsRaces for TLC.                                   *)
(***************************************************************************)
EXTENDS VtfsRaces, TLC

Symmetry == Permutations(Threads) \cup Permutations(Names) \cup Permutations(Objects)
=============================================================================
