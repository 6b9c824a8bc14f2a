--------------------------- MODULE MCShardedAlloc ---------------------------
(***************************************************************************)
(* Small instances of ShardedAlloc for TLC.                                *)
(***************************************************************************)
EXTENDS ShardedAlloc, TLC

Symmetry == Permutations(Units) \cup Permutations(Boxes)
=============================================================================
