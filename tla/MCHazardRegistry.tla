-------------------------- MODULE MCHazardRegistry --------------------------
(***************************************************************************)
(* A small instance of HazardRegistry for TLC.                             *)
(***************************************************************************)
EXTENDS HazardRegistry, TLC

Symmetry == Permutations(Threads)
=============================================================================
