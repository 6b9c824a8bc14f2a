------------------------------ MODULE MCSdarc ------------------------------
(***************************************************************************)
(* Small instances of Sdarc for TLC.                                       *)
(***************************************************************************)
EXTENDS Reclamation, SdarcRefinement, SdarcInvariant, TLC

\* The members of two overlapping roles, by the roles they have.
Classes(A, B) == {A \cap B, A \ B, B \ A}

\* Used by the safety runs only: symmetry is not sound for liveness.  Objects,
\* handles, cells and threads are interchangeable.  Shards are not:
\* the collector reads them in index order.
Symmetry ==
  UNION {Permutations(S) : S \in
           Classes(DataObjects, WeakObjects) \cup Classes(CasThreads, BorrowThreads)
             \cup {Threads \ (CasThreads \cup BorrowThreads), Handles, Cells}}
=============================================================================
