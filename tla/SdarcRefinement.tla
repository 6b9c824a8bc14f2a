-------------------------- MODULE SdarcRefinement --------------------------
(***************************************************************************)
(* Sdarc implements Ownership, in executions that disturb no call of       *)
(* compare_and_set.  An object is alive until the collector begins to drop *)
(* it, places own what they hold, and a reader borrows through each hazard *)
(* slot that has a guard.                                                  *)
(***************************************************************************)
EXTENDS SdarcSafety

Promise == INSTANCE Ownership WITH
  Readers <- Threads \X Slots,
  alive <- {o \in Objects : Live(o)},
  owns <- holds,
  borrows <- [r \in Threads \X Slots |->
                IF guard[r[1]][r[2]] # NULL THEN signals[r[1]].slots[r[2]] ELSE NULL]

\* Every step of the user threads and of the collector is a step of Ownership or
\* changes nothing that Ownership sees: in particular an object is freed only
\* when nobody owns or borrows it, and no operation returns a freed object.
ImplementsOwnership == Promise!Spec
=============================================================================
