----------------------------- MODULE Ownership -----------------------------
(***************************************************************************)
(* What Sdarc promises, without counters, shards, tags, barriers or a      *)
(* collector: references to an object are created only while it is alive,  *)
(* and an object is reclaimed only when nobody owns or borrows it.         *)
(*                                                                         *)
(* An alive object without an owner may gain one again: WeakSdarc::upgrade *)
(* can resurrect it, and a load_owned that is under way can still return.  *)
(***************************************************************************)
CONSTANTS
  Objects,
  Places,   \* everything that can own a reference
  Readers,  \* everything that can borrow an object without owning it
  NULL

VARIABLES
  alive,    \* objects that may be dereferenced
  owns,     \* the object each place owns, or NULL
  borrows   \* the object each reader borrows, or NULL

vars == <<alive, owns, borrows>>

Init ==
  /\ alive = {}
  /\ owns = [p \in Places |-> NULL]
  /\ borrows = [r \in Readers |-> NULL]

Owned(o) == \E p \in Places : owns[p] = o

Borrowed(o) == \E r \in Readers : borrows[r] = o

\* A new object, owned by p; what another place q owned may move into place f of it.
Create(o, p) ==
  /\ o \notin alive
  /\ owns[p] = NULL
  /\ alive' = alive \cup {o}
  /\ \/ owns' = [owns EXCEPT ![p] = o]
     \/ \E q \in Places, f \in Places :
          /\ q # p
          /\ f \notin {p, q}
          /\ owns[f] = NULL
          /\ owns' = [owns EXCEPT ![p] = o, ![f] = owns[q], ![q] = NULL]
  /\ UNCHANGED borrows

\* A further owner of an alive object: clone, load_owned, upgrade, downgrade.
Share(o, p) ==
  /\ o \in alive
  /\ owns[p] = NULL
  /\ owns' = [owns EXCEPT ![p] = o]
  /\ UNCHANGED <<alive, borrows>>

Release(p) ==
  /\ owns[p] # NULL
  /\ owns' = [owns EXCEPT ![p] = NULL]
  /\ UNCHANGED <<alive, borrows>>

Exchange(p, q) ==
  /\ owns' = [owns EXCEPT ![p] = owns[q], ![q] = owns[p]]
  /\ UNCHANGED <<alive, borrows>>

\* p becomes a further owner of the alive object that q owns, and what p owned before
\* moves to r: a compare_and_set that installs an object.
Replace(p, q) ==
  /\ owns[q] \in alive
  /\ \E r \in Places :
       /\ r \notin {p, q}
       /\ owns[r] = NULL
       /\ owns' = [owns EXCEPT ![p] = owns[q], ![r] = owns[p]]
  /\ UNCHANGED <<alive, borrows>>

StartBorrow(o, r) ==
  /\ o \in alive
  /\ borrows[r] = NULL
  /\ borrows' = [borrows EXCEPT ![r] = o]
  /\ UNCHANGED <<alive, owns>>

EndBorrow(r) ==
  /\ borrows[r] # NULL
  /\ borrows' = [borrows EXCEPT ![r] = NULL]
  /\ UNCHANGED <<alive, owns>>

Reclaim(o) ==
  /\ o \in alive
  /\ ~Owned(o)
  /\ ~Borrowed(o)
  /\ alive' = alive \ {o}
  /\ UNCHANGED <<owns, borrows>>

Next ==
  \/ \E o \in Objects, p \in Places : Create(o, p)
  \/ \E o \in Objects, p \in Places : Share(o, p)
  \/ \E p \in Places : Release(p)
  \/ \E p \in Places, q \in Places : Exchange(p, q)
  \/ \E p \in Places, q \in Places : Replace(p, q)
  \/ \E o \in Objects, r \in Readers : StartBorrow(o, r)
  \/ \E r \in Readers : EndBorrow(r)
  \/ \E o \in Objects : Reclaim(o)

Spec == Init /\ [][Next]_vars
=============================================================================
