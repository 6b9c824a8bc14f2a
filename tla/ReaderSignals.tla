--------------------------- MODULE ReaderSignals ---------------------------
(***************************************************************************)
(* PerThreadSharedHazardData (src/src/atomic_sdarc.rs): the hazard pointer *)
(* slots and the critical section flag a reader thread publishes for the   *)
(* collector.                                                              *)
(*                                                                         *)
(* The thread writes them with plain stores and a light (compiler only)    *)
(* fence, so a store may sit in the thread's store buffer while its later  *)
(* loads already run.  "signals" is what the thread has stored, "visible"  *)
(* is what the collector would load: the two agree on a location after     *)
(* that store drains, which happens at any moment, and at the latest when  *)
(* membarrier2::heavy() makes the thread execute a full barrier.           *)
(***************************************************************************)
EXTENDS SdarcHeap

CONSTANTS
  Threads,   \* threads that use atomic pointers or weak references
  SlotCount  \* HZ_PTR_SLOT_COUNT

ASSUME SlotCountAssumption == SlotCount \in Nat \ {0}

ASSUME ThreadsAssumption == IsFiniteSet(Threads) /\ NULL \notin Threads

VARIABLES
  signals,  \* what each thread has stored
  visible,  \* what the collector reads
  guard     \* HazardPointerGuard in a slot: the location it was borrowed from

signalVars == <<signals, visible, guard>>

Slots == 0 .. SlotCount - 1

Signals == [slots : [Slots -> OptObject], flag : BOOLEAN]

\* A reader loads a pointer from a cell, or from the back_ref of the
\* WeakSdarcInner that a WeakSdarc handle owns.
Locations == Cells \cup Handles

SignalTypeOK ==
  /\ signals \in [Threads -> Signals]
  /\ visible \in [Threads -> Signals]
  /\ guard \in [Threads -> [Slots -> Locations \cup {NULL}]]

NoSignals == [slots |-> [i \in Slots |-> NULL], flag |-> FALSE]

SignalInit ==
  /\ signals = [t \in Threads |-> NoSignals]
  /\ visible = [t \in Threads |-> NoSignals]
  /\ guard = [t \in Threads |-> [i \in Slots |-> NULL]]

\* The object that the guard in slot i of t borrows.
GuardedBy(t, i, o) == guard[t][i] # NULL /\ signals[t].slots[i] = o

Guarded(o) == \E t \in Threads, i \in Slots : GuardedBy(t, i, o)

StoreSlot(t, i, p) == signals' = [signals EXCEPT ![t].slots[i] = p]

StoreFlag(t, b) == signals' = [signals EXCEPT ![t].flag = b]

\* One buffered store of t drains.
DrainSlot(t, i) ==
  /\ visible[t].slots[i] # signals[t].slots[i]
  /\ visible' = [visible EXCEPT ![t].slots[i] = signals[t].slots[i]]
  /\ UNCHANGED <<signals, guard>>

DrainFlag(t) ==
  /\ visible[t].flag # signals[t].flag
  /\ visible' = [visible EXCEPT ![t].flag = signals[t].flag]
  /\ UNCHANGED <<signals, guard>>

\* Mutant: the hazard slots are not collected.
NoHazard(t, i) == {}

\* What the collector loads from a hazard slot of t.
HazardIn(t, i) == {visible[t].slots[i]} \ {NULL}

\* Mutant: the critical section flag is not polled.
FlagIgnored(t) == TRUE

\* Mutant: the poll waits for the opposite value.
FlagReadsTrue(t) == visible[t].flag

\* collector_poll_until_false loads the flag of t and finds it false.
FlagReadsFalse(t) == ~visible[t].flag

\* Mutant: the pass has no heavy barrier.
NoBarrier(t) == UNCHANGED visible

\* The full barrier that membarrier2::heavy() makes thread t execute.
FullBarrier(t) == visible' = [visible EXCEPT ![t] = signals[t]]
=============================================================================
