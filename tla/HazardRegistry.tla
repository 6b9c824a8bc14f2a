--------------------------- MODULE HazardRegistry ---------------------------
(***************************************************************************)
(* SHARED_HAZARD_DATA (src/src/atomic_sdarc.rs): the list of per-thread    *)
(* hazard data.  A thread claims an entry whose owner has ended, or appends *)
(* one, when it first uses an atomic pointer, and gives it back when it    *)
(* ends, all without a lock and while the collector scans the list.        *)
(*                                                                         *)
(* Sdarc has a fixed set of readers: an entry of this list, whoever owns   *)
(* it, is such a reader.  This module shows what that takes: an entry has  *)
(* one owner at a time and is handed over clean, and an entry that a scan  *)
(* does not reach had nothing to show.  An entry has one hazard slot here, *)
(* and what a thread publishes in it is its own name.  As in ReaderSignals *)
(* a store may sit in a store buffer until the heavy barrier.              *)
(***************************************************************************)
EXTENDS Integers, FiniteSets

CONSTANTS
  Threads,    \* names of threads; a name may be used again after the thread ended
  MaxEntries, \* bound: the length of the list
  NULL

ASSUME RegistryAssumption == IsFiniteSet(Threads) /\ NULL \notin Threads /\ MaxEntries \in Nat

Entries == 0 .. MaxEntries - 1

VARIABLES
  reserved,  \* AppendOnlyVec: indexes given out to pushes
  count,     \* AppendOnlyVec: entries that readers of the list can see
  isUsed,    \* is_used of each entry
  stored,    \* slot and flag of each entry, as its owner has stored them
  visible,   \* and as other threads load them
  pc,        \* what each thread does
  entry,     \* the entry it looks at, or owns
  bound,     \* the length it read when it began to look
  cpc,       \* what the collector does in traverse_atomic_reader_signals
  waiting,   \* threads whose barrier is still to come
  cidx,      \* the entry it is at
  cbound,    \* the length it read when it began to scan
  seen,      \* hazard_ptr_set
  protected, \* history: threads with a slot published since the barrier began
  inside,    \* history: threads in a critical section since the barrier began
  mostAlive  \* history: the largest number of threads that had begun and not ended

listVars == <<reserved, count, isUsed>>
signalVars == <<stored, visible>>
threadVars == <<pc, entry, bound>>
collectorVars == <<cpc, waiting, cidx, cbound, seen>>
historyVars == <<protected, inside, mostAlive>>

vars == <<listVars, signalVars, threadVars, collectorVars, historyVars>>

Signals == [slot : Threads \cup {NULL}, flag : BOOLEAN]

NoSignals == [slot |-> NULL, flag |-> FALSE]

\* "off": the thread has not begun, or has ended.
ThreadSteps == {"off", "claim", "push", "ready"}

RegistryTypeOK ==
  /\ reserved \in 0 .. MaxEntries
  /\ count \in 0 .. MaxEntries
  /\ isUsed \in [Entries -> BOOLEAN]
  /\ stored \in [Entries -> Signals]
  /\ visible \in [Entries -> Signals]
  /\ pc \in [Threads -> ThreadSteps]
  /\ entry \in [Threads -> Nat]
  /\ bound \in [Threads -> Nat]
  /\ cpc \in {"idle", "barrier", "slot", "poll", "done"}
  /\ waiting \in SUBSET Threads
  /\ cidx \in Nat
  /\ cbound \in Nat
  /\ seen \in SUBSET Threads
  /\ protected \in SUBSET Threads
  /\ inside \in SUBSET Threads
  /\ mostAlive \in Nat

Init ==
  /\ reserved = 0
  /\ count = 0
  /\ isUsed = [e \in Entries |-> FALSE]
  /\ stored = [e \in Entries |-> NoSignals]
  /\ visible = [e \in Entries |-> NoSignals]
  /\ pc = [t \in Threads |-> "off"]
  /\ entry = [t \in Threads |-> 0]
  /\ bound = [t \in Threads |-> 0]
  /\ cpc = "idle"
  /\ waiting = {}
  /\ cidx = 0
  /\ cbound = 0
  /\ seen = {}
  /\ protected = {}
  /\ inside = {}
  /\ mostAlive = 0

Alive == {t \in Threads : pc[t] # "off"}

-----------------------------------------------------------------------------
\* obtain_per_thread_shared_hazard_data: the iterator reads the length once.
Begin(t) ==
  /\ pc[t] = "off"
  /\ pc' = [pc EXCEPT ![t] = "claim"]
  /\ bound' = [bound EXCEPT ![t] = count]
  /\ LET alive == Cardinality(Alive) + 1 IN
       mostAlive' = IF alive > mostAlive THEN alive ELSE mostAlive
  /\ UNCHANGED <<entry, listVars, signalVars, collectorVars, protected, inside>>

\* Mutant: the result of the swap is ignored, and every entry claimed.
Taken(t) == FALSE

\* What is_used.swap(true) returns.
OldIsUsed(t) == isUsed[entry[t]]

\* Mutant: the search passes every entry and reuses none.
NeverClaim(t) ==
  /\ pc[t] = "claim"
  /\ entry[t] < bound[t]
  /\ entry' = [entry EXCEPT ![t] = @ + 1]
  /\ UNCHANGED <<listVars, pc, bound, signalVars, collectorVars, historyVars>>

\* is_used.swap(true, Acquire): the entry is the thread's if nobody used it.
TryClaim(t) ==
  /\ pc[t] = "claim"
  /\ entry[t] < bound[t]
  /\ isUsed' = [isUsed EXCEPT ![entry[t]] = TRUE]
  /\ IF OldIsUsed(t)
       THEN entry' = [entry EXCEPT ![t] = @ + 1] /\ UNCHANGED pc
       ELSE pc' = [pc EXCEPT ![t] = "ready"] /\ UNCHANGED entry
  /\ UNCHANGED <<reserved, count, bound, signalVars, collectorVars, historyVars>>

\* SHARED_HAZARD_DATA.push: an index is reserved and the new entry written.
Reserve(t) ==
  /\ pc[t] = "claim"
  /\ entry[t] = bound[t]
  /\ reserved < MaxEntries
  /\ reserved' = reserved + 1
  /\ isUsed' = [isUsed EXCEPT ![reserved] = TRUE]
  /\ pc' = [pc EXCEPT ![t] = "push"]
  /\ entry' = [entry EXCEPT ![t] = reserved]
  /\ UNCHANGED <<count, bound, signalVars, collectorVars, historyVars>>

\* The push waits for the pushes before it and makes the entry visible.
Push(t) ==
  /\ pc[t] = "push"
  /\ count = entry[t]
  /\ count' = count + 1
  /\ pc' = [pc EXCEPT ![t] = "ready"]
  /\ UNCHANGED <<reserved, isUsed, entry, bound, signalVars, collectorVars, historyVars>>

\* release_hazard_data, when the thread ends.  A thread with a guard in a thread
\* local would panic here and abort the program, which is not a step of this model;
\* any other thread has dropped its guards and left its critical section.  The
\* Release swap comes after all its stores.
Release(t) ==
  /\ pc[t] = "ready"
  /\ stored[entry[t]] = NoSignals
  /\ isUsed' = [isUsed EXCEPT ![entry[t]] = FALSE]
  /\ visible' = [visible EXCEPT ![entry[t]] = stored[entry[t]]]
  /\ pc' = [pc EXCEPT ![t] = "off"]
  /\ entry' = [entry EXCEPT ![t] = 0]
  /\ bound' = [bound EXCEPT ![t] = 0]
  /\ waiting' = waiting \ {t}
  /\ UNCHANGED <<reserved, count, stored, cpc, cidx, cbound, seen, historyVars>>

-----------------------------------------------------------------------------
\* A ready thread publishes a hazard pointer or withdraws it, enters or leaves
\* its critical section.
Store(t, signals) ==
  /\ pc[t] = "ready"
  /\ stored' = [stored EXCEPT ![entry[t]] = signals]
  /\ UNCHANGED <<listVars, visible, threadVars, collectorVars, mostAlive>>

Publish(t) ==
  /\ stored[entry[t]].slot = NULL
  /\ Store(t, [stored[entry[t]] EXCEPT !.slot = t])
  /\ UNCHANGED <<protected, inside>>

Unpublish(t) ==
  /\ stored[entry[t]].slot # NULL
  /\ Store(t, [stored[entry[t]] EXCEPT !.slot = NULL])
  /\ protected' = protected \ {t}
  /\ UNCHANGED inside

Enter(t) ==
  /\ ~stored[entry[t]].flag
  /\ Store(t, [stored[entry[t]] EXCEPT !.flag = TRUE])
  /\ UNCHANGED <<protected, inside>>

Leave(t) ==
  /\ stored[entry[t]].flag
  /\ Store(t, [stored[entry[t]] EXCEPT !.flag = FALSE])
  /\ inside' = inside \ {t}
  /\ UNCHANGED protected

\* A buffered store reaches memory.
Drain(e) ==
  /\ \/ visible' = [visible EXCEPT ![e].slot = stored[e].slot]
     \/ visible' = [visible EXCEPT ![e].flag = stored[e].flag]
  /\ visible' # visible
  /\ UNCHANGED <<listVars, stored, threadVars, collectorVars, historyVars>>

-----------------------------------------------------------------------------
\* membarrier2::heavy() begins: every thread that runs now will execute a
\* barrier before it ends.
BeginBarrier ==
  /\ cpc = "idle"
  /\ cpc' = "barrier"
  /\ waiting' = Alive
  /\ protected' = {t \in Alive : pc[t] = "ready" /\ stored[entry[t]].slot = t}
  /\ inside' = {t \in Alive : pc[t] = "ready" /\ stored[entry[t]].flag}
  /\ UNCHANGED <<listVars, signalVars, threadVars, cidx, cbound, seen, mostAlive>>

Barrier(t) ==
  /\ cpc = "barrier"
  /\ t \in waiting
  /\ waiting' = waiting \ {t}
  /\ visible' = IF pc[t] = "ready"
                  THEN [visible EXCEPT ![entry[t]] = stored[entry[t]]] ELSE visible
  /\ UNCHANGED <<listVars, stored, threadVars, cpc, cidx, cbound, seen, historyVars>>

\* Mutant: the scan stops one entry short.
AllButLast == count - 1

\* The length that SHARED_HAZARD_DATA.iter() reads.
ScanBound == count

\* heavy() returns and traverse_all_hazard_datum begins.
BeginScan ==
  /\ cpc = "barrier"
  /\ waiting = {}
  /\ cidx' = 0
  /\ cbound' = ScanBound
  /\ cpc' = IF ScanBound > 0 THEN "slot" ELSE "done"
  /\ UNCHANGED <<listVars, signalVars, threadVars, waiting, seen, historyVars>>

\* load_acquire of the hazard slots of an entry, used or not.
ScanSlots ==
  /\ cpc = "slot"
  /\ seen' = seen \cup ({visible[cidx].slot} \ {NULL})
  /\ cpc' = "poll"
  /\ UNCHANGED <<listVars, signalVars, threadVars, waiting, cidx, cbound, historyVars>>

\* collector_poll_until_false returns.
Poll ==
  /\ cpc = "poll"
  /\ ~visible[cidx].flag
  /\ cidx' = cidx + 1
  /\ cpc' = IF cidx + 1 < cbound THEN "slot" ELSE "done"
  /\ UNCHANGED <<listVars, signalVars, threadVars, waiting, cbound, seen, historyVars>>

\* The pass uses the set and is over.
EndScan ==
  /\ cpc = "done"
  /\ cpc' = "idle"
  /\ seen' = {}
  /\ cidx' = 0
  /\ cbound' = 0
  /\ protected' = {}
  /\ inside' = {}
  /\ UNCHANGED <<listVars, signalVars, threadVars, waiting, mostAlive>>

ThreadStep(t) ==
  \/ Begin(t) \/ TryClaim(t) \/ Reserve(t) \/ Push(t) \/ Release(t)
  \/ Publish(t) \/ Unpublish(t) \/ Enter(t) \/ Leave(t)

Next ==
  \/ \E t \in Threads : ThreadStep(t)
  \/ \E e \in Entries : Drain(e)
  \/ BeginBarrier
  \/ \E t \in Threads : Barrier(t)
  \/ BeginScan
  \/ ScanSlots
  \/ Poll
  \/ EndScan

Spec == Init /\ [][Next]_vars

-----------------------------------------------------------------------------
Owns(t, e) == pc[t] \in {"push", "ready"} /\ entry[t] = e

\* Hazard data belongs to one thread at a time, is marked used while it does,
\* and is clean, also for the collector, when nobody has it: the next owner and
\* the scan never meet what a thread that ended has left behind.
HandoverIsClean ==
  \A e \in Entries :
    /\ \A t, u \in Threads : Owns(t, e) /\ Owns(u, e) => t = u
    /\ isUsed[e] <=> \E t \in Threads : Owns(t, e)
    /\ ~isUsed[e] => stored[e] = NoSignals /\ visible[e] = NoSignals

\* When the scan is over, every hazard pointer that was there when the barrier
\* began and still is has been seen, and every critical section of that time
\* has been left, although threads begin, end, reuse and append entries
\* meanwhile and the scan only goes as far as the list went when it started.
ScanCoversReaders == cpc = "done" => protected \subseteq seen /\ inside = {}

\* "Its size is as large as the max amount of threads that use atomic sdarc at
\* the same time" (atomic_sdarc.rs:551): an entry is appended only when the
\* threads really need it, even if entries are given back behind the search.
RegistryStaysSmall == reserved <= mostAlive

\* What does hold: threads that search with a length read long ago can each
\* append one entry too many, and no sequence of beginning and ending threads
\* makes the list grow beyond that.
RegistryIsBounded == mostAlive > 0 => reserved < 2 * mostAlive
=============================================================================
