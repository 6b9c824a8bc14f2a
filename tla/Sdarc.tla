------------------------------- MODULE Sdarc -------------------------------
(***************************************************************************)
(* User threads operating on Sdarc, WeakSdarc and AtomicNullableSdarc      *)
(* (src/src/sdarc.rs, weak_sdarc.rs, atomic_sdarc.rs) concurrently with    *)
(* the collector.                                                          *)
(*                                                                         *)
(* An operation that touches shared memory once is one action.  One that   *)
(* touches it several times is a sequence of steps of a thread, whose      *)
(* progress is op[t]; between two of its steps anything else may happen.   *)
(***************************************************************************)
EXTENDS Collector

CONSTANTS
  CasThreads,    \* threads that call compare_and_set
  BorrowThreads, \* threads that call borrow
  UsesSwap,      \* whether the program calls swap, store or drops a cell
  UsesNesting    \* whether the program stores an Sdarc inside another one

ASSUME RolesAssumption == CasThreads \cup BorrowThreads \subseteq Threads

ASSUME UsesAssumption == {UsesSwap, UsesNesting} \subseteq BOOLEAN

VARIABLE op  \* the operation each thread is in

vars == <<heapVars, signalVars, collectorVars, op>>

OpSteps == {"idle", "load", "increment", "exit", "publish", "reload",
            "fallback", "cas", "weakclone"}

\* pc:   the step the thread does next
\* loc:  the atomic pointer it works on, or the Sdarc it borrows
\* ptr:  the pointer it has loaded, or installed
\* dst:  the variable its result goes to
\* slot: the hazard slot it has published in
\* pins: handles it has borrowed, which cannot be moved or dropped meanwhile
Ops == [pc : OpSteps, loc : Locations \cup {NULL}, ptr : OptObject,
        dst : Handles \cup {NULL}, slot : Slots, pins : SUBSET Handles]

\* A call whose next step is pc.
Call(pc, loc, ptr, dst, pins) ==
  [pc |-> pc, loc |-> loc, ptr |-> ptr, dst |-> dst, slot |-> 0, pins |-> pins]

IdleOp == Call("idle", NULL, NULL, NULL, {})

TypeOK ==
  /\ HeapTypeOK
  /\ SignalTypeOK
  /\ CollectorTypeOK
  /\ op \in [Threads -> Ops]

Init ==
  /\ HeapInit
  /\ SignalInit
  /\ CollectorInit
  /\ op = [t \in Threads |-> IdleOp]

-----------------------------------------------------------------------------
\* What the borrow checker lets user code do with a handle.

\* Its value has been returned to the caller, if an operation produces it.
Returned(h) == \A t \in Threads : op[t].dst # h

Readable(h) == holds[h] # NULL /\ Returned(h)

Borrowed(h) ==
  \/ \E t \in Threads : h \in op[t].pins
  \/ \E t \in Threads, i \in Slots : guard[t][i] = h

Movable(h) == Readable(h) /\ ~Borrowed(h)

Vacant(h) == holds[h] = NULL /\ Returned(h) /\ ~Borrowed(h)

\* The objects reached from roots through the Sdarcs that their data owns.
Reachable(roots) ==
  {x \in Objects :
     \A closed \in SUBSET Objects :
       /\ roots \subseteq closed
       /\ \A y \in closed \cap Objects :
            holds[DataField(y)] # NULL => holds[DataField(y)] \in closed
       => x \in closed}

\* The objects user code can dereference right now.
Accessible ==
  Reachable({o \in Objects :
               Guarded(o) \/ \E h \in Handles : Readable(h) /\ holds[h] = o})

\* The Sdarcs (and WeakSdarcs) user code can call clone on.
CloneSources ==
  {h \in Handles : Readable(h)} \cup {DataField(x) : x \in Accessible}

\* The pointer an atomic load finds: AtomicNullableSdarc::inner_ptr, or
\* WeakSdarcInner::back_ref of the WeakSdarc in handle l.
PtrAt(l) == IF l \in Cells THEN holds[l] ELSE backRef[holds[l]]

\* l is a cell, or a handle with a WeakSdarc that a thread can borrow.  A WeakSdarc
\* inside another object's data is cloned into a handle first: upgrading or borrowing
\* it in its place, with the references that lead to it borrowed meanwhile, is left
\* out.
Loadable(l) == l \in Cells \/ (Readable(l) /\ kind[holds[l]] = "weak")

-----------------------------------------------------------------------------
\* Sdarc::new(value): o starts with count 1 on the current shard s and is
\* submitted on the shard p that is current a moment later.  If hc is a handle
\* its Sdarc (or WeakSdarc) moves into the value.
New(h, o, s, p, hc) ==
  /\ Vacant(h)
  /\ kind[o] = "unallocated"
  /\ hc # NULL => UsesNesting /\ Movable(hc)
  /\ kind' = [kind EXCEPT ![o] = "data"]
  /\ counters' = [counters EXCEPT ![o] = FreshCounters(s)]
  /\ holds' = [x \in Places |->
                 CASE x = h -> o
                   [] x = hc -> NULL
                   [] x = DataField(o) /\ hc # NULL -> holds[hc]
                   [] OTHER -> holds[x]]
  /\ Submit(o, p)
  /\ UNCHANGED <<backRef, signalVars, state, toRecheck, cpc, passVars, scanVars>>
  /\ UNCHANGED <<readVars, op>>

\* Clone for Sdarc and WeakSdarc.
Clone(src, h, s) ==
  /\ holds[src] # NULL
  /\ Vacant(h)
  /\ src \in CloneSources
  /\ Increment(holds[src], s)
  /\ holds' = [holds EXCEPT ![h] = holds[src]]
  /\ UNCHANGED <<kind, backRef, signalVars, collectorVars, op>>

\* Drop for Sdarc outside the collector thread, where on_sdarc_drop does nothing.
Drop(h, s) ==
  /\ Movable(h)
  /\ Decrement(holds[h], s)
  /\ holds' = [holds EXCEPT ![h] = NULL]
  /\ UNCHANGED <<kind, backRef, signalVars, collectorVars, op>>

\* AtomicNullableSdarc::swap.  store, and Drop of the cell, are a swap whose
\* result is dropped.
Swap(c, h) ==
  /\ UsesSwap
  /\ Movable(h) \/ Vacant(h)
  /\ holds[h] # NULL => kind[holds[h]] = "data"
  /\ holds' = [holds EXCEPT ![c] = holds[h], ![h] = holds[c]]
  /\ UNCHANGED <<kind, counters, backRef, signalVars, collectorVars, op>>

-----------------------------------------------------------------------------
\* Mutant: the new value is returned instead of the previous one.
InstalledTwice(c, n, dst) == [holds EXCEPT ![c] = holds[n], ![dst] = holds[n]]

\* The cell c has what n has, and its previous value is returned.
Installed(c, n, dst) == [holds EXCEPT ![c] = holds[n], ![dst] = holds[c]]

\* raw_compare_and_set(&m, &n), the successful compare_exchange.  A failed one
\* changes nothing.  The cell now owns a reference that nobody has counted yet.
CompareAndSet(t, c, m, n, dst) ==
  /\ t \in CasThreads
  /\ op[t] = IdleOp
  /\ Vacant(dst)
  /\ dst \notin {m, n}
  /\ \A h \in {m, n} : Returned(h)
  /\ \A h \in {m, n} : holds[h] # NULL => kind[holds[h]] = "data"
  /\ holds[c] = holds[m]
  /\ holds' = Installed(c, n, dst)
  /\ op' = [op EXCEPT ![t] =
              IF holds[n] = NULL THEN IdleOp
              ELSE Call("cas", c, holds[n], dst, {m, n})]
  /\ UNCHANGED <<kind, counters, backRef, signalVars, collectorVars>>

\* "increment counter to compensate", then compare_and_set returns.
CasIncrement(t, s) ==
  /\ op[t].pc = "cas"
  /\ Increment(op[t].ptr, s)
  /\ op' = [op EXCEPT ![t] = IdleOp]
  /\ UNCHANGED <<kind, holds, backRef, signalVars, collectorVars>>

-----------------------------------------------------------------------------
\* load_atomic_ptr_owned, called by AtomicNullableSdarc::load_owned, sync_to
\* and WeakSdarc::upgrade: the thread enters its reader critical section.
LoadOwned(t, l, dst) ==
  /\ op[t] = IdleOp
  /\ Loadable(l)
  /\ Vacant(dst)
  /\ StoreFlag(t, TRUE)
  /\ op' = [op EXCEPT ![t] = Call("load", l, NULL, dst, {l} \cap Handles)]
  /\ UNCHANGED <<heapVars, visible, guard, collectorVars>>

\* atomic_ptr.load(Acquire)
LoadPtr(t) ==
  LET p == PtrAt(op[t].loc) IN
  /\ op[t].pc = "load"
  /\ op' = [op EXCEPT ![t].pc = IF p = NULL THEN "exit" ELSE "increment",
                      ![t].ptr = p]
  /\ UNCHANGED <<heapVars, signalVars, collectorVars>>

LoadIncrement(t, s) ==
  /\ op[t].pc = "increment"
  /\ Increment(op[t].ptr, s)
  /\ holds' = [holds EXCEPT ![op[t].dst] = op[t].ptr]
  /\ op' = [op EXCEPT ![t].pc = "exit", ![t].ptr = NULL]
  /\ UNCHANGED <<kind, backRef, signalVars, collectorVars>>

\* The scope guard leaves the critical section and the result is returned.
LoadExit(t) ==
  /\ op[t].pc = "exit"
  /\ StoreFlag(t, FALSE)
  /\ op' = [op EXCEPT ![t] = IdleOp]
  /\ UNCHANGED <<heapVars, visible, guard, collectorVars>>

-----------------------------------------------------------------------------
\* borrow_from_atomic_ptr, called by AtomicNullableSdarc::borrow and
\* WeakSdarc::borrow: the pre-load.  Of a null pointer it returns None at once.
Borrow(t, l, dst) ==
  /\ t \in BorrowThreads
  /\ op[t] = IdleOp
  /\ Loadable(l)
  /\ Vacant(dst)
  /\ PtrAt(l) # NULL
  /\ op' = [op EXCEPT ![t] = Call("publish", l, PtrAt(l), dst, {l} \cap Handles)]
  /\ UNCHANGED <<heapVars, signalVars, collectorVars>>

FreeSlots(t) == {i \in Slots : signals[t].slots[i] = NULL}

\* try_publish_maybe_dangling_hazard_pointer: the first free slot, if any.
Publish(t) ==
  /\ op[t].pc = "publish"
  /\ \/ /\ FreeSlots(t) = {}
        /\ op' = [op EXCEPT ![t].pc = "fallback", ![t].ptr = NULL]
        /\ UNCHANGED signals
     \/ \E i \in FreeSlots(t) :
          /\ \A j \in FreeSlots(t) : i <= j
          /\ StoreSlot(t, i, op[t].ptr)
          /\ op' = [op EXCEPT ![t].pc = "reload", ![t].slot = i]
  /\ UNCHANGED <<heapVars, visible, guard, collectorVars>>

\* The re-load after the light fence: a guard if the pointer is still the same,
\* else the slot is cleared and the owned load is the fallback.
Reload(t) ==
  /\ op[t].pc = "reload"
  /\ IF PtrAt(op[t].loc) = op[t].ptr
       THEN /\ guard' = [guard EXCEPT ![t][op[t].slot] = op[t].loc]
            /\ op' = [op EXCEPT ![t] = IdleOp]
            /\ UNCHANGED signals
       ELSE /\ StoreSlot(t, op[t].slot, NULL)
            /\ op' = [op EXCEPT ![t].pc = "fallback", ![t].ptr = NULL, ![t].slot = 0]
            /\ UNCHANGED guard
  /\ UNCHANGED <<heapVars, visible, collectorVars>>

\* HazardBorrowErr: load_atomic_ptr_owned instead.
Fallback(t) ==
  /\ op[t].pc = "fallback"
  /\ StoreFlag(t, TRUE)
  /\ op' = [op EXCEPT ![t].pc = "load"]
  /\ UNCHANGED <<heapVars, visible, guard, collectorVars>>

\* Drop for HazardPointerGuard, which is neither Send nor Sync.
DropGuard(t, i) ==
  /\ op[t] = IdleOp
  /\ guard[t][i] # NULL
  /\ StoreSlot(t, i, NULL)
  /\ guard' = [guard EXCEPT ![t][i] = NULL]
  /\ UNCHANGED <<heapVars, visible, collectorVars, op>>

-----------------------------------------------------------------------------
\* Sdarc::downgrade of the Sdarc in the handle src; one inside another object's data
\* is cloned into a handle first.  The first downgrade allocates the WeakSdarcInner
\* w; other threads wait in get_or_init meanwhile.
Downgrade(t, src, dst, w, s, p) ==
  /\ op[t] = IdleOp
  /\ Readable(src)
  /\ kind[holds[src]] = "data"
  /\ Vacant(dst)
  /\ holds[WeakField(holds[src])] = NULL
  /\ kind[w] = "unallocated"
  /\ kind' = [kind EXCEPT ![w] = "weak"]
  /\ counters' = [counters EXCEPT ![w] = FreshCounters(s)]
  /\ backRef' = [backRef EXCEPT ![w] = holds[src]]
  /\ holds' = [holds EXCEPT ![WeakField(holds[src])] = w]
  /\ Submit(w, p)
  /\ op' = [op EXCEPT ![t] = Call("weakclone", src, NULL, dst, {src})]
  /\ UNCHANGED <<signalVars, state, toRecheck, cpc, passVars, scanVars, readVars>>

\* downgrade when weak_inner_ref is initialised already.
DowngradeAgain(t, src, dst) ==
  /\ op[t] = IdleOp
  /\ Readable(src)
  /\ kind[holds[src]] = "data"
  /\ Vacant(dst)
  /\ holds[WeakField(holds[src])] # NULL
  /\ op' = [op EXCEPT ![t] = Call("weakclone", src, NULL, dst, {src})]
  /\ UNCHANGED <<heapVars, signalVars, collectorVars>>

\* r.clone(), and downgrade returns.
WeakClone(t, s) ==
  LET w == holds[WeakField(holds[op[t].loc])] IN
  /\ op[t].pc = "weakclone"
  /\ Increment(w, s)
  /\ holds' = [holds EXCEPT ![op[t].dst] = w]
  /\ op' = [op EXCEPT ![t] = IdleOp]
  /\ UNCHANGED <<kind, backRef, signalVars, collectorVars>>

-----------------------------------------------------------------------------
\* Operations that need no per-thread progress.  Each works on the shard that
\* curr_shard_index returns: the CPU the thread happens to run on, or a hash of
\* its id, modulo the shard count.
HandleStep ==
  \/ \E h \in Handles, o \in DataObjects, s \in Shards, p \in Shards,
       hc \in Handles \cup {NULL} : New(h, o, s, p, hc)
  \/ \E src \in Places, h \in Handles, s \in Shards : Clone(src, h, s)
  \/ \E h \in Handles, s \in Shards : Drop(h, s)
  \/ \E c \in Cells, h \in Handles : Swap(c, h)

\* A thread starts an operation or ends a borrow.
CallStep(t) ==
  \/ \E c \in Cells, m \in Handles, n \in Handles, dst \in Handles :
       CompareAndSet(t, c, m, n, dst)
  \/ \E l \in Locations, dst \in Handles : LoadOwned(t, l, dst)
  \/ \E l \in Locations, dst \in Handles : Borrow(t, l, dst)
  \/ \E i \in Slots : DropGuard(t, i)
  \/ \E src \in Handles, dst \in Handles, w \in WeakObjects, s \in Shards, p \in Shards :
       Downgrade(t, src, dst, w, s, p)
  \/ \E src \in Handles, dst \in Handles : DowngradeAgain(t, src, dst)

\* A thread goes on with the operation it is in.
ContinueStep(t) ==
  \/ \E s \in Shards : CasIncrement(t, s)
  \/ LoadPtr(t)
  \/ \E s \in Shards : LoadIncrement(t, s)
  \/ LoadExit(t)
  \/ Publish(t)
  \/ Reload(t)
  \/ Fallback(t)
  \/ \E s \in Shards : WeakClone(t, s)

\* A buffered store reaches memory.
DrainStep(t) ==
  /\ DrainFlag(t) \/ \E i \in Slots : DrainSlot(t, i)
  /\ UNCHANGED <<heapVars, collectorVars, op>>

Next ==
  \/ HandleStep
  \/ \E t \in Threads : CallStep(t) \/ ContinueStep(t) \/ DrainStep(t)
  \/ CollectorStep /\ UNCHANGED op

Spec == Init /\ [][Next]_vars
=============================================================================
