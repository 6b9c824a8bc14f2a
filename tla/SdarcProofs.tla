---------------------------- MODULE SdarcProofs ----------------------------
(***************************************************************************)
(* Proofs about Sdarc, for every number of objects, handles, cells,        *)
(* threads, slots and shards: its variables keep their types, and every    *)
(* allocation is registered with the collector exactly once, from the      *)
(* moment it is allocated until the collector begins to free it.           *)
(***************************************************************************)
EXTENDS SdarcInvariant, TLAPS

\* The operations of tagged_counter.rs map words to words.
LEMMA CounterTypes ==
  /\ NewCounter \in Int
  /\ \A v \in Int : /\ RefCount(v) \in Int
                    /\ IncrementRefCount(v) \in Int
                    /\ DecrementRefCountAndSetTag(v) \in Int
                    /\ ClearTag(v) \in Int
BY DEF NewCounter, RefCount, IncrementRefCount, DecrementRefCountAndSetTag, SetTag,
       ClearTag

\* Increment, Decrement and FreshCounters keep the array of counter words typed.
LEMMA CounterSteps ==
  ASSUME counters \in [Objects -> [Shards -> Int]]
  PROVE  /\ \A o, s : Increment(o, s) => counters' \in [Objects -> [Shards -> Int]]
         /\ \A o, s : Decrement(o, s) => counters' \in [Objects -> [Shards -> Int]]
         /\ \A s : FreshCounters(s) \in [Shards -> Int]
<1>1. \A s : FreshCounters(s) \in [Shards -> Int]
  BY CounterTypes DEF FreshCounters
<1>2. ASSUME NEW o, NEW s, Increment(o, s)
      PROVE  counters' \in [Objects -> [Shards -> Int]]
  BY <1>2, CounterTypes DEF Increment
<1>3. ASSUME NEW o, NEW s, Decrement(o, s)
      PROVE  counters' \in [Objects -> [Shards -> Int]]
  BY <1>3, CounterTypes DEF Decrement
<1> QED BY <1>1, <1>2, <1>3

\* The places are disjoint from each other and from NULL.
LEMMA PlaceFacts ==
  /\ Handles \subseteq Places /\ Cells \subseteq Places /\ Fields \subseteq Places
  /\ Locations \subseteq Places
  /\ \A o \in Objects : WeakField(o) \in Fields /\ DataField(o) \in Fields
  /\ \A h \in Handles : h \notin Cells /\ h \notin Fields /\ h # NULL
  /\ \A c \in Cells : c \notin Fields /\ c # NULL
  /\ NULL \notin Objects /\ NULL \notin Places
BY DistinctAssumption DEF Places, Fields, Locations, WeakField, DataField

\* The record of a call.
LEMMA CallRecord ==
  ASSUME NEW pc \in OpSteps, NEW loc \in Locations \cup {NULL}, NEW ptr \in OptObject,
         NEW dst \in Handles \cup {NULL}, NEW pins \in SUBSET Handles
  PROVE  LET new == Call(pc, loc, ptr, dst, pins)
         IN  /\ new \in Ops
             /\ new.pc = pc /\ new.loc = loc /\ new.dst = dst /\ new.pins = pins
BY SlotCountAssumption DEF Call, Ops, Slots

\* A thread between two calls: the record is a legal one, with no result due and
\* nothing borrowed.
LEMMA IdleOpFacts ==
  /\ IdleOp \in Ops
  /\ IdleOp.pc = "idle" /\ IdleOp.dst = NULL /\ IdleOp.pins = {}
BY CallRecord DEF IdleOp, OpSteps, OptObject

\* A program that has not allocated anything yet, with the collector parked, is in a
\* state of the right type.
LEMMA InitTypeInv == Init => TypeInv
<1> SUFFICES ASSUME Init PROVE TypeInv
  OBVIOUS
<1> USE DEF Init
<1>1. HeapTypeOK
  BY CounterTypes DEF HeapInit, HeapTypeOK, Kinds, OptObject
<1>2. SignalTypeOK
  BY DEF SignalInit, SignalTypeOK, NoSignals, Signals, OptObject
<1>3. CollectorTypeOK
  <2>1. inner \in 0 .. MaxInner
    BY MaxInnerAssumption DEF CollectorInit
  <2>2. deep \in BOOLEAN
    BY DEF CollectorInit
  <2> QED
    BY <2>1, <2>2 DEF CollectorInit, CollectorTypeOK, TrackedStates, CollectorSteps, OptObject
<1>4. op \in [Threads -> Ops]
  BY IdleOpFacts
<1>5. LoopsReset
  BY DEF CollectorInit, LoopsReset
<1>6. CallsKeepBorrows
  BY IdleOpFacts DEF CallsKeepBorrows, LocationSteps
<1> QED BY <1>1, <1>2, <1>3, <1>4, <1>5, <1>6 DEF TypeInv, TypeOK


-----------------------------------------------------------------------------
\* A part that a step leaves alone keeps its type.
LEMMA KeepHeap == HeapTypeOK /\ UNCHANGED heapVars => HeapTypeOK'
BY DEF HeapTypeOK, heapVars

\* An operation that leaves the hazard slots, flags and guards alone keeps their types.
LEMMA KeepSignals == SignalTypeOK /\ UNCHANGED signalVars => SignalTypeOK'
BY DEF SignalTypeOK, signalVars

\* An operation that leaves the collector's variables alone keeps their types.
LEMMA KeepCollector ==
  CollectorTypeOK /\ LoopsReset /\ UNCHANGED collectorVars => CollectorTypeOK' /\ LoopsReset'
BY DEF CollectorTypeOK, LoopsReset, collectorVars, trackVars, passVars, scanVars, readVars

\* A step that changes no borrowed handle and starts no call keeps the borrows.
LEMMA BorrowsKept ==
  ASSUME TypeInv,
         \A h \in Handles : Borrowed(h) => holds'[h] = holds[h],
         UNCHANGED op
  PROVE  CallsKeepBorrows'
<1>1. \A t \in Threads : op[t].pins \subseteq Handles
  BY DEF TypeInv, TypeOK, Ops
<1> QED BY <1>1 DEF TypeInv, CallsKeepBorrows, Borrowed

\* The operations without per-thread progress keep the types.
LEMMA HandleTypeInv == TypeInv /\ HandleStep => TypeInv'
<1> SUFFICES ASSUME TypeInv, HandleStep PROVE TypeInv'
  OBVIOUS
<1>0. /\ HeapTypeOK /\ SignalTypeOK /\ CollectorTypeOK /\ LoopsReset
      /\ op \in [Threads -> Ops]
  BY DEF TypeInv, TypeOK
<1>1. ASSUME NEW h \in Handles, NEW o \in DataObjects, NEW s \in Shards, NEW p \in Shards,
             NEW hc \in Handles \cup {NULL}, New(h, o, s, p, hc)
      PROVE  TypeInv'
  <2>1. HeapTypeOK'
    BY <1>0, <1>1, CounterSteps, PlaceFacts
    DEF New, HeapTypeOK, Objects, OptObject, Kinds, Movable, Readable
  <2>2. CollectorTypeOK' /\ LoopsReset'
    BY <1>0, <1>1
    DEF New, Submit, CollectorTypeOK, LoopsReset, passVars, scanVars, readVars, Objects
  <2>3. \A x \in Handles : Borrowed(x) => holds'[x] = holds[x]
    BY <1>1, PlaceFacts DEF New, Vacant, Movable, Objects
  <2>4. CallsKeepBorrows'
    BY <1>1, <2>3, BorrowsKept DEF New
  <2> QED BY <1>0, <1>1, <2>1, <2>2, <2>4, KeepSignals DEF New, TypeInv, TypeOK
<1>2. ASSUME NEW src \in Places, NEW h \in Handles, NEW s \in Shards, Clone(src, h, s)
      PROVE  TypeInv'
  <2>1. HeapTypeOK'
    BY <1>0, <1>2, CounterSteps, PlaceFacts DEF Clone, HeapTypeOK
  <2>2. \A x \in Handles : Borrowed(x) => holds'[x] = holds[x]
    BY <1>0, <1>2 DEF Clone, Vacant, HeapTypeOK
  <2>3. CallsKeepBorrows'
    BY <1>2, <2>2, BorrowsKept DEF Clone
  <2> QED BY <1>0, <1>2, <2>1, <2>3, KeepSignals, KeepCollector DEF Clone, TypeInv, TypeOK
<1>3. ASSUME NEW h \in Handles, NEW s \in Shards, Drop(h, s)
      PROVE  TypeInv'
  <2>1. HeapTypeOK'
    BY <1>0, <1>3, CounterSteps, PlaceFacts DEF Drop, HeapTypeOK, OptObject
  <2>2. \A x \in Handles : Borrowed(x) => holds'[x] = holds[x]
    BY <1>0, <1>3 DEF Drop, Movable, HeapTypeOK
  <2>3. CallsKeepBorrows'
    BY <1>3, <2>2, BorrowsKept DEF Drop
  <2> QED BY <1>0, <1>3, <2>1, <2>3, KeepSignals, KeepCollector DEF Drop, TypeInv, TypeOK
<1>4. ASSUME NEW c \in Cells, NEW h \in Handles, Swap(c, h)
      PROVE  TypeInv'
  <2>1. HeapTypeOK'
    BY <1>0, <1>4, PlaceFacts DEF Swap, HeapTypeOK
  <2>2. \A x \in Handles : Borrowed(x) => holds'[x] = holds[x]
    BY <1>0, <1>4, PlaceFacts DEF Swap, Movable, Vacant, HeapTypeOK
  <2>3. CallsKeepBorrows'
    BY <1>4, <2>2, BorrowsKept DEF Swap
  <2> QED BY <1>0, <1>4, <2>1, <2>3, KeepSignals, KeepCollector DEF Swap, TypeInv, TypeOK
<1> QED BY <1>1, <1>2, <1>3, <1>4 DEF HandleStep

-----------------------------------------------------------------------------
\* A call that starts in an idle thread, with pins that nobody returns into and
\* a result variable that nobody has borrowed, keeps the borrows.
LEMMA CallStarts ==
  ASSUME TypeInv, NEW t \in Threads, NEW new \in Ops,
         op' = [op EXCEPT ![t] = new],
         new.pc \in LocationSteps =>
           \/ new.loc \in Cells /\ new.pc # "weakclone"
           \/ new.loc \in new.pins /\ holds'[new.loc] # NULL,
         \A h \in Handles : Borrowed(h) => holds'[h] = holds[h],
         \A h \in new.pins : Returned(h) /\ h # new.dst,
         new.dst # NULL => ~Borrowed(new.dst)
  PROVE  op' \in [Threads -> Ops] /\ CallsKeepBorrows'
<1>1. op \in [Threads -> Ops] /\ \A u \in Threads : op[u].pins \subseteq Handles
  BY DEF TypeInv, TypeOK, Ops
<1>2. op' \in [Threads -> Ops]
  BY <1>1
<1>3. new.pins \subseteq Handles /\ NULL \notin Handles
  BY PlaceFacts DEF Ops
<1>4. ASSUME NEW u \in Threads, op'[u].pc \in LocationSteps
      PROVE  \/ op'[u].loc \in Cells /\ op'[u].pc # "weakclone"
             \/ op'[u].loc \in op'[u].pins /\ holds'[op'[u].loc] # NULL
  BY <1>1, <1>4 DEF TypeInv, CallsKeepBorrows, Borrowed
<1>5. ASSUME NEW u \in Threads, NEW v \in Threads
      PROVE  op'[u].dst \notin op'[v].pins
  <2>1. CASE u = t /\ v = t
    BY <1>1, <2>1
  <2>2. CASE u = t /\ v # t
    BY <1>1, <1>3, <2>2 DEF Borrowed
  <2>3. CASE u # t /\ v = t
    BY <1>1, <2>3 DEF Returned
  <2>4. CASE u # t /\ v # t
    BY <1>1, <2>4 DEF TypeInv, CallsKeepBorrows
  <2> QED BY <2>1, <2>2, <2>3, <2>4
<1> QED BY <1>2, <1>4, <1>5 DEF CallsKeepBorrows

\* The steps that start a call, or end a borrow, keep the types.
LEMMA CallTypeInv == ASSUME TypeInv, NEW t \in Threads, CallStep(t) PROVE TypeInv'
<1>0. /\ HeapTypeOK /\ SignalTypeOK /\ CollectorTypeOK /\ LoopsReset
      /\ op \in [Threads -> Ops]
  BY DEF TypeInv, TypeOK
<1>1. ASSUME NEW c \in Cells, NEW m \in Handles, NEW n \in Handles, NEW dst \in Handles,
             CompareAndSet(t, c, m, n, dst)
      PROVE  TypeInv'
  <2> DEFINE new == IF holds[n] = NULL THEN IdleOp
                    ELSE Call("cas", c, holds[n], dst, {m, n})
  <2>1. HeapTypeOK'
    BY <1>0, <1>1, PlaceFacts DEF CompareAndSet, Installed, HeapTypeOK
  <2>2. /\ new \in Ops
        /\ new.pc \notin LocationSteps
        /\ new.pins \subseteq {m, n}
        /\ new.dst \in {NULL, dst}
    <3>1. CASE holds[n] = NULL
      BY <3>1, IdleOpFacts DEF LocationSteps
    <3>2. CASE holds[n] # NULL
      <4>1. new = Call("cas", c, holds[n], dst, {m, n})
        BY <3>2
      <4>2. holds[n] \in OptObject /\ {m, n} \in SUBSET Handles /\ "cas" \in OpSteps
           /\ c \in Locations
        BY <1>0, PlaceFacts DEF HeapTypeOK, OpSteps, Locations
      <4> HIDE DEF new
      <4> QED BY <3>2, <4>1, <4>2, CallRecord DEF LocationSteps
    <3> QED BY <3>1, <3>2
  <2>3. \A h \in Handles : Borrowed(h) => holds'[h] = holds[h]
    BY <1>0, <1>1, PlaceFacts DEF CompareAndSet, Installed, Vacant, HeapTypeOK
  <2>4. /\ \A h \in new.pins : Returned(h) /\ h # new.dst
        /\ new.dst # NULL => ~Borrowed(new.dst)
    <3> HIDE DEF new
    <3> QED BY <1>1, <2>2, PlaceFacts DEF CompareAndSet, Installed, Vacant
  <2>5. op' = [op EXCEPT ![t] = new]
    BY <1>1 DEF CompareAndSet, Installed
  <2>6. op' \in [Threads -> Ops] /\ CallsKeepBorrows'
    <3> HIDE DEF new
    <3> QED BY <2>2, <2>3, <2>4, <2>5, CallStarts
  <2> QED BY <1>0, <1>1, <2>1, <2>6, KeepSignals, KeepCollector
          DEF CompareAndSet, Installed, TypeInv, TypeOK
<1>2. ASSUME NEW l \in Locations, NEW dst \in Handles, LoadOwned(t, l, dst)
      PROVE  TypeInv'
  <2> DEFINE new == Call("load", l, NULL, dst, {l} \cap Handles)
  <2>1. SignalTypeOK'
    BY <1>0, <1>2 DEF LoadOwned, StoreFlag, SignalTypeOK, Signals
  <2>2. new \in Ops /\ new.loc = l /\ new.dst = dst /\ new.pins = {l} \cap Handles
        /\ new.pc = "load"
    BY CallRecord DEF OpSteps, OptObject
  <2>3. l \in Cells \/ (l \in Handles /\ holds[l] # NULL /\ Returned(l))
    BY <1>2 DEF LoadOwned, Loadable, Readable, Locations
  <2>4. /\ \A h \in {l} \cap Handles : Returned(h) /\ h # dst
        /\ ~Borrowed(dst)
    BY <1>2, <2>3, PlaceFacts DEF LoadOwned, Vacant
  <2>5. op' = [op EXCEPT ![t] = new] /\ UNCHANGED holds
    BY <1>2 DEF LoadOwned, heapVars
  <2>6. op' \in [Threads -> Ops] /\ CallsKeepBorrows'
    <3> HIDE DEF new
    <3> QED BY <2>2, <2>3, <2>4, <2>5, CallStarts
  <2> QED BY <1>0, <1>2, <2>1, <2>6, KeepHeap, KeepCollector DEF LoadOwned, TypeInv, TypeOK
<1>3. ASSUME NEW l \in Locations, NEW dst \in Handles, Borrow(t, l, dst)
      PROVE  TypeInv'
  <2> DEFINE new == Call("publish", l, PtrAt(l), dst, {l} \cap Handles)
  <2>1. l \in Cells \/ (l \in Handles /\ holds[l] # NULL /\ Returned(l))
    BY <1>3 DEF Borrow, Loadable, Readable, Locations
  <2>2. PtrAt(l) \in OptObject
    BY <1>0, <2>1, PlaceFacts DEF PtrAt, HeapTypeOK, OptObject
  <2>3. new \in Ops /\ new.loc = l /\ new.dst = dst /\ new.pins = {l} \cap Handles
        /\ new.pc = "publish"
    BY <2>2, CallRecord DEF OpSteps
  <2>4. /\ \A h \in {l} \cap Handles : Returned(h) /\ h # dst
        /\ ~Borrowed(dst)
    BY <1>3, <2>1, PlaceFacts DEF Borrow, Vacant
  <2>5. op' = [op EXCEPT ![t] = new] /\ UNCHANGED holds
    BY <1>3 DEF Borrow, heapVars
  <2>6. op' \in [Threads -> Ops] /\ CallsKeepBorrows'
    <3> HIDE DEF new
    <3> QED BY <2>1, <2>3, <2>4, <2>5, CallStarts
  <2> QED BY <1>0, <1>3, <2>6, KeepHeap, KeepSignals, KeepCollector
          DEF Borrow, TypeInv, TypeOK
<1>4. ASSUME NEW i \in Slots, DropGuard(t, i)
      PROVE  TypeInv'
  <2>1. SignalTypeOK'
    BY <1>0, <1>4 DEF DropGuard, StoreSlot, SignalTypeOK, Signals, OptObject
  <2>2. CallsKeepBorrows'
    BY <1>4, BorrowsKept DEF DropGuard, heapVars
  <2> QED BY <1>0, <1>4, <2>1, <2>2, KeepHeap, KeepCollector DEF DropGuard, TypeInv, TypeOK
<1>5. ASSUME NEW src \in Handles, NEW dst \in Handles, NEW w \in WeakObjects,
             NEW s \in Shards, NEW p \in Shards, Downgrade(t, src, dst, w, s, p)
      PROVE  TypeInv'
  <2> DEFINE new == Call("weakclone", src, NULL, dst, {src})
  <2>1. holds[src] \in Objects /\ Returned(src) /\ holds[src] # NULL
    BY <1>0, <1>5, PlaceFacts DEF Downgrade, Readable, HeapTypeOK, OptObject
  <2>2. HeapTypeOK'
    BY <1>0, <1>5, <2>1, CounterSteps, PlaceFacts
    DEF Downgrade, HeapTypeOK, Kinds, OptObject, Objects
  <2>3. CollectorTypeOK' /\ LoopsReset'
    BY <1>0, <1>5
    DEF Downgrade, Submit, CollectorTypeOK, LoopsReset, passVars, scanVars, readVars, Objects
  <2>4. new \in Ops /\ new.loc = src /\ new.dst = dst /\ new.pins = {src}
        /\ new.pc = "weakclone"
    BY CallRecord DEF OpSteps, OptObject, Locations
  <2>5. \A h \in Handles : holds'[h] = holds[h]
    BY <1>0, <1>5, <2>1, PlaceFacts DEF Downgrade, HeapTypeOK
  <2>6. src # dst /\ ~Borrowed(dst)
    BY <1>5, <2>1 DEF Downgrade, Vacant
  <2>7. op' = [op EXCEPT ![t] = new]
    BY <1>5 DEF Downgrade
  <2>8. op' \in [Threads -> Ops] /\ CallsKeepBorrows'
    <3> HIDE DEF new
    <3> QED BY <2>1, <2>4, <2>5, <2>6, <2>7, CallStarts
  <2> QED BY <1>0, <1>5, <2>2, <2>3, <2>8, KeepSignals DEF Downgrade, TypeInv, TypeOK
<1>6. ASSUME NEW src \in Handles, NEW dst \in Handles, DowngradeAgain(t, src, dst)
      PROVE  TypeInv'
  <2> DEFINE new == Call("weakclone", src, NULL, dst, {src})
  <2>1. new \in Ops /\ new.loc = src /\ new.dst = dst /\ new.pins = {src}
        /\ new.pc = "weakclone"
    BY CallRecord DEF OpSteps, OptObject, Locations
  <2>2. Returned(src) /\ holds[src] # NULL /\ src # dst /\ ~Borrowed(dst)
    BY <1>6 DEF DowngradeAgain, Readable, Vacant
  <2>3. op' = [op EXCEPT ![t] = new] /\ UNCHANGED holds
    BY <1>6 DEF DowngradeAgain, heapVars
  <2>4. op' \in [Threads -> Ops] /\ CallsKeepBorrows'
    <3> HIDE DEF new
    <3> QED BY <2>1, <2>2, <2>3, CallStarts
  <2> QED BY <1>0, <1>6, <2>4, KeepHeap, KeepSignals, KeepCollector
          DEF DowngradeAgain, TypeInv, TypeOK
<1> QED BY <1>1, <1>2, <1>3, <1>4, <1>5, <1>6 DEF CallStep

-----------------------------------------------------------------------------
\* A call that goes on, or returns, keeps the borrows.
LEMMA CallGoesOn ==
  ASSUME TypeInv, NEW t \in Threads,
         op' \in [Threads -> Ops],
         \A u \in Threads \ {t} : op'[u] = op[u],
         op'[t].pc \in LocationSteps =>
           /\ op[t].pc \in LocationSteps \ {"weakclone"}
           /\ op'[t].pc # "weakclone"
           /\ op'[t].loc = op[t].loc
           /\ op'[t].pins = op[t].pins,
         op'[t].pins \subseteq op[t].pins,
         op'[t].dst \in {op[t].dst, NULL},
         \A u \in Threads : \A h \in op[u].pins : holds'[h] = holds[h]
  PROVE  CallsKeepBorrows'
<1>1. \A u \in Threads : op[u].pins \subseteq Handles
  BY DEF TypeInv, TypeOK, Ops
<1>2. ASSUME NEW u \in Threads, op'[u].pc \in LocationSteps
      PROVE  \/ op'[u].loc \in Cells /\ op'[u].pc # "weakclone"
             \/ op'[u].loc \in op'[u].pins /\ holds'[op'[u].loc] # NULL
  BY <1>2 DEF TypeInv, CallsKeepBorrows
<1>3. ASSUME NEW u \in Threads, NEW v \in Threads
      PROVE  op'[u].dst \notin op'[v].pins
  BY <1>1, PlaceFacts DEF TypeInv, CallsKeepBorrows
<1> QED BY <1>2, <1>3 DEF CallsKeepBorrows

\* A call that writes its result writes no borrowed handle.
LEMMA ResultIsNotBorrowed ==
  ASSUME TypeInv, NEW t \in Threads, NEW x,
         holds' = [holds EXCEPT ![op[t].dst] = x]
  PROVE  \A u \in Threads : \A h \in op[u].pins : holds'[h] = holds[h]
BY PlaceFacts DEF TypeInv, TypeOK, HeapTypeOK, Ops, CallsKeepBorrows

\* The pointer a call loads is typed.
LEMMA LoadedPointer ==
  ASSUME TypeInv, NEW t \in Threads, op[t].pc \in LocationSteps \ {"weakclone"}
  PROVE  PtrAt(op[t].loc) \in OptObject
<1>1. \/ op[t].loc \in Cells
      \/ op[t].loc \in Handles /\ holds[op[t].loc] # NULL
  BY DEF TypeInv, TypeOK, Ops, CallsKeepBorrows
<1> QED BY <1>1, PlaceFacts DEF TypeInv, TypeOK, HeapTypeOK, PtrAt, OptObject

\* A store to a hazard slot, and the draining of one, keep the signals typed.
LEMMA SlotTypes ==
  ASSUME NEW f \in [Threads -> Signals], NEW t \in Threads, NEW i \in Slots,
         NEW p \in OptObject
  PROVE  [f EXCEPT ![t].slots[i] = p] \in [Threads -> Signals]
<1> DEFINE new == [f[t] EXCEPT !.slots[i] = p]
<1>1. f[t].slots \in [Slots -> OptObject] /\ f[t] \in Signals
  BY DEF Signals
<1>2. [f[t].slots EXCEPT ![i] = p] \in [Slots -> OptObject]
  BY <1>1
<1>3. new = [f[t] EXCEPT !.slots = [f[t].slots EXCEPT ![i] = p]]
  OBVIOUS
<1>4. new \in Signals
  BY <1>1, <1>2, <1>3 DEF Signals
<1>5. [f EXCEPT ![t].slots[i] = p] = [f EXCEPT ![t] = new]
  OBVIOUS
<1> QED BY <1>4, <1>5

\* What a thread stores in a hazard slot keeps its signals well-typed.
LEMMA StoreSlotTypes ==
  ASSUME SignalTypeOK, NEW t \in Threads, NEW i \in Slots, NEW p \in OptObject,
         StoreSlot(t, i, p)
  PROVE  signals' \in [Threads -> Signals]
BY SlotTypes DEF StoreSlot, SignalTypeOK

\* The steps of a call under way keep the types.
LEMMA ContinueTypeInv == ASSUME TypeInv, NEW t \in Threads, ContinueStep(t) PROVE TypeInv'
<1>0. /\ HeapTypeOK /\ SignalTypeOK /\ CollectorTypeOK /\ LoopsReset
      /\ op \in [Threads -> Ops]
  BY DEF TypeInv, TypeOK
<1>1. ASSUME NEW s \in Shards, CasIncrement(t, s)
      PROVE  TypeInv'
  <2>1. HeapTypeOK'
    BY <1>0, <1>1, CounterSteps DEF CasIncrement, HeapTypeOK
  <2>2. op' \in [Threads -> Ops] /\ op'[t] = IdleOp
    BY <1>0, <1>1, IdleOpFacts DEF CasIncrement
  <2>3. CallsKeepBorrows'
    BY <1>0, <1>1, <2>2, IdleOpFacts, CallGoesOn DEF CasIncrement, LocationSteps
  <2> QED BY <1>0, <1>1, <2>1, <2>2, <2>3, KeepSignals, KeepCollector
          DEF CasIncrement, TypeInv, TypeOK
<1>2. CASE LoadPtr(t)
  <2>1. PtrAt(op[t].loc) \in OptObject
    BY <1>2, LoadedPointer DEF LoadPtr, LocationSteps
  <2>2. /\ op' \in [Threads -> Ops]
        /\ op'[t].pins = op[t].pins /\ op'[t].dst = op[t].dst
        /\ op'[t].pc \in {"exit", "increment"}
    <3> DEFINE next == IF PtrAt(op[t].loc) = NULL THEN "exit" ELSE "increment"
    <3>1. next \in OpSteps /\ next \in {"exit", "increment"}
      BY DEF OpSteps
    <3>2. op' = [op EXCEPT ![t].pc = next, ![t].ptr = PtrAt(op[t].loc)]
      BY <1>2 DEF LoadPtr
    <3> HIDE DEF next
    <3> QED BY <1>0, <2>1, <3>1, <3>2 DEF Ops
  <2>3. CallsKeepBorrows'
    BY <1>0, <1>2, <2>2, CallGoesOn DEF LoadPtr, LocationSteps, heapVars
  <2> QED BY <1>0, <1>2, <2>2, <2>3, KeepHeap, KeepSignals, KeepCollector
          DEF LoadPtr, TypeInv, TypeOK
<1>3. ASSUME NEW s \in Shards, LoadIncrement(t, s)
      PROVE  TypeInv'
  <2>1. op[t].ptr \in OptObject
    BY <1>0 DEF Ops
  <2>2. HeapTypeOK'
    BY <1>0, <1>3, <2>1, CounterSteps DEF LoadIncrement, HeapTypeOK
  <2>3. /\ op' \in [Threads -> Ops]
        /\ op'[t].pins = op[t].pins /\ op'[t].dst = op[t].dst /\ op'[t].pc = "exit"
    <3> DEFINE new == [op[t] EXCEPT !.pc = "exit", !.ptr = NULL]
    <3>1. /\ new \in Ops
          /\ new.pins = op[t].pins /\ new.dst = op[t].dst /\ new.pc = "exit"
      BY <1>0 DEF Ops, OpSteps, OptObject
    <3>2. op' = [op EXCEPT ![t] = new]
      BY <1>3 DEF LoadIncrement
    <3> HIDE DEF new
    <3> QED BY <1>0, <3>1, <3>2
  <2>4. CallsKeepBorrows'
    BY <1>0, <1>3, <2>3, CallGoesOn, ResultIsNotBorrowed DEF LoadIncrement, LocationSteps
  <2> QED BY <1>0, <1>3, <2>2, <2>3, <2>4, KeepSignals, KeepCollector
          DEF LoadIncrement, TypeInv, TypeOK
<1>4. CASE LoadExit(t)
  <2>1. SignalTypeOK'
    BY <1>0, <1>4 DEF LoadExit, StoreFlag, SignalTypeOK, Signals
  <2>2. op' \in [Threads -> Ops] /\ op'[t] = IdleOp
    BY <1>0, <1>4, IdleOpFacts DEF LoadExit
  <2>3. CallsKeepBorrows'
    BY <1>0, <1>4, <2>2, IdleOpFacts, CallGoesOn DEF LoadExit, LocationSteps, heapVars
  <2> QED BY <1>0, <1>4, <2>1, <2>2, <2>3, KeepHeap, KeepCollector
          DEF LoadExit, TypeInv, TypeOK
<1>5. CASE Publish(t)
  <2>1. SignalTypeOK'
    <3>1. op[t].ptr \in OptObject
      BY <1>0 DEF Ops
    <3>2. signals' \in [Threads -> Signals]
      BY <1>0, <1>5, <3>1, StoreSlotTypes DEF Publish, FreeSlots, SignalTypeOK
    <3> QED BY <1>0, <1>5, <3>2 DEF Publish, SignalTypeOK
  <2>2. /\ op' \in [Threads -> Ops]
        /\ op'[t].pins = op[t].pins /\ op'[t].dst = op[t].dst /\ op'[t].loc = op[t].loc
        /\ op'[t].pc \in {"fallback", "reload"}
    BY <1>0, <1>5 DEF Publish, FreeSlots, Ops, OpSteps, OptObject
  <2>3. CallsKeepBorrows'
    BY <1>0, <1>5, <2>2, CallGoesOn DEF Publish, LocationSteps, heapVars
  <2> QED BY <1>0, <1>5, <2>1, <2>2, <2>3, KeepHeap, KeepCollector
          DEF Publish, TypeInv, TypeOK
<1>6. CASE Reload(t)
  <2>1. op[t].loc \in Locations
    BY <1>0, <1>6, PlaceFacts
    DEF Reload, TypeInv, CallsKeepBorrows, LocationSteps, Ops, Locations
  <2>2. SignalTypeOK'
    <3>1. op[t].slot \in Slots /\ NULL \in OptObject
      BY <1>0 DEF Ops, OptObject
    <3>2. signals' \in [Threads -> Signals]
      BY <1>0, <1>6, <3>1, StoreSlotTypes DEF Reload, SignalTypeOK
    <3>3. guard' \in [Threads -> [Slots -> Locations \cup {NULL}]]
      BY <1>0, <1>6, <2>1, <3>1 DEF Reload, SignalTypeOK
    <3> QED BY <1>0, <1>6, <3>2, <3>3 DEF Reload, SignalTypeOK
  <2>3. CASE PtrAt(op[t].loc) = op[t].ptr
    <3>1. op' \in [Threads -> Ops] /\ op'[t] = IdleOp
      BY <1>0, <1>6, <2>3, IdleOpFacts DEF Reload
    <3>2. CallsKeepBorrows'
      BY <1>0, <1>6, <2>3, <3>1, IdleOpFacts, CallGoesOn DEF Reload, LocationSteps, heapVars
    <3> QED BY <1>0, <1>6, <2>2, <3>1, <3>2, KeepHeap, KeepCollector
            DEF Reload, TypeInv, TypeOK
  <2>4. CASE PtrAt(op[t].loc) # op[t].ptr
    <3>1. /\ op' \in [Threads -> Ops]
          /\ op'[t].pins = op[t].pins /\ op'[t].dst = op[t].dst /\ op'[t].loc = op[t].loc
          /\ op'[t].pc = "fallback"
      BY <1>0, <1>6, <2>4, SlotCountAssumption DEF Reload, Ops, OpSteps, OptObject, Slots
    <3>2. CallsKeepBorrows'
      BY <1>0, <1>6, <2>4, <3>1, CallGoesOn DEF Reload, LocationSteps, heapVars
    <3> QED BY <1>0, <1>6, <2>2, <3>1, <3>2, KeepHeap, KeepCollector
            DEF Reload, TypeInv, TypeOK
  <2> QED BY <2>3, <2>4
<1>7. CASE Fallback(t)
  <2>1. SignalTypeOK'
    BY <1>0, <1>7 DEF Fallback, StoreFlag, SignalTypeOK, Signals
  <2>2. /\ op' \in [Threads -> Ops]
        /\ op'[t].pins = op[t].pins /\ op'[t].dst = op[t].dst /\ op'[t].loc = op[t].loc
        /\ op'[t].pc = "load"
    BY <1>0, <1>7 DEF Fallback, Ops, OpSteps
  <2>3. CallsKeepBorrows'
    BY <1>0, <1>7, <2>2, CallGoesOn DEF Fallback, LocationSteps, heapVars
  <2> QED BY <1>0, <1>7, <2>1, <2>2, <2>3, KeepHeap, KeepCollector
          DEF Fallback, TypeInv, TypeOK
<1>8. ASSUME NEW s \in Shards, WeakClone(t, s)
      PROVE  TypeInv'
  <2> DEFINE w == holds[WeakField(holds[op[t].loc])]
  <2>1. w \in OptObject
    <3>1. op[t].loc \in Handles /\ holds[op[t].loc] # NULL
      BY <1>0, <1>8 DEF WeakClone, TypeInv, CallsKeepBorrows, LocationSteps, Ops
    <3>2. holds[op[t].loc] \in Objects
      BY <1>0, <3>1, PlaceFacts DEF HeapTypeOK, OptObject
    <3> QED BY <1>0, <3>2, PlaceFacts DEF HeapTypeOK
  <2>2. HeapTypeOK'
    BY <1>0, <1>8, <2>1, CounterSteps DEF WeakClone, HeapTypeOK
  <2>3. op' \in [Threads -> Ops] /\ op'[t] = IdleOp
    BY <1>0, <1>8, IdleOpFacts DEF WeakClone
  <2>4. CallsKeepBorrows'
    BY <1>0, <1>8, <2>3, IdleOpFacts, CallGoesOn, ResultIsNotBorrowed
    DEF WeakClone, LocationSteps
  <2> QED BY <1>0, <1>8, <2>2, <2>3, <2>4, KeepSignals, KeepCollector
          DEF WeakClone, TypeInv, TypeOK
<1> QED BY <1>1, <1>2, <1>3, <1>4, <1>5, <1>6, <1>7, <1>8 DEF ContinueStep

\* A store that leaves the store buffer keeps the types.
LEMMA DrainTypeInv == ASSUME TypeInv, NEW t \in Threads, DrainStep(t) PROVE TypeInv'
<1>0. /\ HeapTypeOK /\ SignalTypeOK /\ CollectorTypeOK /\ LoopsReset
      /\ op \in [Threads -> Ops]
  BY DEF TypeInv, TypeOK
<1>1. SignalTypeOK'
  <2>1. CASE DrainFlag(t)
    BY <1>0, <2>1 DEF DrainFlag, SignalTypeOK, Signals
  <2>2. ASSUME NEW i \in Slots, DrainSlot(t, i)
        PROVE  SignalTypeOK'
    <3>1. signals[t].slots[i] \in OptObject
      BY <1>0 DEF SignalTypeOK, Signals
    <3> QED BY <1>0, <2>2, <3>1, SlotTypes DEF DrainSlot, SignalTypeOK
  <2> QED BY <2>1, <2>2 DEF DrainStep
<1>2. CallsKeepBorrows'
  BY BorrowsKept DEF DrainStep, heapVars
<1> QED BY <1>0, <1>1, <1>2, KeepHeap, KeepCollector DEF DrainStep, TypeInv, TypeOK

-----------------------------------------------------------------------------
\* The verdict of update_state on the object being updated keeps the types.
LEMMA ConcludeTypes ==
  ASSUME CollectorTypeOK, LoopsReset, cpc # "scan", NEW s \in TrackedStates, obj \in Objects,
         Conclude(obj, s),
         UNCHANGED <<pending, toRecheck, scanVars, deep, inner, hazards, todo>>
  PROVE  CollectorTypeOK' /\ LoopsReset'
<1>1. newRecheck' \in SUBSET Objects /\ toFree' \in SUBSET Objects
  BY DEF Conclude, CollectorTypeOK
<1>2. state' \in [Objects -> TrackedStates]
  BY DEF Conclude, CollectorTypeOK
<1>3. LoopsReset'
  BY DEF Conclude, LoopsReset, scanVars
<1> QED BY <1>1, <1>2, <1>3 DEF Conclude, CollectorTypeOK, CollectorSteps, OptObject, scanVars

\* One more shard in a loop over the shards.
LEMMA NextShard == \A i \in Shards : i # LastShard => i + 1 \in Shards
BY ShardCountAssumption DEF Shards, LastShard

\* There is a first shard: get_shard_count is at least 1.
LEMMA FirstShard == 0 \in Shards
BY ShardCountAssumption DEF Shards

\* Every step of the collector keeps the types.
LEMMA CollectorTypeInv ==
  ASSUME TypeInv, CollectorStep, UNCHANGED op PROVE TypeInv'
<1>0. /\ HeapTypeOK /\ SignalTypeOK /\ CollectorTypeOK /\ LoopsReset
      /\ op \in [Threads -> Ops] /\ op' \in [Threads -> Ops]
  BY DEF TypeInv, TypeOK
<1>k. ASSUME UNCHANGED holds PROVE CallsKeepBorrows'
  BY <1>k, BorrowsKept
<1>1. CASE BeginOuter
  <2>1. deep' \in BOOLEAN
    BY <1>1 DEF BeginOuter
  <2>2. CollectorTypeOK' /\ LoopsReset'
    BY <1>0, <1>1, <2>1, FirstShard, MaxInnerAssumption
    DEF BeginOuter, CollectorTypeOK, LoopsReset, CollectorSteps, trackVars, scanVars
  <2> QED BY <1>0, <1>1, <1>k, <2>2, KeepHeap, KeepSignals
          DEF BeginOuter, TypeInv, TypeOK, heapVars
<1>2. CASE TakeNew
  <2>1. /\ pending' \in [Shards -> SUBSET Objects]
        /\ state' \in [Objects -> TrackedStates]
    BY <1>0, <1>2 DEF TakeNew, CollectorTypeOK, TrackedStates
  <2>2. CollectorTypeOK' /\ LoopsReset'
    <3>1. CASE idx = LastShard
      BY <1>0, <1>2, <2>1, <3>1
      DEF TakeNew, StartPass, CollectorTypeOK, LoopsReset, CollectorSteps
    <3>2. CASE idx # LastShard
      BY <1>0, <1>2, <2>1, <3>2, NextShard DEF TakeNew, CollectorTypeOK, LoopsReset
    <3> QED BY <3>1, <3>2
  <2> QED BY <1>0, <1>2, <1>k, <2>2, KeepHeap, KeepSignals
          DEF TakeNew, TypeInv, TypeOK, heapVars
<1>3. ASSUME NEW t \in Threads, Barrier(t)
      PROVE  TypeInv'
  <2>1. SignalTypeOK'
    BY <1>0, <1>3 DEF Barrier, FullBarrier, SignalTypeOK
  <2>2. CollectorTypeOK' /\ LoopsReset'
    <3>1. CASE waiting = {t}
      BY <1>0, <1>3, <3>1, SlotCountAssumption
      DEF Barrier, CollectorTypeOK, LoopsReset, CollectorSteps, trackVars, passVars, readVars
    <3>2. CASE waiting # {t}
      BY <1>0, <1>3, <3>2
      DEF Barrier, CollectorTypeOK, LoopsReset, trackVars, passVars, readVars
    <3> QED BY <3>1, <3>2
  <2> QED BY <1>0, <1>3, <1>k, <2>1, <2>2, KeepHeap DEF Barrier, TypeInv, TypeOK, heapVars
<1>4. ASSUME NEW t \in Threads, ScanSlot(t)
      PROVE  TypeInv'
  <2>1. hazards' \in SUBSET Objects
    <3>1. idx \in Slots
      BY <1>0, <1>4, SlotCountAssumption DEF ScanSlot, CollectorTypeOK, Slots
    <3>2. visible[t].slots[idx] \in OptObject
      BY <1>0, <3>1 DEF SignalTypeOK, Signals
    <3> QED BY <1>0, <1>4, <3>2 DEF ScanSlot, HazardIn, CollectorTypeOK, OptObject
  <2>2. CollectorTypeOK' /\ LoopsReset'
    BY <1>0, <1>4, <2>1, SlotCountAssumption
    DEF ScanSlot, CollectorTypeOK, LoopsReset, trackVars
  <2> QED BY <1>0, <1>4, <1>k, <2>2, KeepHeap, KeepSignals
          DEF ScanSlot, TypeInv, TypeOK, heapVars
<1>5. ASSUME NEW t \in Threads, Poll(t)
      PROVE  TypeInv'
  <2>1. CollectorTypeOK' /\ LoopsReset'
    BY <1>0, <1>5, SlotCountAssumption
    DEF Poll, CollectorTypeOK, LoopsReset, CollectorSteps, trackVars, passVars
  <2> QED BY <1>0, <1>5, <1>k, <2>1, KeepHeap, KeepSignals
          DEF Poll, TypeInv, TypeOK, heapVars
<1>6. ASSUME NEW o \in Objects, SkipUntracked(o) \/ KeepHazardous(o)
      PROVE  TypeInv'
  <2>1. CollectorTypeOK' /\ LoopsReset'
    BY <1>0, <1>6
    DEF SkipUntracked, KeepHazardous, CollectorTypeOK, LoopsReset, TrackedStates,
        trackVars, scanVars, readVars
  <2> QED BY <1>0, <1>6, <1>k, <2>1, KeepHeap, KeepSignals
          DEF SkipUntracked, KeepHazardous, TypeInv, TypeOK, heapVars
<1>7. ASSUME NEW o \in Objects, UpdateState(o)
      PROVE  TypeInv'
  <2>1. CollectorTypeOK' /\ LoopsReset'
    BY <1>0, <1>7, FirstShard
    DEF UpdateState, CollectorTypeOK, LoopsReset, CollectorSteps, OptObject,
        trackVars, scanVars
  <2> QED BY <1>0, <1>7, <1>k, <2>1, KeepHeap, KeepSignals
          DEF UpdateState, TypeInv, TypeOK, heapVars
<1>8. CASE Precheck
  <2> DEFINE total == sum + RefCount(counters[obj][idx])
  <2>1. obj \in Objects /\ idx \in Shards /\ total \in Int
    BY <1>0, <1>8, CounterTypes DEF Precheck, CollectorTypeOK, HeapTypeOK
  <2>2. CollectorTypeOK' /\ LoopsReset'
    <3>1. CASE idx # LastShard
      BY <1>0, <1>8, <2>1, <3>1, NextShard
      DEF Precheck, CollectorTypeOK, LoopsReset, scanVars
    <3>2. CASE idx = LastShard /\ total # 0
      BY <1>0, <1>8, <2>1, <3>2, ConcludeTypes DEF Precheck, TrackedStates
    <3>3. CASE idx = LastShard /\ total = 0
      BY <1>0, <1>8, <2>1, <3>3, FirstShard
      DEF Precheck, CollectorTypeOK, LoopsReset, CollectorSteps, scanVars
    <3> QED BY <3>1, <3>2, <3>3
  <2> QED BY <1>0, <1>8, <1>k, <2>2, KeepHeap, KeepSignals
          DEF Precheck, TypeInv, TypeOK, heapVars
<1>9. CASE ClearTags
  <2> DEFINE total == sum + RefCount(counters[obj][idx])
  <2>1. obj \in Objects /\ idx \in Shards /\ total \in Int
    BY <1>0, <1>9, CounterTypes DEF ClearTags, CollectorTypeOK, HeapTypeOK
  <2>2. HeapTypeOK'
    BY <1>0, <1>9, <2>1, CounterTypes DEF ClearTags, HeapTypeOK
  <2>3. CollectorTypeOK' /\ LoopsReset'
    <3>1. CASE idx # LastShard
      BY <1>0, <1>9, <2>1, <3>1, NextShard
      DEF ClearTags, CollectorTypeOK, LoopsReset, scanVars
    <3>2. CASE idx = LastShard
      <4>1. AfterClear(total) \in TrackedStates
        BY DEF AfterClear, TrackedStates
      <4> QED BY <1>0, <1>9, <2>1, <3>2, <4>1, ConcludeTypes DEF ClearTags
    <3> QED BY <3>1, <3>2
  <2> QED BY <1>0, <1>9, <1>k, <2>2, <2>3, KeepSignals DEF ClearTags, TypeInv, TypeOK
<1>10. CASE Recheck
  <2> DEFINE total == sum + RefCount(counters[obj][idx])
  <2>1. obj \in Objects /\ idx \in Shards /\ total \in Int
    BY <1>0, <1>10, CounterTypes DEF Recheck, CollectorTypeOK, HeapTypeOK
  <2>2. CollectorTypeOK' /\ LoopsReset'
    <3>1. CASE Tag(counters[obj][idx]) \/ (idx = LastShard /\ total # 0)
      BY <1>0, <1>10, <2>1, <3>1, ConcludeTypes DEF Recheck, TrackedStates
    <3>2. CASE ~Tag(counters[obj][idx]) /\ idx # LastShard
      BY <1>0, <1>10, <2>1, <3>2, NextShard
      DEF Recheck, CollectorTypeOK, LoopsReset, scanVars
    <3>3. CASE ~Tag(counters[obj][idx]) /\ idx = LastShard /\ total = 0
      BY <1>0, <1>10, <2>1, <3>3
      DEF Recheck, CollectorTypeOK, LoopsReset, CollectorSteps, scanVars
    <3> QED BY <3>1, <3>2, <3>3
  <2> QED BY <1>0, <1>10, <1>k, <2>2, KeepHeap, KeepSignals
          DEF Recheck, TypeInv, TypeOK, heapVars
<1>11. CASE ClearWeakBackRef
  <2>1. obj \in Objects /\ {"ready", "recheck"} \subseteq TrackedStates
    BY <1>0, <1>11 DEF ClearWeakBackRef, CollectorTypeOK, TrackedStates
  <2>2. HeapTypeOK'
    BY <1>0, <1>11 DEF ClearWeakBackRef, HeapTypeOK, OptObject
  <2>3. CollectorTypeOK' /\ LoopsReset'
    BY <1>0, <1>11, <2>1, ConcludeTypes DEF ClearWeakBackRef
  <2> QED BY <1>0, <1>11, <1>k, <2>2, <2>3, KeepSignals
          DEF ClearWeakBackRef, TypeInv, TypeOK
<1>12. CASE EndUpdate
  <2>1. CollectorTypeOK' /\ LoopsReset'
    BY <1>0, <1>12
    DEF EndUpdate, CollectorTypeOK, LoopsReset, CollectorSteps, trackVars, passVars,
        scanVars, readVars
  <2> QED BY <1>0, <1>12, <1>k, <2>1, KeepHeap, KeepSignals
          DEF EndUpdate, TypeInv, TypeOK, heapVars
<1>13. ASSUME NEW o \in Objects, BeginFree(o)
       PROVE  TypeInv'
  <2>1. HeapTypeOK'
    BY <1>0, <1>13 DEF BeginFree, HeapTypeOK, Kinds
  <2>2. CollectorTypeOK' /\ LoopsReset'
    BY <1>0, <1>13
    DEF BeginFree, CollectorTypeOK, LoopsReset, CollectorSteps, TrackedStates, OptObject,
        scanVars
  <2> QED BY <1>0, <1>13, <1>k, <2>1, <2>2, KeepSignals DEF BeginFree, TypeInv, TypeOK
<1>14. ASSUME NEW f \in Fields, NEW s \in Shards, DropField(f, s)
       PROVE  TypeInv'
  <2>1. holds[f] \in Objects
    BY <1>0, <1>14, PlaceFacts DEF DropField, HeapTypeOK, OptObject
  <2>2. HeapTypeOK'
    BY <1>0, <1>14, CounterSteps DEF DropField, HeapTypeOK, OptObject
  <2>3. CollectorTypeOK' /\ LoopsReset'
    BY <1>0, <1>14, <2>1
    DEF DropField, CollectorTypeOK, LoopsReset, passVars, scanVars, readVars
  <2>4. \A h \in Handles : holds'[h] = holds[h]
    BY <1>0, <1>14, PlaceFacts DEF DropField, HeapTypeOK
  <2>5. CallsKeepBorrows'
    BY <2>4, BorrowsKept
  <2> QED BY <1>0, <1>14, <2>2, <2>3, <2>5, KeepSignals DEF DropField, TypeInv, TypeOK
<1>15. CASE EndFree
  <2>1. HeapTypeOK'
    BY <1>0, <1>15, CounterTypes DEF EndFree, HeapTypeOK, Kinds, OptObject
  <2>2. CollectorTypeOK' /\ LoopsReset'
    BY <1>0, <1>15
    DEF EndFree, CollectorTypeOK, LoopsReset, CollectorSteps, OptObject, trackVars,
        passVars, scanVars
  <2> QED BY <1>0, <1>15, <1>k, <2>1, <2>2, KeepSignals DEF EndFree, TypeInv, TypeOK
<1>16. CASE EndPass
  <2> DEFINE next == newRecheck \cup toRecheck
  <2>1. next \in SUBSET Objects
    BY <1>0 DEF CollectorTypeOK
  <2>2. CASE deep /\ next # {} /\ inner < MaxInner
    <3>1. inner' \in 0 .. MaxInner /\ deep' \in BOOLEAN
      BY <1>0, <1>16, <2>2, MaxInnerAssumption DEF EndPass, CollectorTypeOK
    <3>2. CollectorTypeOK' /\ LoopsReset'
      BY <1>0, <1>16, <2>1, <2>2, <3>1
      DEF EndPass, StartPass, CollectorTypeOK, LoopsReset, CollectorSteps, readVars
    <3> QED BY <1>0, <1>16, <1>k, <3>2, KeepHeap, KeepSignals
            DEF EndPass, TypeInv, TypeOK, heapVars
  <2>3. CASE ~(deep /\ next # {} /\ inner < MaxInner)
    <3>1. inner' \in 0 .. MaxInner
      BY <1>0, <1>16, <2>3, MaxInnerAssumption DEF EndPass
    <3>2. deep' \in BOOLEAN
      BY <1>0, <1>16, <2>3 DEF EndPass
    <3>3. CollectorTypeOK' /\ LoopsReset'
      BY <1>0, <1>16, <2>3, <3>1, <3>2
      DEF EndPass, CollectorTypeOK, LoopsReset, CollectorSteps, readVars
    <3> QED BY <1>0, <1>16, <1>k, <3>3, KeepHeap, KeepSignals
            DEF EndPass, TypeInv, TypeOK, heapVars
  <2> QED BY <2>2, <2>3
<1> QED BY <1>1, <1>2, <1>3, <1>4, <1>5, <1>6, <1>7, <1>8, <1>9, <1>10, <1>11, <1>12,
           <1>13, <1>14, <1>15, <1>16 DEF CollectorStep

\* Every step of the system keeps the type invariant.
LEMMA NextTypeInv == TypeInv /\ [Next]_vars => TypeInv'
<1> SUFFICES ASSUME TypeInv, [Next]_vars PROVE TypeInv'
  OBVIOUS
<1>1. CASE HandleStep
  BY <1>1, HandleTypeInv
<1>2. ASSUME NEW t \in Threads, CallStep(t) \/ ContinueStep(t) \/ DrainStep(t)
      PROVE  TypeInv'
  BY <1>2, CallTypeInv, ContinueTypeInv, DrainTypeInv
<1>3. CASE CollectorStep /\ UNCHANGED op
  BY <1>3, CollectorTypeInv
<1>4. CASE UNCHANGED vars
  <2>1. UNCHANGED <<heapVars, signalVars, collectorVars, op>> /\ UNCHANGED holds
    BY <1>4 DEF vars, heapVars
  <2> QED BY <2>1, KeepHeap, KeepSignals, KeepCollector, BorrowsKept DEF TypeInv, TypeOK
<1> QED BY <1>1, <1>2, <1>3, <1>4 DEF Next

\* Every variable keeps its type in every behaviour, for every number of objects,
\* threads, slots and shards: the loops of the collector never run past the last
\* shard or slot, and no call reads through a handle that has lost its Sdarc.
THEOREM TypeCorrect == Spec => []TypeOK
<1>1. Spec => []TypeInv
  BY InitTypeInv, NextTypeInv, PTL DEF Spec
<1>2. TypeInv => TypeOK
  BY DEF TypeInv
<1> QED BY <1>1, <1>2, PTL

-----------------------------------------------------------------------------
TrackInv == TrackedExactlyOnce /\ WorkIsTracked

\* Before the first allocation nothing is tracked or pending.
LEMMA InitTrackInv == Init => TrackInv
BY DEF Init, HeapInit, CollectorInit, TrackInv, TrackedExactlyOnce, WorkIsTracked, Live

\* Steps that neither allocate nor free and leave the registration alone.
LEMMA TrackingKept ==
  ASSUME TrackInv, UNCHANGED <<kind, pending, state, cpc, obj, toFree>>
  PROVE  TrackInv'
BY DEF TrackInv, TrackedExactlyOnce, WorkIsTracked, Live

\* A new object is registered in one pending list.
LEMMA TrackingOfNew ==
  ASSUME TypeInv, TrackInv, NEW o \in Objects, NEW p \in Shards, NEW k \in {"data", "weak"},
         kind[o] = "unallocated",
         kind' = [kind EXCEPT ![o] = k],
         Submit(o, p),
         UNCHANGED <<state, cpc, obj, toFree>>
  PROVE  TrackInv'
<1>1. /\ kind \in [Objects -> Kinds] /\ pending \in [Shards -> SUBSET Objects]
      /\ cpc = "drop" => obj \in Objects
  BY DEF TypeInv, TypeOK, HeapTypeOK, CollectorTypeOK
<1>2. state[o] = "untracked" /\ \A s \in Shards : o \notin pending[s]
  BY DEF TrackInv, TrackedExactlyOnce, Live
<1>3. TrackedExactlyOnce'
  BY <1>1, <1>2 DEF TrackInv, TrackedExactlyOnce, Live, Submit
<1>4. WorkIsTracked'
  BY <1>1 DEF TrackInv, WorkIsTracked
<1> QED BY <1>3, <1>4 DEF TrackInv

\* The verdict on the object being updated: it stays tracked.
LEMMA TrackingOfVerdict ==
  ASSUME TypeInv, TrackInv, NEW s \in TrackedStates \ {"untracked"},
         cpc \in {"precheck", "clear", "recheck", "weakref"},
         Conclude(obj, s), UNCHANGED <<kind, pending>>
  PROVE  TrackInv'
<1>1. /\ obj \in Objects /\ state[obj] # "untracked" /\ state \in [Objects -> TrackedStates]
      /\ toFree \in SUBSET Objects
  BY DEF TypeInv, TypeOK, CollectorTypeOK, TrackInv, WorkIsTracked
<1>2. \A o \in Objects : state'[o] # "untracked" <=> state[o] # "untracked"
  BY <1>1 DEF Conclude
<1>3. TrackedExactlyOnce'
  BY <1>2 DEF TrackInv, TrackedExactlyOnce, Live
<1>4. WorkIsTracked'
  BY <1>1, <1>2 DEF TrackInv, WorkIsTracked, Conclude
<1> QED BY <1>3, <1>4 DEF TrackInv

\* Sdarc::new submits what it allocates; clone, drop and swap neither allocate nor
\* free.
LEMMA HandleTrackInv == TypeInv /\ TrackInv /\ HandleStep => TrackInv'
<1> SUFFICES ASSUME TypeInv, TrackInv, HandleStep PROVE TrackInv'
  OBVIOUS
<1>1. ASSUME NEW h \in Handles, NEW o \in DataObjects, NEW s \in Shards, NEW p \in Shards,
             NEW hc \in Handles \cup {NULL}, New(h, o, s, p, hc)
      PROVE  TrackInv'
  BY <1>1, TrackingOfNew DEF New, Objects, passVars, readVars
<1>2. ASSUME NEW src \in Places, NEW h \in Handles, NEW s \in Shards,
             Clone(src, h, s) \/ Drop(h, s)
      PROVE  TrackInv'
  BY <1>2, TrackingKept DEF Clone, Drop, collectorVars, trackVars, passVars, readVars
<1>3. ASSUME NEW c \in Cells, NEW h \in Handles, Swap(c, h)
      PROVE  TrackInv'
  BY <1>3, TrackingKept DEF Swap, collectorVars, trackVars, passVars, readVars
<1> QED BY <1>1, <1>2, <1>3 DEF HandleStep, Places

\* Downgrade submits the WeakSdarcInner it allocates; no other call of a thread, and
\* no drained store, touches what is tracked.
LEMMA ThreadTrackInv ==
  ASSUME TypeInv, TrackInv, NEW t \in Threads,
         CallStep(t) \/ ContinueStep(t) \/ DrainStep(t)
  PROVE  TrackInv'
<1>1. ASSUME NEW src \in Handles, NEW dst \in Handles, NEW w \in WeakObjects,
             NEW s \in Shards, NEW p \in Shards, Downgrade(t, src, dst, w, s, p)
      PROVE  TrackInv'
  BY <1>1, TrackingOfNew DEF Downgrade, Objects, passVars, readVars
<1>2. ASSUME UNCHANGED <<kind, collectorVars>>
      PROVE  TrackInv'
  BY <1>2, TrackingKept DEF collectorVars, trackVars, passVars, readVars
<1>3. CASE DrainStep(t)
  BY <1>2, <1>3 DEF DrainStep, heapVars
<1>4. CASE ContinueStep(t)
  BY <1>2, <1>4
  DEF ContinueStep, CasIncrement, LoadPtr, LoadIncrement, LoadExit, Publish, Reload,
      Fallback, WeakClone, heapVars
<1>5. CASE CallStep(t)
  <2>1. ASSUME NEW c \in Cells, NEW m \in Handles, NEW n \in Handles, NEW dst \in Handles,
               CompareAndSet(t, c, m, n, dst)
        PROVE  TrackInv'
    BY <1>2, <2>1 DEF CompareAndSet, Installed
  <2>2. CASE \/ \E l \in Locations, dst \in Handles : LoadOwned(t, l, dst) \/ Borrow(t, l, dst)
             \/ \E i \in Slots : DropGuard(t, i)
             \/ \E src \in Handles, dst \in Handles : DowngradeAgain(t, src, dst)
    BY <1>2, <2>2 DEF LoadOwned, Borrow, DropGuard, DowngradeAgain, heapVars
  <2> QED BY <1>1, <1>5, <2>1, <2>2 DEF CallStep
<1> QED BY <1>3, <1>4, <1>5

\* The collector moves objects from the pending lists to tracked_counters, changes
\* their state, and forgets exactly those whose memory it frees.
LEMMA CollectorTrackInv == TypeInv /\ TrackInv /\ CollectorStep => TrackInv'
<1> SUFFICES ASSUME TypeInv, TrackInv, CollectorStep PROVE TrackInv'
  OBVIOUS
<1>0. HeapTypeOK /\ CollectorTypeOK
  BY DEF TypeInv, TypeOK
<1>k. ASSUME UNCHANGED <<kind, pending, state, toFree>>,
             cpc' \notin {"precheck", "clear", "recheck", "weakref", "drop"}
      PROVE  TrackInv'
  BY <1>k DEF TrackInv, TrackedExactlyOnce, WorkIsTracked, Live
<1>1. CASE BeginOuter
  BY <1>1, <1>k DEF BeginOuter, heapVars, trackVars
<1>2. CASE TakeNew
  <2>1. idx \in Shards /\ pending \in [Shards -> SUBSET Objects]
        /\ state \in [Objects -> TrackedStates] /\ toFree \in SUBSET Objects
    BY <1>0, <1>2 DEF TakeNew, CollectorTypeOK
  <2>2. TrackedExactlyOnce'
    BY <1>2, <2>1 DEF TakeNew, TrackInv, TrackedExactlyOnce, Live, heapVars
  <2>3. WorkIsTracked'
    BY <1>2, <2>1 DEF TakeNew, StartPass, TrackInv, WorkIsTracked, heapVars
  <2> QED BY <2>2, <2>3 DEF TrackInv
<1>3. ASSUME NEW t \in Threads, Barrier(t) \/ ScanSlot(t) \/ Poll(t)
      PROVE  TrackInv'
  BY <1>3, <1>k DEF Barrier, ScanSlot, Poll, heapVars, trackVars, passVars
<1>4. ASSUME NEW o \in Objects, SkipUntracked(o)
      PROVE  TrackInv'
  BY <1>4, <1>k DEF SkipUntracked, heapVars, trackVars
<1>5. ASSUME NEW o \in Objects, KeepHazardous(o)
      PROVE  TrackInv'
  BY <1>0, <1>5
  DEF KeepHazardous, CollectorTypeOK, Tracked, TrackInv, TrackedExactlyOnce, WorkIsTracked,
      Live, heapVars
<1>6. ASSUME NEW o \in Objects, UpdateState(o)
      PROVE  TrackInv'
  BY <1>0, <1>6
  DEF UpdateState, Tracked, TrackInv, TrackedExactlyOnce, WorkIsTracked, Live, heapVars,
      trackVars
<1>7. CASE Precheck \/ ClearTags \/ Recheck \/ ClearWeakBackRef
  <2>1. UNCHANGED <<kind, pending>> /\ cpc \in {"precheck", "clear", "recheck", "weakref"}
    BY <1>7 DEF Precheck, ClearTags, Recheck, ClearWeakBackRef, heapVars
  <2>2. CASE UNCHANGED <<state, toFree, obj>>
             /\ cpc' \in {"precheck", "clear", "recheck", "weakref"}
    BY <2>1, <2>2 DEF TrackInv, TrackedExactlyOnce, WorkIsTracked, Live
  <2>3. CASE \E s \in TrackedStates \ {"untracked"} : Conclude(obj, s)
    BY <2>1, <2>3, TrackingOfVerdict
  <2> QED BY <1>7, <2>2, <2>3
          DEF Precheck, ClearTags, Recheck, ClearWeakBackRef, AfterClear, TrackedStates
<1>8. CASE EndUpdate
  BY <1>8, <1>k DEF EndUpdate, heapVars, trackVars, passVars
<1>9. ASSUME NEW o \in Objects, BeginFree(o)
      PROVE  TrackInv'
  <2>1. state[o] # "untracked" /\ \A s \in Shards : o \notin pending[s]
    BY <1>9 DEF BeginFree, TrackInv, TrackedExactlyOnce, WorkIsTracked
  <2>2. \A x \in toFree \ {o} : x \in Objects
    BY <1>0 DEF CollectorTypeOK
  <2> QED BY <1>0, <1>9, <2>1, <2>2
          DEF BeginFree, HeapTypeOK, CollectorTypeOK, TrackInv, TrackedExactlyOnce,
              WorkIsTracked, Live
<1>10. ASSUME NEW f \in Fields, NEW s \in Shards, DropField(f, s)
       PROVE  TrackInv'
  BY <1>10, TrackingKept DEF DropField, passVars, readVars
<1>11. CASE EndFree
  <2>1. obj \in Objects /\ ~Live(obj)
    BY <1>0, <1>11 DEF EndFree, CollectorTypeOK, TrackInv, WorkIsTracked, Live
  <2> QED BY <1>0, <1>11, <2>1
          DEF EndFree, HeapTypeOK, TrackInv, TrackedExactlyOnce, WorkIsTracked, Live,
              trackVars, passVars
<1>12. CASE EndPass
  BY <1>12, <1>k DEF EndPass, StartPass, heapVars
<1> QED BY <1>1, <1>2, <1>3, <1>4, <1>5, <1>6, <1>7, <1>8, <1>9, <1>10, <1>11, <1>12
        DEF CollectorStep

\* Every step keeps the tracking invariant.
LEMMA NextTrackInv == TypeInv /\ TrackInv /\ [Next]_vars => TrackInv'
<1> SUFFICES ASSUME TypeInv, TrackInv, [Next]_vars PROVE TrackInv'
  OBVIOUS
<1>1. CASE UNCHANGED vars
  BY <1>1, TrackingKept DEF vars, heapVars, collectorVars, trackVars, passVars, readVars
<1> QED BY <1>1, HandleTrackInv, ThreadTrackInv, CollectorTrackInv DEF Next

\* Every allocated object is tracked or pending, exactly once, and nothing freed
\* is: no Sdarc escapes the collector, and the assert of take_new_counters_to_track
\* that an insertion replaces nothing never fails.
THEOREM AllocationsAreTracked == Spec => []TrackedExactlyOnce
<1>1. Spec => []TypeInv
  BY InitTypeInv, NextTypeInv, PTL DEF Spec
<1>2. Spec => []TrackInv
  BY <1>1, InitTrackInv, NextTrackInv, PTL DEF Spec
<1>3. TrackInv => TrackedExactlyOnce
  BY DEF TrackInv
<1> QED BY <1>2, <1>3, PTL
=============================================================================
