---------------------------- MODULE SafetyProofs ----------------------------
(***************************************************************************)
(* Memory safety of Sdarc, as long as no call of compare_and_set is        *)
(* disturbed: what a step of user code does to the calls, the counts, the  *)
(* back references, and what the collector has found out.                  *)
(***************************************************************************)
EXTENDS CountProofs

\* The types a step of the proof needs most.
LEMMA Types ==
  ASSUME TypeInv
  PROVE  /\ kind \in [Objects -> Kinds]
         /\ counters \in [Objects -> [Shards -> Int]]
         /\ holds \in [Places -> OptObject]
         /\ backRef \in [Objects -> OptObject]
         /\ signals \in [Threads -> Signals] /\ visible \in [Threads -> Signals]
         /\ guard \in [Threads -> [Slots -> Locations \cup {NULL}]]
         /\ op \in [Threads -> Ops]
         /\ state \in [Objects -> TrackedStates]
         /\ sum \in Int
BY DEF TypeInv, TypeOK, HeapTypeOK, SignalTypeOK, CollectorTypeOK

\* The last conjunct of VerdictsAreRight in terms of the words of obj.
RecheckIsRight ==
  \/ TagFrom(counters[obj], idx)
  \/ sum + SumFrom(counters[obj], idx) > 0
  \/ sum + SumFrom(counters[obj], idx) = 0 /\ (NoBackRef(obj) => Dead(obj))

\* RecheckIsRight is what VerdictsAreRight says of the re-check.
LEMMA RecheckVerdict ==
  /\ VerdictsAreRight /\ cpc = "recheck" => RecheckIsRight
  /\ RecheckIsRight <=>
       TagAhead \/ sum + CountAhead > 0
         \/ (sum + CountAhead = 0 /\ (NoBackRef(obj) => Dead(obj)))
BY DEF VerdictsAreRight, RecheckIsRight, TagAhead, CountAhead, TagFrom, SumFrom, StrongCount

\* What a step of user code may do to the words of a live object.
UserWrite(o) ==
  \/ counters'[o] = counters[o]
  \/ /\ ~Dead(o)
     /\ \E s \in Shards : counters'[o] = [counters[o] EXCEPT ![s] = IncrementRefCount(@)]
  \/ \E s \in Shards : counters'[o] = [counters[o] EXCEPT ![s] = DecrementRefCountAndSetTag(@)]

\* Clones and drops during the re-check of an object cannot make it come out dead:
\* an increment of a shard still to be read is added, a decrement of one leaves a
\* tag, and neither matters on a shard that has been read.
LEMMA RecheckKept ==
  ASSUME TypeInv, cpc = "recheck", RecheckIsRight,
         UNCHANGED <<obj, idx, sum>>,
         UserWrite(obj),
         Dead(obj) => Dead(obj)',
         NoBackRef(obj)' => NoBackRef(obj)
  PROVE  RecheckIsRight'
<1> DEFINE c == counters[obj]
           d == counters'[obj]
<1>1. obj \in Objects /\ idx \in Shards /\ idx \in 0 .. ShardCount /\ sum \in Int
      /\ c \in [Shards -> Int]
  BY ShardCountAssumption, Types DEF TypeInv, TypeOK, CollectorTypeOK, Shards
<1>2. SumFrom(c, idx) \in Int
  BY <1>1, SumFacts
<1> HIDE DEF c
<1>3. CASE d = c
  BY <1>3 DEF RecheckIsRight, c
<1>4. CASE ~Dead(obj) /\ \E s \in Shards : d = [c EXCEPT ![s] = IncrementRefCount(@)]
  <2>1. PICK s \in Shards : d = [c EXCEPT ![s] = IncrementRefCount(@)]
    BY <1>4
  <2> HIDE DEF d
  <2>2. /\ SumFrom(d, idx) \in {SumFrom(c, idx), SumFrom(c, idx) + 1}
        /\ \A r \in Shards : Tag(d[r]) <=> Tag(c[r])
    BY <1>1, <2>1, SumOfIncrement
  <2>3. TagFrom(c, idx) => TagFrom(d, idx)
    BY <2>2 DEF TagFrom
  <2>4. CASE TagFrom(c, idx)
    BY <2>3, <2>4 DEF RecheckIsRight, c, d
  <2>5. CASE sum + SumFrom(c, idx) > 0
    <3>1. sum + SumFrom(d, idx) > 0
      BY <1>1, <1>2, <2>2, <2>5
    <3> QED BY <3>1 DEF RecheckIsRight, d
  <2>6. CASE sum + SumFrom(c, idx) = 0 /\ (NoBackRef(obj) => Dead(obj))
    <3>1. sum + SumFrom(d, idx) > 0 \/ sum + SumFrom(d, idx) = 0
      BY <1>1, <1>2, <2>2, <2>6
    <3>2. ~NoBackRef(obj)'
      BY <1>4, <2>6
    <3> QED BY <3>1, <3>2 DEF RecheckIsRight, d
  <2> QED BY <2>4, <2>5, <2>6 DEF RecheckIsRight, c
<1>5. CASE \E s \in Shards : d = [c EXCEPT ![s] = DecrementRefCountAndSetTag(@)]
  <2>1. PICK s \in Shards : d = [c EXCEPT ![s] = DecrementRefCountAndSetTag(@)]
    BY <1>5
  <2> HIDE DEF d
  <2>2. /\ SumFrom(d, idx) = SumFrom(c, idx) \/ TagFrom(d, idx)
        /\ \A r \in Shards : Tag(c[r]) => Tag(d[r])
    BY <1>1, <2>1, SumOfDecrement
  <2>3. TagFrom(c, idx) => TagFrom(d, idx)
    BY <2>2 DEF TagFrom
  <2>4. CASE TagFrom(d, idx)
    BY <2>4 DEF RecheckIsRight, d
  <2>5. CASE SumFrom(d, idx) = SumFrom(c, idx) /\ ~TagFrom(c, idx)
    BY <2>5 DEF RecheckIsRight, c, d
  <2> QED BY <2>2, <2>3, <2>4, <2>5
<1> QED BY <1>3, <1>4, <1>5 DEF UserWrite, c, d

\* A step of user code, seen from the collector: it frees nothing, a dead object
\* stays dead, an object comes to look dead only by a verdict of the collector, and
\* nobody begins to read an object that looks dead.
UserStep ==
  /\ UNCHANGED <<state, cpc, obj, idx, sum, todo, toFree, thr, waiting, hazards, visible>>
  /\ \A o \in Objects : Live(o) => Live(o)' /\ UserWrite(o)
  /\ \A o \in Objects : Dead(o) /\ (Live(o) \/ ~Live(o)') => Dead(o)'
  /\ \A o \in Objects : Live(o) /\ NoBackRef(o)' => NoBackRef(o)
  /\ \A o \in Objects : LooksDead(o)' =>
       /\ LooksDead(o)
       /\ \A t \in Threads : Loading(t, o)' => Loading(t, o)
       /\ \A t \in Threads, i \in Slots : GuardedBy(t, i, o)' => GuardedBy(t, i, o)

\* What the collector knows survives every step of user code.
LEMMA UserStepKeeps ==
  ASSUME SafeInv, UserStep
  PROVE  VerdictsAreRight' /\ LoopsInOrder' /\ ReadersAreSeen'
<1>0. /\ TypeInv /\ TrackedExactlyOnce /\ WorkIsTracked /\ VerdictsAreRight /\ LoopsInOrder
      /\ ReadersAreSeen
  BY DEF SafeInv
<1>1. \A o \in Objects : state[o] # "untracked" => Live(o)
  BY <1>0 DEF TrackedExactlyOnce
<1>2. cpc \in {"recheck", "weakref"} => obj \in Objects /\ Live(obj)
  BY <1>0, <1>1 DEF TypeInv, TypeOK, CollectorTypeOK, WorkIsTracked
<1>3. \A o \in Objects : ~Live(o)' => Dead(o)'
  BY <1>0 DEF UserStep, VerdictsAreRight
<1>4. \A o \in Objects : state'[o] = "ready" \/ o \in toFree' => Dead(o)'
  <2> SUFFICES ASSUME NEW o \in Objects, state'[o] = "ready" \/ o \in toFree' PROVE Dead(o)'
    OBVIOUS
  <2>1. state[o] = "ready" \/ o \in toFree
    BY DEF UserStep
  <2>2. Dead(o) /\ state[o] # "untracked"
    BY <1>0, <2>1 DEF VerdictsAreRight, WorkIsTracked
  <2> QED BY <1>1, <2>2 DEF UserStep
<1>5. ASSUME cpc' = "weakref", NoBackRef(obj)' PROVE Dead(obj)'
  <2>1. cpc = "weakref" /\ obj' = obj
    BY <1>5 DEF UserStep
  <2>2. NoBackRef(obj)
    BY <1>2, <1>5, <2>1 DEF UserStep, NoBackRef
  <2>3. Dead(obj)
    BY <1>0, <2>1, <2>2 DEF VerdictsAreRight
  <2>4. \A o \in Objects : Dead(o) /\ Live(o) => Dead(o)'
    BY DEF UserStep
  <2> QED BY <1>2, <2>1, <2>3, <2>4 DEF Dead, Holders, NoBackRef, Loading, Guarded, GuardedBy
<1>6. ASSUME cpc' = "recheck" PROVE RecheckIsRight'
  <2>1. cpc = "recheck" /\ obj' = obj /\ UNCHANGED <<obj, idx, sum>>
    BY <1>6 DEF UserStep
  <2>2. UserWrite(obj)
    BY <1>2, <2>1 DEF UserStep
  <2>3. Dead(obj) => Dead(obj)'
    BY <1>2, <2>1 DEF UserStep, Dead, Holders, NoBackRef, Loading, Guarded, GuardedBy
  <2>4. NoBackRef(obj)' => NoBackRef(obj)
    BY <1>2, <2>1 DEF UserStep, NoBackRef
  <2> QED BY <1>0, <2>1, <2>2, <2>3, <2>4, RecheckKept, RecheckVerdict
<1>7. VerdictsAreRight'
  <2>1. cpc' = "recheck" =>
          \/ TagAhead' \/ (sum + CountAhead)' > 0
          \/ ((sum + CountAhead)' = 0 /\ (NoBackRef(obj)' => Dead(obj)'))
    BY <1>6 DEF RecheckIsRight, TagAhead, CountAhead, TagFrom, SumFrom, StrongCount
  <2> QED BY <1>3, <1>4, <1>5, <2>1 DEF VerdictsAreRight
<1>8. LoopsInOrder'
  BY <1>0 DEF UserStep, LoopsInOrder
<1>9. ReadersAreSeen'
  <2> SUFFICES ASSUME NEW o \in Objects, LooksDead(o)'
               PROVE  /\ \A t \in Threads : Loading(t, o)' =>
                           /\ cpc' = "barrier" => t \in waiting' \/ visible'[t].flag = TRUE
                           /\ cpc' = "scan" => t \in waiting' /\ visible'[t].flag = TRUE
                           /\ ~Scanned(o)'
                      /\ \A t \in Threads, i \in Slots : GuardedBy(t, i, o)' =>
                           /\ cpc' = "barrier" => t \in waiting' \/ visible'[t].slots[i] = o
                           /\ cpc' = "scan" =>
                                /\ visible'[t].slots[i] = o
                                /\ o \in hazards' \/ (t \in waiting' /\ (thr' = t => idx' <= i))
                           /\ Scanned(o)' => o \in hazards'
    BY DEF ReadersAreSeen
  <2>1. LooksDead(o) /\ (Scanned(o)' <=> Scanned(o))
    BY DEF UserStep, Scanned
  <2>2. UNCHANGED <<cpc, waiting, visible, hazards, thr, idx>>
    BY DEF UserStep
  <2>3. \A t \in Threads : Loading(t, o)' => Loading(t, o)
    BY DEF UserStep
  <2>4. \A t \in Threads, i \in Slots : GuardedBy(t, i, o)' => GuardedBy(t, i, o)
    BY DEF UserStep
  <2> QED BY <1>0, <2>1, <2>2, <2>3, <2>4 DEF ReadersAreSeen
<1> QED BY <1>7, <1>8, <1>9

-----------------------------------------------------------------------------
\* A field belongs to one object and is one of its two.
LEMMA FieldFacts ==
  \A a, b : /\ WeakField(a) # DataField(b)
            /\ WeakField(a) = WeakField(b) => a = b
            /\ DataField(a) = DataField(b) => a = b
BY DEF WeakField, DataField

\* What SafeInv says of an object that is owned, loaded or pointed back to.
LEMMA LiveFacts ==
  ASSUME SafeInv
  PROVE  /\ \A o \in Objects : ~Dead(o) => Live(o)
         /\ \A p \in Places : holds[p] # NULL => holds[p] \in Objects /\ Live(holds[p])
         /\ \A p \in Places, o \in Objects : holds[p] = o => ~Dead(o) /\ Holders(o) # {}
         /\ \A w \in Objects : ~Live(w) => backRef[w] = NULL
<1>0. TypeInv /\ VerdictsAreRight /\ BackRefsMatch
  BY DEF SafeInv
<1>1. holds \in [Places -> OptObject] /\ backRef \in [Objects -> OptObject]
  BY <1>0, Types
<1>2. \A o \in Objects : ~Dead(o) => Live(o)
  BY <1>0 DEF VerdictsAreRight
<1>3. \A p \in Places, o \in Objects : holds[p] = o => ~Dead(o) /\ Holders(o) # {}
  BY DEF Dead, Holders
<1>4. \A p \in Places : holds[p] # NULL => holds[p] \in Objects /\ Live(holds[p])
  BY <1>1, <1>2, <1>3 DEF OptObject
<1>5. ASSUME NEW w \in Objects, ~Live(w), backRef[w] # NULL
      PROVE  FALSE
  <2>1. backRef[w] \in Objects /\ holds[WeakField(backRef[w])] = w
    BY <1>0, <1>1, <1>5 DEF BackRefsMatch, OptObject
  <2> QED BY <1>2, <1>3, <1>5, <2>1, PlaceFacts
<1> QED BY <1>2, <1>3, <1>4, <1>5

\* The call of t aside, a step changes no place that a call relies on: not its
\* result variable, not the handle it has borrowed, and not the weak reference
\* that a downgrade has found.
KeepsCalls(t) ==
  /\ \A u \in Threads \ {t} :
       op'[u] = op[u] /\ signals'[u] = signals[u] /\ guard'[u] = guard[u]
  /\ \A p \in Places : holds'[p] # holds[p] =>
       \/ p \in Cells
       \/ p \in Handles /\ \A u \in Threads \ {t} : op[u].dst # p /\ p \notin op[u].pins
       \/ \E o \in Objects : p = DataField(o)
       \/ \E o \in Objects : p = WeakField(o) /\ (holds[p] = NULL \/ ~Live(o))

\* Then the other calls stay consistent.
LEMMA OtherCalls ==
  ASSUME SafeInv, NEW t, KeepsCalls(t),
         NEW u \in Threads, u # t
  PROVE  CallIsConsistent(u)' /\ op'[u] = op[u]
<1>0. TypeInv /\ CallsAreConsistent
  BY DEF SafeInv
<1>1. op'[u] = op[u] /\ signals'[u] = signals[u] /\ guard'[u] = guard[u]
  BY DEF KeepsCalls
<1>2. CallIsConsistent(u)
  BY <1>0 DEF CallsAreConsistent
<1>3. ASSUME op[u].pc \in ResultSteps
      PROVE  holds'[op[u].dst] = holds[op[u].dst]
  <2>1. op[u].dst \in Handles
    BY <1>2, <1>3 DEF CallIsConsistent
  <2>2. \A o \in Objects : op[u].dst # DataField(o) /\ op[u].dst # WeakField(o)
    BY <2>1, PlaceFacts
  <2>3. op[u].dst \in Places /\ op[u].dst \notin Cells
    BY <2>1, PlaceFacts
  <2> QED BY <2>2, <2>3 DEF KeepsCalls
<1>4. ASSUME op[u].pc = "weakclone"
      PROVE  holds'[WeakField(holds'[op[u].loc])] # NULL
  <2> DEFINE l == op[u].loc
             x == holds[l]
  <2>1. l \in op[u].pins /\ x # NULL
    BY <1>0, <1>4 DEF TypeInv, CallsKeepBorrows, LocationSteps
  <2>2. l \in Handles
    BY <1>0, <2>1, Types DEF Ops
  <2>3. \A o \in Objects : l # DataField(o) /\ l # WeakField(o)
    BY <2>2, PlaceFacts
  <2>4. l \in Places /\ l \notin Cells
    BY <2>2, PlaceFacts
  <2>5. holds'[l] = x
    BY <2>1, <2>3, <2>4 DEF KeepsCalls
  <2>6. x \in Objects /\ Live(x)
    BY <2>1, <2>4, LiveFacts
  <2>7. holds[WeakField(x)] # NULL
    BY <1>2, <1>4 DEF CallIsConsistent
  <2> HIDE DEF x
  <2>8. WeakField(x) \in Places /\ WeakField(x) \notin Cells /\ WeakField(x) \notin Handles
    BY <2>6, PlaceFacts
  <2>9. \A o \in Objects : WeakField(x) # DataField(o) /\ (WeakField(x) = WeakField(o) => x = o)
    BY FieldFacts
  <2>10. holds'[WeakField(x)] = holds[WeakField(x)]
    BY <2>6, <2>7, <2>8, <2>9 DEF KeepsCalls
  <2> QED BY <2>5, <2>7, <2>10
<1>5. ASSUME op[u].pc = "cas"
      PROVE  \E h \in op[u].pins : holds'[h] = op[u].ptr
  <2>1. PICK h \in op[u].pins : holds[h] = op[u].ptr
    BY <1>2, <1>5 DEF CallIsConsistent
  <2>2. h \in Handles
    BY <1>0, Types DEF Ops
  <2>3. h \in Places /\ h \notin Cells /\ \A o \in Objects : h # DataField(o) /\ h # WeakField(o)
    BY <2>2, PlaceFacts
  <2>4. holds'[h] = holds[h]
    BY <2>3 DEF KeepsCalls
  <2> QED BY <2>1, <2>4
<1>6. /\ op[u].pc = "cas" => op[u].loc \in Cells /\ op[u].ptr \in Objects
      /\ op[u].pc = "weakclone" => holds'[WeakField(holds'[op[u].loc])] # NULL
      /\ op[u].pc \in ResultSteps => op[u].dst \in Handles /\ holds'[op[u].dst] = NULL
  BY <1>2, <1>3, <1>4 DEF CallIsConsistent
<1> QED BY <1>1, <1>2, <1>5, <1>6 DEF CallIsConsistent

\* So if the call of t is consistent and its result variable was free, all are.
LEMMA CallsKept ==
  ASSUME SafeInv, NEW t \in Threads, KeepsCalls(t),
         CallIsConsistent(t)',
         \/ op'[t].dst \in {NULL, op[t].dst}
         \/ Returned(op'[t].dst)
  PROVE  CallsAreConsistent'
<1>0. CallsAreConsistent
  BY DEF SafeInv
<1>1. \A u \in Threads : u # t => CallIsConsistent(u)' /\ op'[u] = op[u]
  BY OtherCalls
<1>3. \A u \in Threads : CallIsConsistent(u)'
  BY <1>1
<1>4. ASSUME NEW u \in Threads, NEW v \in Threads, op'[u].dst # NULL, op'[u].dst = op'[v].dst
      PROVE  u = v
  BY <1>0, <1>1, <1>4 DEF CallsAreConsistent, Returned
<1> QED BY <1>3, <1>4 DEF CallsAreConsistent

\* Steps that are no part of a call.
LEMMA CallsUnmoved ==
  ASSUME SafeInv, UNCHANGED op, KeepsCalls(NULL)
  PROVE  CallsAreConsistent'
<1>0. CallsAreConsistent
  BY DEF SafeInv
<1>1. \A u \in Threads : CallIsConsistent(u)'
  BY OtherCalls, ThreadsAssumption
<1> QED BY <1>0, <1>1 DEF CallsAreConsistent

-----------------------------------------------------------------------------
\* The increments that calls of compare_and_set owe: there are finitely many, fewer
\* than owners, because each belongs to a cell of its own that owns the object and the
\* Sdarc that was installed is still borrowed.
LEMMA OwedBelow ==
  ASSUME SafeInv, NEW o \in Objects
  PROVE  /\ IsFiniteSet(OwedIncrements(o))
         /\ Cardinality(OwedIncrements(o)) \in Nat
         /\ Holders(o) = {} => OwedIncrements(o) = {}
         /\ Holders(o) # {} => Cardinality(OwedIncrements(o)) < Cardinality(Holders(o))
<1> DEFINE S == OwedIncrements(o)
           T == Holders(o)
           f == [t \in S |-> op[t].loc]
<1>0. TypeInv /\ CasUndisturbed /\ CallsAreConsistent
  BY DEF SafeInv
<1>1. IsFiniteSet(S) /\ IsFiniteSet(T) /\ Cardinality(S) \in Nat /\ Cardinality(T) \in Nat
      /\ (Cardinality(T) = 0 <=> T = {})
  <2>1. S \in SUBSET Threads
    BY DEF OwedIncrements
  <2>2. IsFiniteSet(S)
    BY <2>1, ThreadsAssumption, FS_Subset
  <2> QED BY <2>2, HoldersFinite, FS_CardinalityType
<1>2. \A t \in S : /\ t \in Threads /\ op[t].pc = "cas" /\ op[t].ptr = o
                   /\ op[t].loc \in Cells /\ op[t].loc \in T
                   /\ \E h \in op[t].pins : h \in T /\ h \notin Cells
  <2> SUFFICES ASSUME NEW t \in S
               PROVE  /\ t \in Threads /\ op[t].pc = "cas" /\ op[t].ptr = o
                      /\ op[t].loc \in Cells /\ op[t].loc \in T
                      /\ \E h \in op[t].pins : h \in T /\ h \notin Cells
    OBVIOUS
  <2>1. t \in Threads /\ op[t].pc = "cas" /\ op[t].ptr = o
    BY DEF OwedIncrements
  <2>2. op[t].loc \in Cells /\ holds[op[t].loc] = o /\ op[t].loc \in Places
    BY <1>0, <2>1, PlaceFacts DEF CallsAreConsistent, CallIsConsistent, CasUndisturbed
  <2>3. PICK h \in op[t].pins : holds[h] = o
    BY <1>0, <2>1 DEF CallsAreConsistent, CallIsConsistent
  <2>4. h \in Handles
    BY <1>0, <2>1, Types DEF Ops
  <2> QED BY <2>1, <2>2, <2>3, <2>4, PlaceFacts DEF Holders
<1>3. \A t, u \in S : op[t].loc = op[u].loc => t = u
  BY <1>0, <1>2 DEF CasUndisturbed
<1> HIDE DEF S, T
<1>4. f \in Injection(S, T)
  BY <1>2, <1>3 DEF Injection, IsInjective
<1>5. /\ Cardinality(S) <= Cardinality(T)
      /\ Cardinality(S) = Cardinality(T) => f \in Surjection(S, T)
  <2> HIDE DEF f
  <2> QED BY <1>1, <1>4, FS_Injection
<1>6. ASSUME S # {}
      PROVE  T # {} /\ Cardinality(S) # Cardinality(T)
  <2>1. PICK h \in T : h \notin Cells
    BY <1>2, <1>6
  <2>2. f \notin Surjection(S, T)
    BY <1>2, <2>1 DEF Surjection
  <2> QED BY <1>5, <2>1, <2>2
<1>7. CASE S = {}
  <2>1. Cardinality(S) = 0
    BY <1>7, FS_EmptySet
  <2> QED BY <1>1, <1>7, <2>1 DEF S, T
<1>8. CASE S # {}
  BY <1>1, <1>5, <1>6, <1>8 DEF S, T
<1> QED BY <1>7, <1>8

\* A step that is not one of compare_and_set leaves what is owed as it is.
OwedKept == \A o \in Objects : OwedIncrements(o)' = OwedIncrements(o)

LEMMA OwedUnmoved ==
  /\ UNCHANGED op => OwedKept
  /\ \A t \in Threads :
       /\ op[t].pc # "cas" /\ op'[t].pc # "cas"
       /\ \A u \in Threads \ {t} : op'[u] = op[u]
       => OwedKept
BY DEF OwedKept, OwedIncrements

\* What a step of user code does to the heap.
HeapStep == UserStep /\ BackRefsMatch' /\ RefCountExact'

\* A step that only moves readers: nobody comes to read an object that no place
\* owns and no weak reference points back to.
LEMMA QuietStep ==
  ASSUME SafeInv, UNCHANGED <<heapVars, collectorVars, visible>>, OwedKept,
         \A o \in Objects : Holders(o) = {} /\ NoBackRef(o) =>
           /\ \A t \in Threads : Loading(t, o)' => Loading(t, o)
           /\ \A t \in Threads, i \in Slots : GuardedBy(t, i, o)' => GuardedBy(t, i, o)
  PROVE  HeapStep
<1>0. BackRefsMatch /\ RefCountExact
  BY DEF SafeInv
<1>1. UNCHANGED <<kind, counters, holds, backRef>>
  BY DEF heapVars
<1>2. BackRefsMatch' /\ RefCountExact'
  BY <1>0, <1>1 DEF BackRefsMatch, RefCountExact, OwedKept, Live, StrongCount, Holders
<1>3. \A o \in Objects : /\ Holders(o)' = Holders(o) /\ NoBackRef(o)' = NoBackRef(o)
                         /\ Live(o)' = Live(o)
  BY <1>1 DEF Holders, NoBackRef, Live
<1>4. UNCHANGED <<state, cpc, obj, idx, sum, todo, toFree, thr, waiting, hazards, visible>>
  BY DEF collectorVars, trackVars, passVars, scanVars, readVars
<1>5. \A o \in Objects : Dead(o) => Dead(o)'
  BY <1>3 DEF Dead, Guarded
<1>6. \A o \in Objects : LooksDead(o)' => LooksDead(o) /\ Holders(o) = {} /\ NoBackRef(o)
  BY <1>1, <1>3, <1>4 DEF LooksDead
<1>7. \A o \in Objects : UserWrite(o)
  BY <1>1 DEF UserWrite
<1>8. \A o \in Objects : /\ Live(o) => Live(o)' /\ UserWrite(o)
                         /\ Live(o) /\ NoBackRef(o)' => NoBackRef(o)
  BY <1>3, <1>7
<1> QED BY <1>2, <1>4, <1>5, <1>6, <1>8 DEF HeapStep, UserStep

\* A clone: the empty handle p comes to own x, which is not dead, and the increment
\* is on any shard.
LEMMA AddRef ==
  ASSUME SafeInv, NEW p \in Handles, NEW x \in Objects, NEW s \in Shards,
         holds[p] = NULL, ~Dead(x),
         Increment(x, s), holds' = [holds EXCEPT ![p] = x],
         UNCHANGED <<kind, backRef, signalVars, collectorVars>>, OwedKept,
         \A t \in Threads, o \in Objects : Loading(t, o)' => Loading(t, o)
  PROVE  HeapStep
<1>0. TypeInv /\ BackRefsMatch /\ RefCountExact
  BY DEF SafeInv
<1>1. /\ holds \in [Places -> OptObject] /\ counters \in [Objects -> [Shards -> Int]]
      /\ p \in Places
  BY <1>0, Types, PlaceFacts
<1>2. /\ Cardinality(Holders(x)') = Cardinality(Holders(x)) + 1
      /\ Holders(x)' # {}
      /\ \A o \in Objects : o # x => Holders(o)' = Holders(o)
  BY <1>1, HoldersOfAdd
<1>3. /\ counters'[x] = [counters[x] EXCEPT ![s] = IncrementRefCount(@)]
      /\ \A o \in Objects : o # x => counters'[o] = counters[o]
  BY <1>1 DEF Increment
<1>4. \A o \in Objects : /\ NoBackRef(o)' = NoBackRef(o) /\ Live(o)' = Live(o)
                         /\ Guarded(o)' = Guarded(o)
                         /\ \A t \in Threads, i \in Slots : GuardedBy(t, i, o)' = GuardedBy(t, i, o)
  BY DEF NoBackRef, Live, Guarded, GuardedBy, signalVars
<1>5. /\ UNCHANGED <<state, cpc, obj, idx, sum, todo, toFree, thr, waiting, hazards, visible>>
  BY DEF collectorVars, trackVars, passVars, scanVars, readVars, signalVars
<1>6. \A o \in Objects : UserWrite(o)
  BY <1>3 DEF UserWrite
<1>7. \A o \in Objects : Dead(o) => Dead(o)'
  BY <1>2, <1>4 DEF Dead
<1>8. \A o \in Objects : LooksDead(o)' => LooksDead(o)
  BY <1>2, <1>3, <1>4, <1>5 DEF LooksDead
<1>9. UserStep
  BY <1>4, <1>5, <1>6, <1>7, <1>8 DEF UserStep
<1>10. BackRefsMatch'
  <2>1. \A o \in Objects : /\ holds'[WeakField(o)] = holds[WeakField(o)]
                           /\ holds'[DataField(o)] = holds[DataField(o)]
    BY <1>1, PlaceFacts
  <2>2. backRef \in [Objects -> OptObject]
    BY <1>0, Types
  <2> QED BY <1>0, <2>1, <2>2 DEF BackRefsMatch, OptObject
<1>11. RefCountExact'
  <2>1. 0 \in 0 .. ShardCount
    BY ShardCountAssumption
  <2>2. counters[x] \in [Shards -> Int]
    BY <1>1
  <2>3. StrongCount(x)' = StrongCount(x) + 1
    BY <1>3, <2>1, <2>2, SumOfIncrement DEF StrongCount
  <2>4. \A o \in Objects : o # x => StrongCount(o)' = StrongCount(o)
    BY <1>3 DEF StrongCount
  <2>c. \A o \in Objects :
          Cardinality(Holders(o)) \in Nat /\ Cardinality(OwedIncrements(o)) \in Nat
    BY HoldersFinite, OwedBelow
  <2> QED BY <1>0, <1>2, <1>4, <2>3, <2>4, <2>c DEF RefCountExact, OwedKept
<1> QED BY <1>9, <1>10, <1>11 DEF HeapStep

\* A drop: the place p gives up x, and the decrement on any shard leaves a tag.  p is
\* a handle, or a field of an object that is being freed.
LEMMA DropRef ==
  ASSUME SafeInv, NEW p \in Places, NEW x \in Objects, NEW s \in Shards,
         holds[p] = x,
         p \in Handles \/ \E o \in Objects : kind[o] = "freeing" /\ p \in {WeakField(o), DataField(o)},
         Decrement(x, s), holds' = [holds EXCEPT ![p] = NULL],
         UNCHANGED <<kind, backRef, signalVars, op>>,
         UNCHANGED <<state, cpc, obj, idx, sum, todo, toFree, thr, waiting, hazards>>
  PROVE  HeapStep
<1>0. TypeInv /\ BackRefsMatch /\ RefCountExact
  BY DEF SafeInv
<1>1. holds \in [Places -> OptObject] /\ counters \in [Objects -> [Shards -> Int]]
      /\ backRef \in [Objects -> OptObject]
  BY <1>0, Types
<1>2. /\ Cardinality(Holders(x)') = Cardinality(Holders(x)) - 1
      /\ \A o \in Objects : o # x => Holders(o)' = Holders(o)
      /\ \A o \in Objects : Holders(o)' \subseteq Holders(o)
  BY <1>1, HoldersOfRemove
<1>3. /\ counters'[x] = [counters[x] EXCEPT ![s] = DecrementRefCountAndSetTag(@)]
      /\ \A o \in Objects : o # x => counters'[o] = counters[o]
  BY <1>1 DEF Decrement
<1>4. \A o \in Objects : /\ NoBackRef(o)' = NoBackRef(o) /\ Live(o)' = Live(o)
                         /\ Guarded(o)' = Guarded(o)
                         /\ \A t \in Threads : Loading(t, o)' = Loading(t, o)
                         /\ \A t \in Threads, i \in Slots : GuardedBy(t, i, o)' = GuardedBy(t, i, o)
  BY DEF NoBackRef, Live, Guarded, GuardedBy, Loading, signalVars
<1>c. counters[x] \in [Shards -> Int] /\ 0 \in 0 .. ShardCount
  BY <1>1, ShardCountAssumption
<1>d. Tag(counters'[x][s]) /\ StrongCount(x)' = StrongCount(x) - 1
  BY <1>3, <1>c, SumOfDecrement DEF StrongCount
<1>5. visible' = visible
  BY DEF signalVars
<1>6. \A o \in Objects : UserWrite(o)
  BY <1>3 DEF UserWrite
<1>7. \A o \in Objects : Dead(o) => Dead(o)'
  BY <1>2, <1>4 DEF Dead
<1>8. \A o \in Objects : LooksDead(o)' => LooksDead(o)
  BY <1>2, <1>3, <1>4, <1>d DEF LooksDead
<1>9. UserStep
  BY <1>4, <1>5, <1>6, <1>7, <1>8 DEF UserStep
<1>10. BackRefsMatch'
  <2>1. \A q \in Places : q # p => holds'[q] = holds[q]
    BY <1>1
  <2>2. ASSUME NEW w \in Objects, backRef[w] # NULL
        PROVE  holds'[WeakField(backRef[w])] = w /\ kind[backRef[w]] = "data"
    <3>1. backRef[w] \in Objects /\ holds[WeakField(backRef[w])] = w /\ kind[backRef[w]] = "data"
      BY <1>0, <1>1, <2>2 DEF BackRefsMatch, OptObject
    <3>2. WeakField(backRef[w]) # p
      <4>1. CASE p \in Handles
        BY <3>1, <4>1, PlaceFacts
      <4>2. ASSUME NEW o \in Objects, kind[o] = "freeing", p \in {WeakField(o), DataField(o)}
            PROVE  WeakField(backRef[w]) # p
        <5>1. backRef[w] # o
          BY <3>1, <4>2
        <5> QED BY <4>2, <5>1, FieldFacts
      <4> QED BY <4>1, <4>2
    <3> QED BY <2>1, <3>1, <3>2, PlaceFacts
  <2>3. \A q \in Places : holds'[q] = holds[q] \/ holds'[q] = NULL
    BY <1>1
  <2>4. \A o \in Objects : WeakField(o) \in Places /\ DataField(o) \in Places
    BY PlaceFacts
  <2> QED BY <1>0, <2>2, <2>3, <2>4 DEF BackRefsMatch
<1>11. RefCountExact'
  <2>4. \A o \in Objects : o # x => StrongCount(o)' = StrongCount(o)
    BY <1>3 DEF StrongCount
  <2>c. \A o \in Objects :
          Cardinality(Holders(o)) \in Nat /\ Cardinality(OwedIncrements(o)) \in Nat
    BY HoldersFinite, OwedBelow
  <2> QED BY <1>0, <1>2, <1>4, <1>d, <2>4, <2>c, OwedUnmoved DEF RefCountExact, OwedKept
<1> QED BY <1>9, <1>10, <1>11 DEF HeapStep

\* swap: what a cell and a handle own changes places.
LEMMA ExchangeRefs ==
  ASSUME SafeInv, NEW p \in Cells, NEW q \in Handles,
         holds' = [holds EXCEPT ![p] = holds[q], ![q] = holds[p]],
         UNCHANGED <<kind, counters, backRef, signalVars, collectorVars, op>>
  PROVE  HeapStep
<1>0. TypeInv /\ BackRefsMatch /\ RefCountExact
  BY DEF SafeInv
<1>1. /\ holds \in [Places -> OptObject] /\ p \in Places /\ q \in Places /\ p # q
      /\ \A o \in Objects : WeakField(o) \notin {p, q} /\ DataField(o) \notin {p, q}
  BY <1>0, Types, PlaceFacts
<1>2. \A o \in Objects : /\ Cardinality(Holders(o)') = Cardinality(Holders(o))
                         /\ Holders(o)' = {} <=> Holders(o) = {}
  BY <1>1, HoldersOfExchange
<1>4. \A o \in Objects : /\ NoBackRef(o)' = NoBackRef(o) /\ Live(o)' = Live(o)
                         /\ Guarded(o)' = Guarded(o)
                         /\ \A t \in Threads : Loading(t, o)' = Loading(t, o)
                         /\ \A t \in Threads, i \in Slots : GuardedBy(t, i, o)' = GuardedBy(t, i, o)
  BY DEF NoBackRef, Live, Guarded, GuardedBy, Loading, signalVars
<1>5. /\ UNCHANGED <<state, cpc, obj, idx, sum, todo, toFree, thr, waiting, hazards, visible>>
  BY DEF collectorVars, trackVars, passVars, scanVars, readVars, signalVars
<1>6. \A o \in Objects : UserWrite(o)
  BY DEF UserWrite
<1>7. \A o \in Objects : Dead(o) => Dead(o)'
  BY <1>2, <1>4 DEF Dead
<1>8. \A o \in Objects : LooksDead(o)' => LooksDead(o)
  BY <1>2, <1>4, <1>5 DEF LooksDead
<1>9. UserStep
  BY <1>4, <1>5, <1>6, <1>7, <1>8 DEF UserStep
<1>10. BackRefsMatch'
  <2>1. \A o \in Objects : /\ holds'[WeakField(o)] = holds[WeakField(o)]
                           /\ holds'[DataField(o)] = holds[DataField(o)]
    BY <1>1, PlaceFacts
  <2>2. backRef \in [Objects -> OptObject]
    BY <1>0, Types
  <2> QED BY <1>0, <2>1, <2>2 DEF BackRefsMatch, OptObject
<1>11. RefCountExact'
  <2>1. \A o \in Objects : StrongCount(o)' = StrongCount(o)
    BY DEF StrongCount
  <2> QED BY <1>0, <1>2, <1>4, <2>1, OwedUnmoved DEF RefCountExact, OwedKept
<1> QED BY <1>9, <1>10, <1>11 DEF HeapStep

\* Sdarc::new at a free address n: the handle h is its one owner, and an Sdarc that
\* moves into the new value is owned by its data field instead of by the handle hc.
LEMMA NewRef ==
  ASSUME SafeInv, NEW h \in Handles, NEW n \in DataObjects, NEW s \in Shards, NEW p \in Shards,
         NEW hc \in Handles \cup {NULL}, New(h, n, s, p, hc)
  PROVE  HeapStep
<1>0. TypeInv /\ BackRefsMatch /\ RefCountExact /\ VerdictsAreRight
  BY DEF SafeInv
<1>1. /\ holds \in [Places -> OptObject] /\ counters \in [Objects -> [Shards -> Int]]
      /\ kind \in [Objects -> Kinds] /\ backRef \in [Objects -> OptObject]
      /\ n \in Objects /\ h \in Places /\ DataField(n) \in Places
  BY <1>0, Types, PlaceFacts DEF Objects
<1>2. holds[h] = NULL /\ kind[n] = "unallocated" /\ ~Live(n)
  BY DEF New, Vacant, Live
<1>3. Dead(n) /\ Holders(n) = {} /\ holds[DataField(n)] = NULL
  BY <1>0, <1>1, <1>2 DEF VerdictsAreRight, BackRefsMatch, Dead
<1>4. hc # NULL => hc \in Places /\ hc # h /\ holds[hc] # NULL
  BY <1>2, PlaceFacts DEF New, Movable, Readable
<1>5. /\ holds'[h] = n
      /\ hc # NULL => holds'[hc] = NULL /\ holds'[DataField(n)] = holds[hc]
      /\ \A q \in Places : q # h /\ q # hc /\ (hc # NULL => q # DataField(n)) =>
           holds'[q] = holds[q]
  BY <1>1, <1>4, PlaceFacts DEF New
<1>f. h # DataField(n) /\ (hc # NULL => hc # DataField(n))
  BY <1>1, PlaceFacts
<1>6. Holders(n)' = {h}
  <2>1. \A q \in Places : holds[q] # n
    BY <1>3 DEF Holders
  <2>2. ASSUME NEW q \in Places, q # h
        PROVE  holds'[q] # n
    <3>1. CASE q = hc
      BY <1>1, <1>5, <3>1, PlaceFacts
    <3>2. CASE hc # NULL /\ q = DataField(n)
      BY <1>4, <1>5, <2>1, <3>2
    <3>3. CASE q # hc /\ (hc # NULL => q # DataField(n))
      BY <1>5, <2>1, <2>2, <3>3
    <3> QED BY <3>1, <3>2, <3>3
  <2> QED BY <1>1, <1>5, <2>2 DEF Holders
<1>7. ASSUME NEW o \in Objects, o # n
      PROVE  /\ Cardinality(Holders(o)') = Cardinality(Holders(o))
             /\ Holders(o)' = {} <=> Holders(o) = {}
  <2>1. CASE hc = NULL \/ holds[hc] # o
    <3>1. ASSUME NEW q \in Places
          PROVE  holds'[q] = o <=> holds[q] = o
      <4>1. CASE q = h
        BY <1>2, <1>5, <1>7, <4>1, PlaceFacts
      <4>2. CASE q = hc
        BY <1>5, <2>1, <4>2, PlaceFacts
      <4>3. CASE hc # NULL /\ q = DataField(n)
        BY <1>3, <1>5, <2>1, <4>3, PlaceFacts
      <4>4. CASE q # h /\ q # hc /\ (hc # NULL => q # DataField(n))
        BY <1>5, <4>4
      <4> QED BY <4>1, <4>2, <4>3, <4>4
    <3>2. Holders(o)' = Holders(o)
      BY <3>1 DEF Holders
    <3> QED BY <3>2
  <2>2. CASE hc # NULL /\ holds[hc] = o
    <3>1. hc \in Holders(o) /\ DataField(n) \notin Holders(o)
      BY <1>3, <1>4, <2>2, PlaceFacts DEF Holders
    <3>2. Holders(o)' = (Holders(o) \ {hc}) \cup {DataField(n)}
      BY <1>1, <1>2, <1>3, <1>4, <1>5, <1>7, <2>2, PlaceFacts DEF Holders
    <3> QED BY <3>1, <3>2, HoldersFinite, CardinalityOfReplacement
  <2> QED BY <2>1, <2>2
<1>8. /\ UNCHANGED <<backRef, signals, visible, guard, op>>
      /\ UNCHANGED <<state, cpc, obj, idx, sum, todo, toFree, thr, waiting, hazards>>
  BY DEF New, signalVars, passVars, scanVars, readVars
<1>9. /\ kind'[n] = "data" /\ \A o \in Objects : o # n => kind'[o] = kind[o]
      /\ counters'[n] = FreshCounters(s)
      /\ \A o \in Objects : o # n => counters'[o] = counters[o]
  BY <1>1 DEF New
<1>10. \A o \in Objects : /\ NoBackRef(o)' = NoBackRef(o)
                          /\ o # n => Live(o)' = Live(o)
                          /\ Guarded(o)' = Guarded(o)
                          /\ \A t \in Threads : Loading(t, o)' = Loading(t, o)
                          /\ \A t \in Threads, i \in Slots : GuardedBy(t, i, o)' = GuardedBy(t, i, o)
  BY <1>8, <1>9 DEF NoBackRef, Live, Guarded, GuardedBy, Loading
<1>11. Live(n)'
  BY <1>9 DEF Live
<1>12. \A o \in Objects : o # n /\ Dead(o) => Dead(o)'
  BY <1>7, <1>10 DEF Dead
<1>13. \A o \in Objects : LooksDead(o)' => LooksDead(o)
  BY <1>6, <1>7, <1>8, <1>9, <1>10 DEF LooksDead
<1>14. \A o \in Objects : Live(o) => Live(o)' /\ UserWrite(o)
  BY <1>2, <1>9, <1>10 DEF UserWrite
<1>15. UserStep
  BY <1>2, <1>8, <1>10, <1>11, <1>12, <1>13, <1>14 DEF UserStep
<1>16. BackRefsMatch'
  <2>1. \A o \in Objects : /\ holds'[WeakField(o)] = holds[WeakField(o)]
                           /\ o # n => holds'[DataField(o)] = holds[DataField(o)]
    <3> SUFFICES ASSUME NEW o \in Objects
                 PROVE  /\ holds'[WeakField(o)] = holds[WeakField(o)]
                        /\ o # n => holds'[DataField(o)] = holds[DataField(o)]
      OBVIOUS
    <3>1. /\ WeakField(o) \in Places /\ WeakField(o) # h /\ WeakField(o) # hc
          /\ DataField(o) \in Places /\ DataField(o) # h /\ DataField(o) # hc
      BY PlaceFacts
    <3>2. WeakField(o) # DataField(n) /\ (o # n => DataField(o) # DataField(n))
      BY FieldFacts
    <3> QED BY <1>5, <3>1, <3>2
  <2>2. \A w \in Objects : backRef[w] # NULL => backRef[w] \in Objects
    BY <1>1 DEF OptObject
  <2> QED BY <1>0, <1>2, <1>8, <1>9, <2>1, <2>2 DEF BackRefsMatch
<1>17. RefCountExact'
  <2>1. StrongCount(n)' = 1
    BY <1>9, SumOfFresh DEF StrongCount
  <2>2. Cardinality(Holders(n)') = 1
    BY <1>6, FS_Singleton
  <2>3. \A o \in Objects : o # n => StrongCount(o)' = StrongCount(o)
    BY <1>9 DEF StrongCount
  <2>4. OwedKept /\ Cardinality(OwedIncrements(n)) = 0
    BY <1>1, <1>3, <1>8, OwedBelow, OwedUnmoved, FS_EmptySet
  <2>5. \A o \in Objects : o # n /\ Live(o)' => StrongCount(o)' = (Cardinality(Holders(o)) - Cardinality(OwedIncrements(o)))'
    BY <1>0, <1>7, <1>10, <2>3, <2>4 DEF RefCountExact, OwedKept
  <2>6. StrongCount(n)' = (Cardinality(Holders(n)) - Cardinality(OwedIncrements(n)))'
    BY <1>1, <2>1, <2>2, <2>4 DEF OwedKept
  <2> QED BY <2>5, <2>6 DEF RefCountExact
<1> QED BY <1>15, <1>16, <1>17 DEF HeapStep

\* The first downgrade: the new WeakSdarcInner w is owned by the weak_inner_ref of
\* the object in src, and points back to it.
LEMMA WeakRef ==
  ASSUME SafeInv, NEW t \in Threads, NEW src \in Handles, NEW dst \in Handles,
         NEW w \in WeakObjects, NEW s \in Shards, NEW p \in Shards,
         Downgrade(t, src, dst, w, s, p)
  PROVE  HeapStep
<1>0. TypeInv /\ BackRefsMatch /\ RefCountExact /\ VerdictsAreRight
  BY DEF SafeInv
<1>1. /\ holds \in [Places -> OptObject] /\ counters \in [Objects -> [Shards -> Int]]
      /\ kind \in [Objects -> Kinds] /\ backRef \in [Objects -> OptObject]
      /\ w \in Objects /\ src \in Places /\ op \in [Threads -> Ops]
  BY <1>0, Types, PlaceFacts DEF Objects
<1>a. holds[src] \in Objects
  BY <1>1, LiveFacts DEF Downgrade, Readable
<1>b. PICK x \in Objects : x = holds[src]
  BY <1>a
<1>2. /\ x # NULL /\ kind[x] = "data" /\ holds[WeakField(x)] = NULL
      /\ kind[w] = "unallocated" /\ ~Live(w)
  BY <1>b, PlaceFacts DEF Downgrade, Live
<1>3. x \in Objects /\ x # w /\ Holders(x) # {} /\ WeakField(x) \in Places /\ Live(x)
  BY <1>1, <1>2, <1>b, LiveFacts, PlaceFacts
<1>4. Dead(w) /\ Holders(w) = {} /\ backRef[w] = NULL
  BY <1>0, <1>1, <1>2, LiveFacts DEF VerdictsAreRight, Dead
<1>5. /\ UNCHANGED <<signals, visible, guard>>
      /\ UNCHANGED <<state, cpc, obj, idx, sum, todo, toFree, thr, waiting, hazards>>
      /\ holds' = [holds EXCEPT ![WeakField(x)] = w]
      /\ backRef' = [backRef EXCEPT ![w] = x]
      /\ op' = [op EXCEPT ![t] = Call("weakclone", src, NULL, dst, {src})]
  BY <1>b DEF Downgrade, signalVars, passVars, scanVars, readVars
<1>6. /\ kind'[w] = "weak" /\ \A o \in Objects : o # w => kind'[o] = kind[o]
      /\ counters'[w] = FreshCounters(s)
      /\ \A o \in Objects : o # w => counters'[o] = counters[o]
  BY <1>1 DEF Downgrade
<1>7. /\ Cardinality(Holders(w)') = Cardinality(Holders(w)) + 1
      /\ Holders(w)' # {}
      /\ \A o \in Objects : o # w => Holders(o)' = Holders(o)
  BY <1>1, <1>2, <1>3, <1>5, HoldersOfAdd
<1>8. /\ backRef'[w] = x /\ \A v \in Objects : v # w => backRef'[v] = backRef[v]
  BY <1>1, <1>5
<1>9. \A o \in Objects : o # x => (NoBackRef(o)' <=> NoBackRef(o))
  BY <1>4, <1>8, PlaceFacts DEF NoBackRef
<1>10. ~NoBackRef(x)'
  BY <1>1, <1>8 DEF NoBackRef
<1>11. \A u \in Threads, o \in Objects : Loading(u, o)' => Loading(u, o)
  BY <1>1, <1>5 DEF Loading, Call
<1>12. \A o \in Objects : /\ Guarded(o)' = Guarded(o)
                          /\ \A u \in Threads, i \in Slots : GuardedBy(u, i, o)' = GuardedBy(u, i, o)
                          /\ o # w => Live(o)' = Live(o)
  BY <1>5, <1>6 DEF Guarded, GuardedBy, Live
<1>13. Live(w)'
  BY <1>6 DEF Live
<1>14. ~Dead(x)
  BY <1>3 DEF Dead
<1>15. \A o \in Objects : o # w /\ Dead(o) => Dead(o)'
  BY <1>7, <1>9, <1>11, <1>12, <1>14 DEF Dead
<1>16. \A o \in Objects : LooksDead(o)' => LooksDead(o)
  BY <1>5, <1>6, <1>7, <1>9, <1>10 DEF LooksDead
<1>17. \A o \in Objects : Live(o) => Live(o)' /\ UserWrite(o)
  BY <1>2, <1>6, <1>12 DEF UserWrite
<1>18. \A o \in Objects : NoBackRef(o)' => NoBackRef(o)
  BY <1>9, <1>10
<1>19. UserStep
  BY <1>2, <1>5, <1>11, <1>12, <1>13, <1>15, <1>16, <1>17, <1>18 DEF UserStep
<1>20. BackRefsMatch'
  <2>1. \A o \in Objects : /\ o # x => holds'[WeakField(o)] = holds[WeakField(o)]
                           /\ holds'[DataField(o)] = holds[DataField(o)]
    BY <1>1, <1>3, <1>5, PlaceFacts, FieldFacts
  <2>2. holds'[WeakField(x)] = w
    BY <1>1, <1>3, <1>5
  <2>3. \A v \in Objects : v # w /\ backRef[v] # NULL =>
          /\ backRef[v] \in Objects /\ holds[WeakField(backRef[v])] = v
          /\ kind[backRef[v]] = "data" /\ backRef[v] # x /\ backRef[v] # w
    BY <1>0, <1>1, <1>2, PlaceFacts DEF BackRefsMatch, OptObject
  <2>4. \A v \in Objects : backRef'[v] # NULL =>
          holds'[WeakField(backRef'[v])] = v /\ kind'[backRef'[v]] = "data"
    BY <1>2, <1>3, <1>6, <1>8, <2>1, <2>2, <2>3
  <2>5. \A o \in Objects : holds[WeakField(o)] # w
    BY <1>4, PlaceFacts DEF Holders
  <2>6. ASSUME NEW o \in Objects, holds'[WeakField(o)] # NULL
        PROVE  backRef'[holds'[WeakField(o)]] \in {o, NULL}
    <3>1. CASE o = x
      BY <1>8, <2>2, <3>1
    <3>2. CASE o # x
      <4>1. holds[WeakField(o)] \in Objects
        BY <1>1, <2>1, <2>6, <3>2, PlaceFacts DEF OptObject
      <4> QED BY <1>0, <1>8, <2>1, <2>5, <2>6, <3>2, <4>1 DEF BackRefsMatch
    <3> QED BY <3>1, <3>2
  <2>7. \A o \in Objects : kind'[o] = "unallocated" => holds'[DataField(o)] = NULL
    BY <1>0, <1>6, <2>1 DEF BackRefsMatch
  <2> QED BY <2>4, <2>6, <2>7 DEF BackRefsMatch
<1>21. RefCountExact'
  <2>1. StrongCount(w)' = 1
    BY <1>6, SumOfFresh DEF StrongCount
  <2>2. Cardinality(Holders(w)') = 1
    <3>1. Cardinality(Holders(w)) = 0
      BY <1>1, <1>4, HoldersFinite
    <3> QED BY <1>7, <3>1
  <2>3. \A o \in Objects : o # w => StrongCount(o)' = StrongCount(o)
    BY <1>6 DEF StrongCount
  <2>a. op[t].pc # "cas" /\ op'[t].pc # "cas" /\ \A u \in Threads \ {t} : op'[u] = op[u]
    BY <1>1, <1>5, IdleOpFacts DEF Downgrade, Call
  <2>4. OwedKept /\ Cardinality(OwedIncrements(w)) = 0
    BY <1>1, <1>4, <2>a, OwedBelow, OwedUnmoved, FS_EmptySet
  <2>5. \A o \in Objects : o # w /\ Live(o)' => StrongCount(o)' = (Cardinality(Holders(o)) - Cardinality(OwedIncrements(o)))'
    BY <1>0, <1>7, <1>12, <2>3, <2>4 DEF RefCountExact, OwedKept
  <2>6. StrongCount(w)' = (Cardinality(Holders(w)) - Cardinality(OwedIncrements(w)))'
    BY <1>1, <2>1, <2>2, <2>4 DEF OwedKept
  <2> QED BY <2>5, <2>6 DEF RefCountExact
<1> QED BY <1>19, <1>20, <1>21 DEF HeapStep

-----------------------------------------------------------------------------
\* What a step of user code has to establish besides types and tracking.
SafeStep == HeapStep /\ CallsAreConsistent'

\* What is stored in one signal of a thread changes no other.
LEMMA StoreFacts ==
  ASSUME SafeInv, NEW t \in Threads
  PROVE  /\ \A b : StoreFlag(t, b) =>
              /\ signals'[t].flag = b /\ signals'[t].slots = signals[t].slots
              /\ \A u \in Threads \ {t} : signals'[u] = signals[u]
         /\ \A i \in Slots : \A p : StoreSlot(t, i, p) =>
              /\ signals'[t].flag = signals[t].flag /\ signals'[t].slots[i] = p
              /\ \A j \in Slots \ {i} : signals'[t].slots[j] = signals[t].slots[j]
              /\ \A u \in Threads \ {t} : signals'[u] = signals[u]
<1>1. signals \in [Threads -> Signals]
  BY Types DEF SafeInv
<1>2. \A u \in Threads : signals[u] \in [slots : [Slots -> OptObject], flag : BOOLEAN]
  BY <1>1 DEF Signals
<1>3. ASSUME NEW b, StoreFlag(t, b)
      PROVE  /\ signals'[t].flag = b /\ signals'[t].slots = signals[t].slots
             /\ \A u \in Threads \ {t} : signals'[u] = signals[u]
  BY <1>1, <1>2, <1>3 DEF StoreFlag
<1>4. ASSUME NEW i \in Slots, NEW p, StoreSlot(t, i, p)
      PROVE  /\ signals'[t].flag = signals[t].flag /\ signals'[t].slots[i] = p
             /\ \A j \in Slots \ {i} : signals'[t].slots[j] = signals[t].slots[j]
             /\ \A u \in Threads \ {t} : signals'[u] = signals[u]
  BY <1>1, <1>2, <1>4 DEF StoreSlot
<1> QED BY <1>3, <1>4

\* A step of a call of t that leaves the heap alone.
LEMMA ReaderStep ==
  ASSUME SafeInv, NEW t \in Threads, UNCHANGED <<heapVars, collectorVars, visible>>,
         \A u \in Threads \ {t} :
           op'[u] = op[u] /\ signals'[u] = signals[u] /\ guard'[u] = guard[u],
         CallIsConsistent(t)', op[t].pc # "cas", op'[t].pc # "cas",
         op'[t].dst \in {NULL, op[t].dst} \/ Returned(op'[t].dst),
         \A o \in Objects : Holders(o) = {} /\ NoBackRef(o) =>
           /\ Loading(t, o)' => Loading(t, o)
           /\ \A i \in Slots : GuardedBy(t, i, o)' => GuardedBy(t, i, o)
  PROVE  SafeStep
<1>1. HeapStep
  <2>1. \A o \in Objects, u \in Threads : u # t =>
          /\ Loading(u, o)' => Loading(u, o)
          /\ \A i \in Slots : GuardedBy(u, i, o)' => GuardedBy(u, i, o)
    BY DEF Loading, GuardedBy
  <2>2. OwedKept
    BY OwedUnmoved
  <2> QED BY <2>1, <2>2, QuietStep
<1>2. KeepsCalls(t)
  BY DEF KeepsCalls, heapVars
<1> QED BY <1>1, <1>2, CallsKept DEF SafeStep

\* A successful compare_exchange: the cell owns what n owns, and nobody has counted
\* that yet; what the cell owned goes to the caller.
LEMMA InstallRef ==
  ASSUME SafeInv, NEW t \in Threads, NEW c \in Cells, NEW m \in Handles, NEW n \in Handles,
         NEW dst \in Handles, CompareAndSet(t, c, m, n, dst)
  PROVE  SafeStep
<1>0. TypeInv /\ BackRefsMatch /\ RefCountExact /\ CallsAreConsistent
  BY DEF SafeInv
<1>1. /\ holds \in [Places -> OptObject] /\ backRef \in [Objects -> OptObject]
      /\ op \in [Threads -> Ops]
      /\ c \in Places /\ n \in Places /\ dst \in Places /\ c # dst /\ n \notin {c, dst}
      /\ \A o \in Objects : WeakField(o) \notin {c, dst} /\ DataField(o) \notin {c, dst}
  BY <1>0, Types, PlaceFacts DEF CompareAndSet, Installed
<1>2. /\ holds[dst] = NULL /\ Returned(dst) /\ ~Borrowed(dst) /\ op[t] = IdleOp
      /\ holds' = [holds EXCEPT ![c] = holds[n], ![dst] = holds[c]]
      /\ UNCHANGED <<kind, counters, backRef, signalVars, collectorVars>>
  BY DEF CompareAndSet, Installed, Vacant
<1>3. KeepsCalls(t)
  <2>1. \A p \in Places : holds'[p] # holds[p] => p \in {c, dst}
    BY <1>1, <1>2
  <2>2. \A u \in Threads : op[u].dst # dst /\ dst \notin op[u].pins
    BY <1>2 DEF Returned, Borrowed
  <2>3. \A u \in Threads \ {t} : op'[u] = op[u]
    BY DEF CompareAndSet, Installed
  <2> QED BY <1>2, <2>1, <2>2, <2>3 DEF KeepsCalls, signalVars
<1>4. \A i \in Slots : guard[t][i] # NULL => signals[t].slots[i] # NULL
  BY <1>0 DEF CallsAreConsistent, CallIsConsistent
<1>5. CASE holds[n] = NULL
  <2>1. op' = op
    BY <1>1, <1>2, <1>5 DEF CompareAndSet, Installed
  <2>2. holds' = [holds EXCEPT ![c] = holds[dst], ![dst] = holds[c]]
    BY <1>2, <1>5
  <2>3. HeapStep
    BY <1>2, <2>1, <2>2, ExchangeRefs
  <2>4. CallIsConsistent(t)'
    BY <1>2, <1>4, <2>1, IdleOpFacts DEF CallIsConsistent, ResultSteps, signalVars
  <2> QED BY <1>3, <2>1, <2>3, <2>4, CallsKept DEF SafeStep
<1>6. CASE holds[n] # NULL
  <2>1. PICK x \in Objects : x = holds[n]
    BY <1>1, <1>6 DEF OptObject
  <2>2. /\ op'[t].pc = "cas" /\ op'[t].loc = c /\ op'[t].ptr = x
        /\ op'[t].dst = dst /\ op'[t].pins = {m, n}
        /\ \A u \in Threads \ {t} : op'[u] = op[u]
    BY <1>1, <1>6, <2>1 DEF CompareAndSet, Installed, Call
  <2>3. CallIsConsistent(t)'
    <3>1. holds'[n] = x
      BY <1>1, <1>2, <2>1
    <3> QED BY <1>2, <1>4, <2>2, <3>1 DEF CallIsConsistent, ResultSteps, signalVars
  <2>4. /\ Cardinality(Holders(x)') = Cardinality(Holders(x)) + 1
        /\ \A o \in Objects : o # x => Cardinality(Holders(o)') = Cardinality(Holders(o))
        /\ \A o \in Objects : Holders(o)' = {} <=> Holders(o) = {}
    <3>1. holds' = [holds EXCEPT ![c] = x, ![dst] = holds[c]]
      BY <1>2, <2>1
    <3>2. /\ Cardinality(Holders(x)') = Cardinality(Holders(x)) + 1
          /\ \A o \in Objects : o # x =>
               /\ Cardinality(Holders(o)') = Cardinality(Holders(o))
               /\ Holders(o)' = {} <=> Holders(o) = {}
      BY <1>1, <1>2, <3>1, HoldersOfInstall
    <3>3. n \in Holders(x) /\ n \in Holders(x)'
      BY <1>1, <2>1, <3>1 DEF Holders
    <3> QED BY <3>2, <3>3
  <2>5. /\ Cardinality(OwedIncrements(x)') = Cardinality(OwedIncrements(x)) + 1
        /\ \A o \in Objects : o # x => OwedIncrements(o)' = OwedIncrements(o)
    <3>1. op[t].pc # "cas"
      BY <1>2, IdleOpFacts
    <3>2. \A o \in Objects : o # x => OwedIncrements(o)' = OwedIncrements(o)
      BY <2>2, <3>1 DEF OwedIncrements
    <3>3. OwedIncrements(x)' = OwedIncrements(x) \cup {t} /\ t \notin OwedIncrements(x)
      BY <2>2, <3>1 DEF OwedIncrements
    <3>4. IsFiniteSet(OwedIncrements(x))
      BY OwedBelow
    <3> QED BY <3>2, <3>3, <3>4, FS_AddElement
  <2>6. \A o \in Objects : /\ NoBackRef(o)' = NoBackRef(o) /\ Live(o)' = Live(o)
                           /\ Guarded(o)' = Guarded(o)
                           /\ \A u \in Threads : Loading(u, o)' => Loading(u, o)
                           /\ \A u \in Threads, i \in Slots :
                                GuardedBy(u, i, o)' = GuardedBy(u, i, o)
    BY <1>2, <2>2 DEF NoBackRef, Live, Guarded, GuardedBy, Loading, signalVars
  <2>7. UNCHANGED <<state, cpc, obj, idx, sum, todo, toFree, thr, waiting, hazards, visible>>
    BY <1>2 DEF collectorVars, trackVars, passVars, scanVars, readVars, signalVars
  <2>8. \A o \in Objects : UserWrite(o)
    BY <1>2 DEF UserWrite
  <2>9. \A o \in Objects : Dead(o) => Dead(o)'
    BY <2>4, <2>6 DEF Dead
  <2>10. \A o \in Objects : LooksDead(o)' => LooksDead(o)
    BY <1>2, <2>4, <2>6, <2>7 DEF LooksDead
  <2>11. UserStep
    BY <2>6, <2>7, <2>8, <2>9, <2>10 DEF UserStep
  <2>12. BackRefsMatch'
    <3>1. \A o \in Objects : /\ holds'[WeakField(o)] = holds[WeakField(o)]
                             /\ holds'[DataField(o)] = holds[DataField(o)]
      BY <1>1, <1>2, PlaceFacts
    <3>2. UNCHANGED <<kind, backRef>> /\ \A w \in Objects : backRef[w] # NULL => backRef[w] \in Objects
      BY <1>1, <1>2 DEF OptObject
    <3> QED BY <1>0, <3>1, <3>2 DEF BackRefsMatch
  <2>13. RefCountExact'
    <3>1. \A o \in Objects : StrongCount(o)' = StrongCount(o)
      BY <1>2 DEF StrongCount
    <3>2. \A o \in Objects :
            Cardinality(Holders(o)) \in Nat /\ Cardinality(OwedIncrements(o)) \in Nat
      BY HoldersFinite, OwedBelow
    <3>3. \A o \in Objects :
            (Cardinality(Holders(o)) - Cardinality(OwedIncrements(o)))'
              = Cardinality(Holders(o)) - Cardinality(OwedIncrements(o))
      BY <2>4, <2>5, <3>2
    <3> QED BY <1>0, <2>6, <3>1, <3>3 DEF RefCountExact
  <2>14. CallsAreConsistent'
    BY <1>2, <1>3, <2>2, <2>3, CallsKept
  <2> QED BY <2>11, <2>12, <2>13, <2>14 DEF SafeStep, HeapStep
<1> QED BY <1>5, <1>6

\* The increment that pays for the reference of the cell: the object has an owner.
LEMMA CountRef ==
  ASSUME SafeInv, NEW t \in Threads, NEW s \in Shards, CasIncrement(t, s)
  PROVE  SafeStep
<1>0. TypeInv /\ BackRefsMatch /\ RefCountExact /\ CallsAreConsistent
  BY DEF SafeInv
<1>1. /\ holds \in [Places -> OptObject] /\ counters \in [Objects -> [Shards -> Int]]
      /\ op \in [Threads -> Ops]
  BY <1>0, Types
<1>2. /\ op[t].pc = "cas" /\ UNCHANGED <<kind, holds, backRef, signalVars, collectorVars>>
      /\ op'[t] = IdleOp /\ \A u \in Threads \ {t} : op'[u] = op[u]
  BY <1>1 DEF CasIncrement
<1>3. PICK x \in Objects : x = op[t].ptr
  BY <1>0, <1>2 DEF CallsAreConsistent, CallIsConsistent
<1>4. Increment(x, s)
  BY <1>3 DEF CasIncrement
<1>5. Holders(x) # {} /\ ~Dead(x)
  <2>1. t \in OwedIncrements(x)
    BY <1>2, <1>3 DEF OwedIncrements
  <2> QED BY <2>1, OwedBelow DEF Dead
<1>6. /\ counters'[x] = [counters[x] EXCEPT ![s] = IncrementRefCount(@)]
      /\ \A o \in Objects : o # x => counters'[o] = counters[o]
  BY <1>1, <1>4 DEF Increment
<1>7. \A o \in Objects : /\ NoBackRef(o)' = NoBackRef(o) /\ Live(o)' = Live(o)
                         /\ Holders(o)' = Holders(o) /\ Guarded(o)' = Guarded(o)
                         /\ \A u \in Threads : Loading(u, o)' => Loading(u, o)
                         /\ \A u \in Threads, i \in Slots :
                              GuardedBy(u, i, o)' = GuardedBy(u, i, o)
  BY <1>2, IdleOpFacts DEF NoBackRef, Live, Holders, Guarded, GuardedBy, Loading, signalVars
<1>8. UNCHANGED <<state, cpc, obj, idx, sum, todo, toFree, thr, waiting, hazards, visible>>
  BY <1>2 DEF collectorVars, trackVars, passVars, scanVars, readVars, signalVars
<1>9. \A o \in Objects : UserWrite(o)
  BY <1>5, <1>6 DEF UserWrite
<1>10. \A o \in Objects : Dead(o) => Dead(o)'
  BY <1>7 DEF Dead
<1>11. \A o \in Objects : LooksDead(o)' => LooksDead(o)
  BY <1>5, <1>6, <1>7, <1>8 DEF LooksDead
<1>12. UserStep
  BY <1>7, <1>8, <1>9, <1>10, <1>11 DEF UserStep
<1>13. BackRefsMatch'
  BY <1>0, <1>2 DEF BackRefsMatch
<1>14. RefCountExact'
  <2>1. counters[x] \in [Shards -> Int] /\ 0 \in 0 .. ShardCount
    BY <1>1, ShardCountAssumption
  <2>2. StrongCount(x)' = StrongCount(x) + 1
    BY <1>6, <2>1, SumOfIncrement DEF StrongCount
  <2>3. \A o \in Objects : o # x => StrongCount(o)' = StrongCount(o)
    BY <1>6 DEF StrongCount
  <2>4. \A o \in Objects :
          Cardinality(Holders(o)) \in Nat /\ Cardinality(OwedIncrements(o)) \in Nat
    BY HoldersFinite, OwedBelow
  <2>5. \A o \in Objects : o # x => OwedIncrements(o)' = OwedIncrements(o)
    BY <1>2, <1>3, IdleOpFacts DEF OwedIncrements
  <2>6. Cardinality(OwedIncrements(x)') = Cardinality(OwedIncrements(x)) - 1
    <3>1. OwedIncrements(x)' = OwedIncrements(x) \ {t} /\ t \in OwedIncrements(x)
      BY <1>2, <1>3, IdleOpFacts DEF OwedIncrements
    <3>2. IsFiniteSet(OwedIncrements(x))
      BY OwedBelow
    <3> QED BY <3>1, <3>2, FS_RemoveElement
  <2>7. \A o \in Objects : o # x /\ Live(o)' =>
          StrongCount(o)' = (Cardinality(Holders(o)) - Cardinality(OwedIncrements(o)))'
    BY <1>0, <1>7, <2>3, <2>5 DEF RefCountExact
  <2>8. Live(x)' => StrongCount(x)' = (Cardinality(Holders(x)) - Cardinality(OwedIncrements(x)))'
    BY <1>0, <1>7, <2>2, <2>4, <2>6 DEF RefCountExact
  <2> QED BY <2>7, <2>8 DEF RefCountExact
<1>15. CallsAreConsistent'
  <2>1. CallIsConsistent(t)'
    BY <1>0, <1>2, IdleOpFacts DEF CallsAreConsistent, CallIsConsistent, ResultSteps, signalVars
  <2>2. KeepsCalls(t)
    BY <1>2 DEF KeepsCalls, signalVars
  <2> QED BY <1>2, <2>1, <2>2, IdleOpFacts, CallsKept
<1> QED BY <1>12, <1>13, <1>14, <1>15 DEF SafeStep, HeapStep

\* new, clone, drop and swap.
LEMMA HandleSafe ==
  ASSUME SafeInv, HandleStep
  PROVE  SafeStep
<1>0. TypeInv
  BY DEF SafeInv
<1>t. /\ holds \in [Places -> OptObject] /\ Threads \ {NULL} = Threads
      /\ Handles \subseteq Places /\ Cells \subseteq Places
  BY <1>0, Types, PlaceFacts, ThreadsAssumption
<1>k. ASSUME UNCHANGED <<op, signals, guard>>,
             \A p \in Places : holds'[p] # holds[p] =>
               \/ p \in Cells
               \/ p \in Handles /\ Returned(p) /\ ~Borrowed(p)
               \/ \E o \in Objects : p = DataField(o)
      PROVE  CallsAreConsistent'
  <2>1. KeepsCalls(NULL)
    BY <1>k DEF KeepsCalls, Returned, Borrowed
  <2> QED BY <1>k, <2>1, CallsUnmoved
<1>1. ASSUME NEW h \in Handles, NEW o \in DataObjects, NEW s \in Shards, NEW p \in Shards,
             NEW hc \in Handles \cup {NULL}, New(h, o, s, p, hc)
      PROVE  SafeStep
  <2>1. HeapStep
    BY <1>1, NewRef
  <2>2. UNCHANGED <<op, signals, guard>>
    BY <1>1 DEF New, signalVars
  <2>3. \A q \in Places : holds'[q] # holds[q] => q = h \/ (hc # NULL /\ q \in {hc, DataField(o)})
    BY <1>1, <1>t, PlaceFacts DEF New
  <2>4. /\ Returned(h) /\ ~Borrowed(h) /\ o \in Objects
        /\ hc # NULL => hc \in Handles /\ Returned(hc) /\ ~Borrowed(hc)
    BY <1>1 DEF New, Vacant, Movable, Readable, Objects
  <2> QED BY <1>k, <2>1, <2>2, <2>3, <2>4 DEF SafeStep
<1>2. ASSUME NEW src \in Places, NEW h \in Handles, NEW s \in Shards, Clone(src, h, s)
      PROVE  SafeStep
  <2>1. PICK x \in Objects : x = holds[src]
    BY <1>2, LiveFacts DEF Clone
  <2>2. ~Dead(x)
    BY <2>1, LiveFacts
  <2>3. /\ holds[h] = NULL /\ Increment(x, s) /\ holds' = [holds EXCEPT ![h] = x]
        /\ UNCHANGED <<kind, backRef, signalVars, collectorVars, op>>
        /\ Returned(h) /\ ~Borrowed(h)
    BY <1>2, <2>1 DEF Clone, Vacant
  <2>4. \A t \in Threads, o \in Objects : Loading(t, o)' => Loading(t, o)
    BY <2>3 DEF Loading
  <2>5. HeapStep
    BY <2>2, <2>3, <2>4, AddRef, OwedUnmoved
  <2> QED BY <1>t, <1>k, <2>3, <2>5 DEF SafeStep, signalVars
<1>3. ASSUME NEW h \in Handles, NEW s \in Shards, Drop(h, s)
      PROVE  SafeStep
  <2>1. PICK x \in Objects : x = holds[h]
    BY <1>3, <1>t, LiveFacts DEF Drop, Movable, Readable
  <2>2. /\ Decrement(x, s) /\ holds' = [holds EXCEPT ![h] = NULL]
        /\ UNCHANGED <<kind, backRef, signalVars, collectorVars, op>>
        /\ Returned(h) /\ ~Borrowed(h)
    BY <1>3, <2>1 DEF Drop, Movable, Readable
  <2>3. UNCHANGED <<state, cpc, obj, idx, sum, todo, toFree, thr, waiting, hazards>>
    BY <2>2 DEF collectorVars, trackVars, passVars, scanVars, readVars
  <2>4. HeapStep
    BY <1>t, <2>1, <2>2, <2>3, DropRef
  <2> QED BY <1>t, <1>k, <2>2, <2>4 DEF SafeStep, signalVars
<1>4. ASSUME NEW c \in Cells, NEW h \in Handles, Swap(c, h)
      PROVE  SafeStep
  <2>1. HeapStep
    BY <1>4, ExchangeRefs DEF Swap
  <2>2. Returned(h) /\ ~Borrowed(h)
    BY <1>4 DEF Swap, Movable, Vacant, Readable
  <2>3. UNCHANGED <<op, signals, guard>>
    BY <1>4 DEF Swap, signalVars
  <2>4. \A q \in Places : holds'[q] # holds[q] => q \in {c, h}
    BY <1>4, <1>t DEF Swap
  <2> QED BY <1>k, <2>1, <2>2, <2>3, <2>4 DEF SafeStep
<1> QED BY <1>1, <1>2, <1>3, <1>4 DEF HandleStep

\* The steps that start a call, or end a borrow.
LEMMA CallSafe ==
  ASSUME SafeInv, NEW t \in Threads, CallStep(t)
  PROVE  SafeStep
<1>0. TypeInv /\ CallsAreConsistent
  BY DEF SafeInv
<1>t. /\ holds \in [Places -> OptObject] /\ backRef \in [Objects -> OptObject]
      /\ op \in [Threads -> Ops] /\ guard \in [Threads -> [Slots -> Locations \cup {NULL}]]
      /\ Handles \subseteq Places /\ Cells \subseteq Places
  BY <1>0, Types, PlaceFacts
<1>c. \A i \in Slots : guard[t][i] # NULL => signals[t].slots[i] # NULL
  BY <1>0 DEF CallsAreConsistent, CallIsConsistent
<1>i. op[t] = IdleOp => op[t].pc # "cas"
  BY IdleOpFacts
<1>1. ASSUME NEW l \in Locations, NEW dst \in Handles, LoadOwned(t, l, dst)
      PROVE  SafeStep
  <2>1. /\ op'[t].pc = "load" /\ op'[t].dst = dst
        /\ \A u \in Threads \ {t} : op'[u] = op[u]
    BY <1>1, <1>t DEF LoadOwned, Call
  <2>2. /\ signals'[t].flag = TRUE /\ signals'[t].slots = signals[t].slots
        /\ \A u \in Threads \ {t} : signals'[u] = signals[u]
    BY <1>1, StoreFacts DEF LoadOwned
  <2>3. UNCHANGED <<heapVars, visible, guard, collectorVars>>
        /\ holds[dst] = NULL /\ Returned(dst)
    BY <1>1 DEF LoadOwned, Vacant
  <2>4. CallIsConsistent(t)'
    BY <1>c, <2>1, <2>2, <2>3 DEF CallIsConsistent, heapVars
  <2>5. \A o \in Objects : /\ ~Loading(t, o)'
                           /\ \A i \in Slots : GuardedBy(t, i, o)' => GuardedBy(t, i, o)
    BY <2>1, <2>2, <2>3 DEF Loading, GuardedBy
  <2> QED BY <1>i, <1>1, <2>1, <2>2, <2>3, <2>4, <2>5, ReaderStep DEF LoadOwned
<1>2. ASSUME NEW l \in Locations, NEW dst \in Handles, Borrow(t, l, dst)
      PROVE  SafeStep
  <2>1. /\ op'[t].pc = "publish" /\ op'[t].dst = dst /\ op'[t].ptr = PtrAt(l)
        /\ \A u \in Threads \ {t} : op'[u] = op[u]
    BY <1>2, <1>t DEF Borrow, Call
  <2>2. UNCHANGED <<heapVars, signalVars, collectorVars>>
        /\ holds[dst] = NULL /\ Returned(dst) /\ PtrAt(l) # NULL /\ Loadable(l)
    BY <1>2 DEF Borrow, Vacant
  <2>3. PtrAt(l) \in Objects
    <3>1. CASE l \in Cells
      BY <1>t, <2>2, <3>1 DEF PtrAt, OptObject
    <3>2. CASE l \notin Cells
      <4>1. l \in Places /\ holds[l] # NULL
        BY <2>2, <3>2, PlaceFacts DEF Loadable, Readable
      <4>2. holds[l] \in Objects
        BY <1>t, <4>1 DEF OptObject
      <4> QED BY <1>t, <2>2, <3>2, <4>2 DEF PtrAt, OptObject
    <3> QED BY <3>1, <3>2
  <2>4. CallIsConsistent(t)'
    BY <1>c, <2>1, <2>2, <2>3 DEF CallIsConsistent, heapVars, signalVars
  <2>5. \A o \in Objects : /\ ~Loading(t, o)'
                           /\ \A i \in Slots : GuardedBy(t, i, o)' => GuardedBy(t, i, o)
    BY <2>1, <2>2 DEF Loading, GuardedBy, signalVars
  <2>6. op[t].pc # "cas" /\ op'[t].pc # "cas"
    BY <1>i, <1>2, <2>1 DEF Borrow
  <2> QED BY <2>1, <2>2, <2>4, <2>5, <2>6, ReaderStep DEF signalVars
<1>3. ASSUME NEW i \in Slots, DropGuard(t, i)
      PROVE  SafeStep
  <2>1. /\ op' = op /\ op[t] = IdleOp
        /\ UNCHANGED <<heapVars, visible, collectorVars>>
        /\ guard' = [guard EXCEPT ![t][i] = NULL]
    BY <1>3 DEF DropGuard
  <2>2. /\ signals'[t].slots[i] = NULL
        /\ \A j \in Slots \ {i} : signals'[t].slots[j] = signals[t].slots[j]
        /\ \A u \in Threads \ {t} : signals'[u] = signals[u]
    BY <1>3, StoreFacts DEF DropGuard
  <2>3. /\ guard'[t][i] = NULL /\ \A j \in Slots \ {i} : guard'[t][j] = guard[t][j]
        /\ \A u \in Threads \ {t} : guard'[u] = guard[u]
    BY <1>t, <2>1
  <2>4. CallIsConsistent(t)'
    BY <1>c, <2>1, <2>2, <2>3, IdleOpFacts DEF CallIsConsistent, ResultSteps
  <2>5. \A o \in Objects : /\ ~Loading(t, o)'
                           /\ \A j \in Slots : GuardedBy(t, j, o)' => GuardedBy(t, j, o)
    BY <2>1, <2>2, <2>3, IdleOpFacts DEF Loading, GuardedBy
  <2> QED BY <2>1, <2>2, <2>3, <2>4, <2>5, IdleOpFacts, ReaderStep
<1>4. ASSUME NEW src \in Handles, NEW dst \in Handles, NEW w \in WeakObjects,
             NEW s \in Shards, NEW p \in Shards, Downgrade(t, src, dst, w, s, p)
      PROVE  SafeStep
  <2>1. HeapStep
    BY <1>4, WeakRef
  <2>2. PICK x \in Objects : x = holds[src]
    BY <1>4, <1>t, LiveFacts DEF Downgrade, Readable
  <2>3. /\ op'[t].pc = "weakclone" /\ op'[t].dst = dst /\ op'[t].loc = src
        /\ \A u \in Threads \ {t} : op'[u] = op[u]
    BY <1>4, <1>t DEF Downgrade, Call
  <2>4. /\ UNCHANGED signalVars /\ holds' = [holds EXCEPT ![WeakField(x)] = w]
        /\ holds[dst] = NULL /\ Returned(dst) /\ holds[WeakField(x)] = NULL
    BY <1>4, <2>2 DEF Downgrade, Vacant
  <2>5. WeakField(x) \in Places /\ WeakField(x) # dst /\ WeakField(x) # src /\ w # NULL
    BY PlaceFacts DEF Objects
  <2>6. holds'[dst] = NULL /\ holds'[src] = x /\ holds'[WeakField(x)] = w
    BY <1>t, <2>2, <2>4, <2>5
  <2>7. CallIsConsistent(t)'
    BY <1>c, <2>3, <2>4, <2>5, <2>6 DEF CallIsConsistent, signalVars
  <2>8. KeepsCalls(t)
    BY <1>t, <2>3, <2>4 DEF KeepsCalls, signalVars
  <2> QED BY <2>1, <2>3, <2>4, <2>7, <2>8, CallsKept DEF SafeStep
<1>5. ASSUME NEW src \in Handles, NEW dst \in Handles, DowngradeAgain(t, src, dst)
      PROVE  SafeStep
  <2>1. /\ op'[t].pc = "weakclone" /\ op'[t].dst = dst /\ op'[t].loc = src
        /\ \A u \in Threads \ {t} : op'[u] = op[u]
    BY <1>5, <1>t DEF DowngradeAgain, Call
  <2>2. /\ UNCHANGED <<heapVars, signalVars, collectorVars>>
        /\ holds[dst] = NULL /\ Returned(dst) /\ holds[WeakField(holds[src])] # NULL
    BY <1>5 DEF DowngradeAgain, Vacant
  <2>3. CallIsConsistent(t)'
    BY <1>c, <2>1, <2>2 DEF CallIsConsistent, heapVars, signalVars
  <2>4. \A o \in Objects : /\ ~Loading(t, o)'
                           /\ \A i \in Slots : GuardedBy(t, i, o)' => GuardedBy(t, i, o)
    BY <2>1, <2>2 DEF Loading, GuardedBy, signalVars
  <2>5. op[t].pc # "cas" /\ op'[t].pc # "cas"
    BY <1>i, <1>5, <2>1 DEF DowngradeAgain
  <2> QED BY <2>1, <2>2, <2>3, <2>4, <2>5, ReaderStep DEF signalVars
<1>6. ASSUME NEW c \in Cells, NEW m \in Handles, NEW n \in Handles, NEW dst \in Handles,
             CompareAndSet(t, c, m, n, dst)
      PROVE  SafeStep
  BY <1>6, InstallRef
<1> QED BY <1>1, <1>2, <1>3, <1>4, <1>5, <1>6 DEF CallStep

\* The steps of a call under way.
LEMMA ContinueSafe ==
  ASSUME SafeInv, NEW t \in Threads, ContinueStep(t)
  PROVE  SafeStep
<1>0. TypeInv /\ CallsAreConsistent
  BY DEF SafeInv
<1>t. /\ holds \in [Places -> OptObject] /\ backRef \in [Objects -> OptObject]
      /\ op \in [Threads -> Ops] /\ guard \in [Threads -> [Slots -> Locations \cup {NULL}]]
      /\ Handles \subseteq Places /\ Cells \subseteq Places
  BY <1>0, Types, PlaceFacts
<1>o. op[t] \in Ops
  BY <1>t
<1>c. CallIsConsistent(t)
  BY <1>0 DEF CallsAreConsistent
<1>g. \A i \in Slots : guard[t][i] # NULL => signals[t].slots[i] # NULL
  BY <1>c DEF CallIsConsistent
<1>p. ASSUME op[t].pc \in {"load", "reload"}, NEW o \in Objects, PtrAt(op[t].loc) = o
      PROVE  ~(Holders(o) = {} /\ NoBackRef(o))
  <2>1. \/ op[t].loc \in Cells
        \/ op[t].loc \in Handles /\ holds[op[t].loc] # NULL
    BY <1>0, <1>o, <1>p DEF TypeInv, CallsKeepBorrows, LocationSteps, Ops
  <2>2. CASE op[t].loc \in Cells
    BY <1>p, <1>t, <2>2 DEF PtrAt, Holders
  <2>3. CASE op[t].loc \in Handles /\ holds[op[t].loc] # NULL
    <3>1. holds[op[t].loc] \in Objects /\ op[t].loc \notin Cells
      BY <1>t, <2>3, PlaceFacts DEF OptObject
    <3> QED BY <1>p, <3>1 DEF PtrAt, NoBackRef
  <2> QED BY <2>1, <2>2, <2>3
<1>1. CASE LoadPtr(t)
  <2> DEFINE p == PtrAt(op[t].loc)
  <2>1. op[t].pc = "load" /\ UNCHANGED <<heapVars, signalVars, collectorVars>>
    BY <1>1 DEF LoadPtr
  <2>2. p \in OptObject
    BY <1>0, <2>1, LoadedPointer DEF LocationSteps
  <2>3. /\ op'[t].pc = IF p = NULL THEN "exit" ELSE "increment"
        /\ op'[t].ptr = p /\ op'[t].dst = op[t].dst
        /\ \A u \in Threads \ {t} : op'[u] = op[u]
    BY <1>1, <1>t, <1>o DEF LoadPtr, Ops
  <2> HIDE DEF p
  <2>4. op'[t].pc = "increment" => op'[t].ptr \in Objects
    BY <2>2, <2>3 DEF OptObject
  <2>5. op'[t].pc \in {"exit", "increment"}
    BY <2>3
  <2>6. signals[t].flag = TRUE /\ op[t].dst \in Handles /\ holds[op[t].dst] = NULL
    BY <1>c, <2>1 DEF CallIsConsistent, ResultSteps
  <2>7. CallIsConsistent(t)'
    BY <1>g, <2>1, <2>3, <2>4, <2>5, <2>6 DEF CallIsConsistent, heapVars, signalVars
  <2>8. \A o \in Objects : Holders(o) = {} /\ NoBackRef(o) =>
          /\ ~Loading(t, o)'
          /\ \A i \in Slots : GuardedBy(t, i, o)' => GuardedBy(t, i, o)
    BY <1>p, <2>1, <2>3 DEF Loading, GuardedBy, signalVars, p
  <2> QED BY <2>1, <2>3, <2>5, <2>7, <2>8, ReaderStep DEF signalVars
<1>2. ASSUME NEW s \in Shards, LoadIncrement(t, s)
      PROVE  SafeStep
  <2>1. /\ op[t].pc = "increment" /\ op[t].ptr \in Objects
        /\ op[t].dst \in Handles /\ holds[op[t].dst] = NULL
    BY <1>2, <1>c DEF LoadIncrement, CallIsConsistent, ResultSteps
  <2>2. PICK x \in Objects : x = op[t].ptr
    BY <2>1
  <2>3. PICK h \in Handles : h = op[t].dst
    BY <2>1
  <2>4. /\ Increment(x, s) /\ holds' = [holds EXCEPT ![h] = x] /\ holds[h] = NULL
        /\ UNCHANGED <<kind, backRef, signalVars, collectorVars>>
    BY <1>2, <2>1, <2>2, <2>3 DEF LoadIncrement
  <2>5. /\ op'[t].pc = "exit" /\ op'[t].dst = op[t].dst
        /\ \A u \in Threads \ {t} : op'[u] = op[u]
    BY <1>2, <1>t, <1>o DEF LoadIncrement, Ops
  <2>6. Loading(t, x)
    BY <2>1, <2>2 DEF Loading
  <2>7. ~Dead(x)
    BY <2>6 DEF Dead
  <2>8. \A u \in Threads, o \in Objects : Loading(u, o)' => Loading(u, o)
    BY <2>5 DEF Loading
  <2>9. HeapStep
    BY <2>1, <2>4, <2>5, <2>7, <2>8, AddRef, OwedUnmoved
  <2>10. CallIsConsistent(t)'
    BY <1>g, <2>4, <2>5 DEF CallIsConsistent, ResultSteps, signalVars
  <2>11. \A u \in Threads \ {t} : op[u].dst # h /\ h \notin op[u].pins
    BY <1>0, <2>3, PlaceFacts DEF CallsAreConsistent, TypeInv, CallsKeepBorrows
  <2>12. KeepsCalls(t)
    BY <1>t, <2>4, <2>5, <2>11 DEF KeepsCalls, signalVars
  <2> QED BY <2>5, <2>9, <2>10, <2>12, CallsKept DEF SafeStep
<1>3. CASE LoadExit(t)
  <2>1. /\ op'[t] = IdleOp /\ UNCHANGED <<heapVars, visible, guard, collectorVars>>
        /\ \A u \in Threads \ {t} : op'[u] = op[u]
    BY <1>3, <1>t DEF LoadExit
  <2>2. /\ signals'[t].slots = signals[t].slots
        /\ \A u \in Threads \ {t} : signals'[u] = signals[u]
    BY <1>3, StoreFacts DEF LoadExit
  <2>3. CallIsConsistent(t)'
    BY <1>g, <2>1, <2>2, IdleOpFacts DEF CallIsConsistent, ResultSteps
  <2>4. \A o \in Objects : /\ ~Loading(t, o)'
                           /\ \A i \in Slots : GuardedBy(t, i, o)' => GuardedBy(t, i, o)
    BY <2>1, <2>2, IdleOpFacts DEF Loading, GuardedBy
  <2>5. op[t].pc # "cas" /\ op'[t].pc # "cas"
    BY <1>3, <2>1, IdleOpFacts DEF LoadExit
  <2> QED BY <2>1, <2>2, <2>3, <2>4, <2>5, IdleOpFacts, ReaderStep
<1>4. CASE Publish(t)
  <2>1. /\ op[t].pc = "publish" /\ UNCHANGED <<heapVars, visible, guard, collectorVars>>
        /\ \A u \in Threads \ {t} : op'[u] = op[u]
        /\ op'[t].dst = op[t].dst /\ op'[t].pc \in {"fallback", "reload"}
    BY <1>4, <1>t, <1>o DEF Publish, Ops
  <2>2. op[t].ptr \in Objects /\ op[t].dst \in Handles /\ holds[op[t].dst] = NULL
    BY <1>c, <2>1 DEF CallIsConsistent, ResultSteps
  <2>3. CASE op'[t].pc = "fallback" /\ UNCHANGED signals
    <3>1. CallIsConsistent(t)'
      BY <1>g, <2>1, <2>2, <2>3 DEF CallIsConsistent, heapVars
    <3>2. \A o \in Objects : /\ ~Loading(t, o)'
                             /\ \A i \in Slots : GuardedBy(t, i, o)' => GuardedBy(t, i, o)
      BY <2>1, <2>3 DEF Loading, GuardedBy
    <3> QED BY <2>1, <2>3, <3>1, <3>2, ReaderStep
  <2>4. ASSUME NEW i \in FreeSlots(t), StoreSlot(t, i, op[t].ptr),
               op' = [op EXCEPT ![t].pc = "reload", ![t].slot = i]
        PROVE  SafeStep
    <3>1. i \in Slots /\ signals[t].slots[i] = NULL /\ guard[t][i] = NULL
      BY <1>g, <2>4 DEF FreeSlots
    <3>2. op'[t].pc = "reload" /\ op'[t].slot = i /\ op'[t].ptr = op[t].ptr
      BY <1>t, <1>o, <2>4 DEF Ops
    <3>3. /\ signals'[t].slots[i] = op[t].ptr
          /\ \A j \in Slots \ {i} : signals'[t].slots[j] = signals[t].slots[j]
          /\ \A u \in Threads \ {t} : signals'[u] = signals[u]
      BY <2>4, <3>1, StoreFacts
    <3>4. CallIsConsistent(t)'
      BY <1>g, <2>1, <2>2, <3>1, <3>2, <3>3 DEF CallIsConsistent, heapVars
    <3>5. \A o \in Objects : /\ ~Loading(t, o)'
                             /\ \A j \in Slots : GuardedBy(t, j, o)' => GuardedBy(t, j, o)
      BY <2>1, <3>1, <3>2, <3>3 DEF Loading, GuardedBy
    <3> QED BY <2>1, <3>2, <3>3, <3>4, <3>5, ReaderStep
  <2>5. FreeSlots(t) = {} => op'[t].pc = "fallback" /\ UNCHANGED signals
    BY <1>4, <1>t, <1>o DEF Publish, Ops
  <2> QED BY <1>4, <1>t, <1>o, <2>3, <2>4, <2>5 DEF Publish
<1>5. CASE Reload(t)
  <2>1. op[t].pc = "reload" /\ UNCHANGED <<heapVars, visible, collectorVars>>
    BY <1>5 DEF Reload
  <2> DEFINE i == op[t].slot
  <2>2. /\ i \in Slots /\ guard[t][i] = NULL /\ signals[t].slots[i] = op[t].ptr
        /\ op[t].ptr \in Objects /\ op[t].dst \in Handles /\ holds[op[t].dst] = NULL
    BY <1>c, <1>o, <2>1 DEF CallIsConsistent, ResultSteps, Ops
  <2>3. CASE PtrAt(op[t].loc) = op[t].ptr
    <3>1. /\ op'[t] = IdleOp /\ \A u \in Threads \ {t} : op'[u] = op[u]
          /\ signals' = signals
          /\ \A j \in Slots : j # op[t].slot => guard'[t][j] = guard[t][j]
          /\ \A u \in Threads \ {t} : guard'[u] = guard[u]
      BY <1>5, <1>t, <2>2, <2>3 DEF Reload
    <3>2. CallIsConsistent(t)'
      BY <1>g, <2>2, <3>1, IdleOpFacts, PlaceFacts DEF CallIsConsistent, ResultSteps
    <3>3. \A o \in Objects : Holders(o) = {} /\ NoBackRef(o) => o # op[t].ptr
      BY <1>p, <2>1, <2>3
    <3>4. \A o \in Objects : Holders(o) = {} /\ NoBackRef(o) =>
            /\ ~Loading(t, o)'
            /\ \A j \in Slots : GuardedBy(t, j, o)' => GuardedBy(t, j, o)
      BY <2>2, <3>1, <3>3, IdleOpFacts DEF Loading, GuardedBy
    <3> QED BY <2>1, <3>1, <3>2, <3>4, IdleOpFacts, ReaderStep
  <2>4. CASE PtrAt(op[t].loc) # op[t].ptr
    <3>1. /\ op'[t].pc = "fallback" /\ op'[t].dst = op[t].dst
          /\ \A u \in Threads \ {t} : op'[u] = op[u]
          /\ guard' = guard /\ StoreSlot(t, i, NULL)
      BY <1>5, <1>t, <1>o, <2>4 DEF Reload, Ops
    <3>2. /\ signals'[t].slots[op[t].slot] = NULL
          /\ \A j \in Slots : j # op[t].slot => signals'[t].slots[j] = signals[t].slots[j]
          /\ \A u \in Threads \ {t} : signals'[u] = signals[u]
      BY <2>2, <3>1, StoreFacts
    <3>3. CallIsConsistent(t)'
      BY <1>g, <2>1, <2>2, <3>1, <3>2 DEF CallIsConsistent, heapVars
    <3>4. \A o \in Objects : /\ ~Loading(t, o)'
                             /\ \A j \in Slots : GuardedBy(t, j, o)' => GuardedBy(t, j, o)
      BY <2>2, <3>1, <3>2 DEF Loading, GuardedBy
    <3> QED BY <2>1, <3>1, <3>2, <3>3, <3>4, ReaderStep
  <2> QED BY <2>3, <2>4
<1>6. CASE Fallback(t)
  <2>1. /\ op[t].pc = "fallback" /\ UNCHANGED <<heapVars, visible, guard, collectorVars>>
        /\ op'[t].pc = "load" /\ op'[t].dst = op[t].dst
        /\ \A u \in Threads \ {t} : op'[u] = op[u]
    BY <1>6, <1>t, <1>o DEF Fallback, Ops
  <2>2. /\ signals'[t].flag = TRUE /\ signals'[t].slots = signals[t].slots
        /\ \A u \in Threads \ {t} : signals'[u] = signals[u]
    BY <1>6, StoreFacts DEF Fallback
  <2>3. op[t].dst \in Handles /\ holds[op[t].dst] = NULL
    BY <1>c, <2>1 DEF CallIsConsistent, ResultSteps
  <2>4. CallIsConsistent(t)'
    BY <1>g, <2>1, <2>2, <2>3 DEF CallIsConsistent, heapVars
  <2>5. \A o \in Objects : /\ ~Loading(t, o)'
                           /\ \A i \in Slots : GuardedBy(t, i, o)' => GuardedBy(t, i, o)
    BY <2>1, <2>2 DEF Loading, GuardedBy
  <2> QED BY <2>1, <2>2, <2>4, <2>5, ReaderStep
<1>7. ASSUME NEW s \in Shards, WeakClone(t, s)
      PROVE  SafeStep
  <2>1. /\ op[t].pc = "weakclone" /\ op[t].dst \in Handles /\ holds[op[t].dst] = NULL
        /\ holds[WeakField(holds[op[t].loc])] # NULL
    BY <1>7, <1>c DEF WeakClone, CallIsConsistent, ResultSteps
  <2>2. op[t].loc \in Handles /\ holds[op[t].loc] # NULL
    BY <1>0, <1>o, <2>1 DEF TypeInv, CallsKeepBorrows, LocationSteps, Ops
  <2>3. PICK y \in Objects : y = holds[op[t].loc]
    BY <1>t, <2>2, LiveFacts
  <2>4. WeakField(y) \in Places
    BY PlaceFacts
  <2>5. PICK x \in Objects : x = holds[WeakField(y)]
    BY <2>1, <2>3, <2>4, LiveFacts
  <2>6. PICK h \in Handles : h = op[t].dst
    BY <2>1
  <2>7. ~Dead(x)
    BY <2>4, <2>5, LiveFacts
  <2>8. /\ Increment(x, s) /\ holds' = [holds EXCEPT ![h] = x] /\ holds[h] = NULL
        /\ UNCHANGED <<kind, backRef, signalVars, collectorVars>>
    BY <1>7, <2>1, <2>3, <2>5, <2>6 DEF WeakClone
  <2>9. op'[t] = IdleOp /\ \A u \in Threads \ {t} : op'[u] = op[u]
    BY <1>7, <1>t DEF WeakClone
  <2>10. \A u \in Threads, o \in Objects : Loading(u, o)' => Loading(u, o)
    BY <2>9, IdleOpFacts DEF Loading
  <2>11. HeapStep
    <3>1. op[t].pc # "cas" /\ op'[t].pc # "cas"
      BY <2>1, <2>9, IdleOpFacts
    <3> QED BY <2>7, <2>8, <2>9, <2>10, <3>1, AddRef, OwedUnmoved
  <2>12. CallIsConsistent(t)'
    BY <1>g, <2>8, <2>9, IdleOpFacts DEF CallIsConsistent, ResultSteps, signalVars
  <2>13. \A u \in Threads \ {t} : op[u].dst # h /\ h \notin op[u].pins
    BY <1>0, <2>6, PlaceFacts DEF CallsAreConsistent, TypeInv, CallsKeepBorrows
  <2>14. KeepsCalls(t)
    BY <1>t, <2>8, <2>9, <2>13 DEF KeepsCalls, signalVars
  <2> QED BY <2>9, <2>11, <2>12, <2>14, IdleOpFacts, CallsKept DEF SafeStep
<1>8. ASSUME NEW s \in Shards, CasIncrement(t, s)
      PROVE  SafeStep
  BY <1>8, CountRef
<1> QED BY <1>1, <1>2, <1>3, <1>4, <1>5, <1>6, <1>7, <1>8 DEF ContinueStep
=============================================================================
