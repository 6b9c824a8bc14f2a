---------------------------- MODULE MemorySafety ----------------------------
(***************************************************************************)
(* The steps of the collector keep the safety invariant, and what follows  *)
(* from it: memory safety of every execution that disturbs no call of      *)
(* compare_and_set, so of every program that calls it from one thread only *)
(* and changes its cells in no other way, or does not call it.             *)
(***************************************************************************)
EXTENDS SafetyProofs

\* What a step has to establish besides types and tracking.
SafeAfter ==
  /\ CallsAreConsistent' /\ BackRefsMatch' /\ RefCountExact'
  /\ VerdictsAreRight' /\ LoopsInOrder' /\ ReadersAreSeen'

\* A step of user code establishes it.
LEMMA UserSafe ==
  ASSUME SafeInv, SafeStep
  PROVE  SafeAfter
BY UserStepKeeps DEF SafeStep, HeapStep, SafeAfter

\* Nothing that the calls and the heap part of the invariant speak about changes.
LEMMA HeapUnmoved ==
  ASSUME SafeInv, UNCHANGED <<kind, holds, backRef, signals, guard, op>>
  PROVE  /\ CallsAreConsistent' /\ BackRefsMatch'
         /\ UNCHANGED counters => RefCountExact'
         /\ \A o \in Objects : /\ Holders(o)' = Holders(o) /\ NoBackRef(o)' = NoBackRef(o)
                               /\ Live(o)' = Live(o) /\ Dead(o)' = Dead(o)
                               /\ \A t \in Threads : Loading(t, o)' = Loading(t, o)
                               /\ \A t \in Threads, i \in Slots :
                                    GuardedBy(t, i, o)' = GuardedBy(t, i, o)
<1>1. CallsAreConsistent /\ BackRefsMatch /\ RefCountExact
  BY DEF SafeInv
<1>2. CallsAreConsistent' /\ BackRefsMatch'
  BY <1>1 DEF CallsAreConsistent, CallIsConsistent, BackRefsMatch
<1>3. \A o \in Objects : /\ Holders(o)' = Holders(o) /\ NoBackRef(o)' = NoBackRef(o)
                         /\ Live(o)' = Live(o)
                         /\ \A t \in Threads : Loading(t, o)' = Loading(t, o)
                         /\ \A t \in Threads, i \in Slots :
                              GuardedBy(t, i, o)' = GuardedBy(t, i, o)
  BY DEF Holders, NoBackRef, Live, Loading, GuardedBy
<1>4. \A o \in Objects : Dead(o)' = Dead(o)
  BY DEF Dead, Holders, NoBackRef, Loading, Guarded, GuardedBy
<1>5. UNCHANGED counters => RefCountExact'
  BY <1>1, <1>3 DEF RefCountExact, OwedIncrements, StrongCount
<1> QED BY <1>2, <1>3, <1>4, <1>5

\* A buffered store drains: what the collector sees of a reader of a dying object
\* can only become what that reader has stored.
LEMMA DrainSafe ==
  ASSUME SafeInv, NEW t \in Threads, DrainStep(t)
  PROVE  SafeAfter
<1>0. TypeInv /\ CallsAreConsistent /\ VerdictsAreRight /\ LoopsInOrder /\ ReadersAreSeen
  BY DEF SafeInv
<1>1. /\ UNCHANGED <<kind, counters, holds, backRef, signals, guard, op>>
      /\ UNCHANGED <<state, cpc, obj, idx, sum, todo, toFree, thr, waiting, hazards>>
  BY DEF DrainStep, DrainFlag, DrainSlot, heapVars, collectorVars, trackVars, passVars,
         scanVars, readVars
<1>2. CallsAreConsistent' /\ BackRefsMatch' /\ RefCountExact'
  BY <1>1, HeapUnmoved
<1>3. VerdictsAreRight'
  BY <1>0, <1>1 DEF VerdictsAreRight, Live, Dead, Holders, NoBackRef, Loading, Guarded,
     GuardedBy, TagAhead, CountAhead, StrongCount
<1>4. LoopsInOrder'
  BY <1>0, <1>1 DEF LoopsInOrder
<1>5. \A u \in Threads : signals[u] \in [slots : [Slots -> OptObject], flag : BOOLEAN]
                         /\ visible[u] \in [slots : [Slots -> OptObject], flag : BOOLEAN]
  BY <1>0, Types DEF Signals
<1>6. \A u \in Threads :
        /\ visible'[u].flag \in {visible[u].flag, signals[u].flag}
        /\ \A i \in Slots : visible'[u].slots[i] \in {visible[u].slots[i], signals[u].slots[i]}
  <2>0. visible \in [Threads -> Signals]
    BY <1>0, Types
  <2>1. CASE DrainFlag(t)
    BY <1>5, <2>0, <2>1 DEF DrainFlag
  <2>2. ASSUME NEW i \in Slots, DrainSlot(t, i)
        PROVE  \A u \in Threads :
                 /\ visible'[u].flag \in {visible[u].flag, signals[u].flag}
                 /\ \A j \in Slots :
                      visible'[u].slots[j] \in {visible[u].slots[j], signals[u].slots[j]}
    BY <1>5, <2>0, <2>2 DEF DrainSlot
  <2> QED BY <2>1, <2>2 DEF DrainStep
<1>7. \A u \in Threads, o \in Objects : Loading(u, o) => signals[u].flag = TRUE
  BY <1>0 DEF CallsAreConsistent, CallIsConsistent, Loading
<1>8. ReadersAreSeen'
  BY <1>0, <1>1, <1>6, <1>7
  DEF ReadersAreSeen, LooksDead, Holders, NoBackRef, Loading, GuardedBy, Scanned
<1> QED BY <1>2, <1>3, <1>4, <1>8 DEF SafeAfter

-----------------------------------------------------------------------------
\* A step of the collector that is not in the middle of an update, and that makes
\* nothing newly condemned.
LEMMA VerdictsKept ==
  ASSUME SafeInv, UNCHANGED <<kind, holds, backRef, signals, guard, op>>,
         cpc' \notin {"weakref", "recheck"},
         \A o \in Objects : state'[o] = "ready" => state[o] = "ready",
         toFree' \subseteq toFree
  PROVE  VerdictsAreRight'
<1>1. \A o \in Objects : Live(o)' = Live(o) /\ Dead(o)' = Dead(o)
  BY HeapUnmoved
<1> QED BY <1>1 DEF SafeInv, VerdictsAreRight

\* A step of the collector outside barrier and scan after which nothing new is to be
\* updated.
LEMMA ReadersKept ==
  ASSUME SafeInv, UNCHANGED <<kind, counters, holds, backRef, signals, guard, op>>,
         cpc' \notin {"barrier", "scan"},
         \A o \in Objects : Scanned(o)' => Scanned(o),
         \A o \in Objects : state'[o] = "recheck" /\ Scanned(o)' => state[o] = "recheck",
         hazards' = hazards
  PROVE  ReadersAreSeen'
<1>1. \A o \in Objects : /\ Holders(o)' = Holders(o) /\ NoBackRef(o)' = NoBackRef(o)
                         /\ \A t \in Threads : Loading(t, o)' = Loading(t, o)
                         /\ \A t \in Threads, i \in Slots :
                              GuardedBy(t, i, o)' = GuardedBy(t, i, o)
  BY HeapUnmoved
<1>2. \A o \in Objects : LooksDead(o)' /\ Scanned(o)' => LooksDead(o)
  BY <1>1 DEF LooksDead
<1> QED BY <1>1, <1>2 DEF SafeInv, ReadersAreSeen

\* A new pass: every reader is still to be fenced and scanned.
LEMMA ReadersAtStart ==
  ASSUME SafeInv, UNCHANGED <<kind, counters, holds, backRef, signals, guard, op>>,
         NEW S, StartPass(S)
  PROVE  ReadersAreSeen'
<1>1. CASE Threads = {}
  BY <1>1 DEF StartPass, ReadersAreSeen
<1>2. CASE Threads # {}
  <2>1. cpc' = "barrier" /\ waiting' = Threads
    BY <1>2 DEF StartPass
  <2> QED BY <2>1 DEF ReadersAreSeen, Scanned
<1> QED BY <1>1, <1>2

\* The steps between two passes.
LEMMA BetweenPasses ==
  ASSUME SafeInv, UNCHANGED op, BeginOuter \/ TakeNew \/ EndUpdate \/ EndPass
  PROVE  SafeAfter
<1>0. TypeInv /\ LoopsInOrder /\ VerdictsAreRight
  BY DEF SafeInv
<1>1. UNCHANGED <<kind, counters, holds, backRef, signals, guard, op>>
  BY DEF BeginOuter, TakeNew, EndUpdate, EndPass, heapVars, signalVars
<1>2. CallsAreConsistent' /\ BackRefsMatch' /\ RefCountExact'
  BY <1>1, HeapUnmoved
<1>3. cpc' \notin {"weakref", "recheck", "precheck", "clear", "scan"} /\ cpc \notin {"precheck", "clear", "recheck"}
  BY DEF BeginOuter, TakeNew, EndUpdate, EndPass, StartPass
<1>4. \A o \in Objects : state'[o] = "ready" => state[o] = "ready"
  BY DEF BeginOuter, TakeNew, EndUpdate, EndPass, trackVars
<1>5. toFree' = toFree /\ sum' = sum
  BY DEF BeginOuter, TakeNew, EndUpdate, EndPass, passVars, readVars
<1>6. VerdictsAreRight'
  BY <1>1, <1>3, <1>4, <1>5, VerdictsKept
<1>7. LoopsInOrder'
  BY <1>0, <1>3, <1>5 DEF LoopsInOrder
<1>8. ReadersAreSeen'
  <2>1. CASE \E S : StartPass(S)
    BY <1>1, <2>1, ReadersAtStart
  <2>2. CASE cpc' \in {"park", "take", "free"}
    BY <2>2 DEF ReadersAreSeen, Scanned
  <2> QED BY <2>1, <2>2 DEF BeginOuter, TakeNew, EndUpdate, EndPass
<1> QED BY <1>2, <1>6, <1>7, <1>8 DEF SafeAfter

\* The heavy barrier and the scan of the readers' signals.
LEMMA ScanSafe ==
  ASSUME SafeInv, UNCHANGED op, NEW t \in Threads, Barrier(t) \/ ScanSlot(t) \/ Poll(t)
  PROVE  SafeAfter
<1>0. TypeInv /\ LoopsInOrder /\ VerdictsAreRight /\ ReadersAreSeen /\ CallsAreConsistent
  BY DEF SafeInv
<1>1. UNCHANGED <<kind, counters, holds, backRef, signals, guard, op, state, toFree, todo, sum>>
  BY DEF Barrier, ScanSlot, Poll, heapVars, signalVars, trackVars, passVars, readVars
<1>2. CallsAreConsistent' /\ BackRefsMatch' /\ RefCountExact'
  BY <1>1, HeapUnmoved
<1>3. /\ cpc \in {"barrier", "scan"} /\ cpc' \in {"barrier", "scan", "update"}
  BY DEF Barrier, ScanSlot, Poll
<1>4. VerdictsAreRight'
  BY <1>1, <1>3, VerdictsKept
<1>5. \A u \in Threads, o \in Objects : Loading(u, o) => signals[u].flag = TRUE
  BY <1>0 DEF CallsAreConsistent, CallIsConsistent, Loading
<1>6. \A o \in Objects : /\ LooksDead(o)' = LooksDead(o)
                         /\ \A u \in Threads : Loading(u, o)' = Loading(u, o)
                         /\ \A u \in Threads, i \in Slots :
                              GuardedBy(u, i, o)' = GuardedBy(u, i, o)
  BY <1>1 DEF LooksDead, Holders, NoBackRef, Loading, GuardedBy
<1>7. visible \in [Threads -> Signals] /\ signals \in [Threads -> Signals]
  BY <1>0, Types
<1>8. CASE Barrier(t)
  <2>1. /\ cpc = "barrier" /\ visible' = [visible EXCEPT ![t] = signals[t]]
        /\ hazards' = hazards /\ thr' = NULL /\ idx' = 0
        /\ IF waiting = {t} THEN waiting' = Threads /\ cpc' = "scan"
           ELSE waiting' = waiting \ {t} /\ cpc' = "barrier"
    BY <1>0, <1>8 DEF Barrier, FullBarrier, passVars, readVars, TypeInv, LoopsReset
  <2>2. visible'[t] = signals[t] /\ \A u \in Threads : u # t => visible'[u] = visible[u]
    BY <1>7, <2>1
  <2>3. \A o \in Objects : LooksDead(o) =>
          /\ \A u \in Threads : Loading(u, o) => u \in waiting \ {t} \/ visible'[u].flag = TRUE
          /\ \A u \in Threads, i \in Slots :
               GuardedBy(u, i, o) => u \in waiting \ {t} \/ visible'[u].slots[i] = o
    BY <1>0, <1>5, <2>1, <2>2 DEF ReadersAreSeen, GuardedBy
  <2>4. ReadersAreSeen'
    <3>1. CASE waiting = {t}
      <4>1. waiting' = Threads /\ cpc' = "scan" /\ \A u \in Threads : thr' # u
        BY <2>1, <3>1, ThreadsAssumption
      <4> QED BY <1>6, <2>3, <3>1, <4>1 DEF ReadersAreSeen, Scanned
    <3>2. CASE waiting # {t}
      BY <1>6, <2>1, <2>3, <3>2 DEF ReadersAreSeen, Scanned
    <3> QED BY <3>1, <3>2
  <2>5. LoopsInOrder'
    BY <1>0, <1>1, <2>1 DEF LoopsInOrder
  <2> QED BY <1>2, <1>4, <2>4, <2>5 DEF SafeAfter
<1>9. CASE ScanSlot(t)
  <2>1. /\ cpc = "scan" /\ cpc' = "scan" /\ t \in waiting /\ thr \in {NULL, t}
        /\ hazards' = hazards \cup HazardIn(t, idx) /\ thr' = t /\ idx' = idx + 1
        /\ waiting' = waiting /\ visible' = visible
    BY <1>9 DEF ScanSlot, signalVars
  <2>2. idx \in Nat /\ (thr = NULL => idx = 0)
    BY <1>0, <2>1 DEF LoopsInOrder, TypeInv, TypeOK, CollectorTypeOK
  <2>3. ASSUME NEW o \in Objects, LooksDead(o), NEW u \in Threads, NEW i \in Slots,
               GuardedBy(u, i, o)
        PROVE  /\ visible'[u].slots[i] = o
               /\ o \in hazards' \/ (u \in waiting' /\ (thr' = u => idx' <= i))
    <3>1. /\ visible[u].slots[i] = o
          /\ o \in hazards \/ (u \in waiting /\ (thr = u => idx <= i))
      BY <1>0, <2>1, <2>3 DEF ReadersAreSeen
    <3>2. i \in Nat
      BY DEF Slots
    <3>3. CASE o \in hazards
      BY <2>1, <3>1, <3>3
    <3>4. CASE o \notin hazards /\ u # t
      BY <2>1, <3>1, <3>4
    <3>5. CASE o \notin hazards /\ u = t
      <4>1. idx <= i
        BY <2>1, <2>2, <3>1, <3>2, <3>5
      <4>2. CASE idx = i
        <5>1. o \in HazardIn(t, idx)
          BY <3>1, <3>5, <4>2, PlaceFacts DEF HazardIn
        <5> QED BY <2>1, <3>1, <5>1
      <4>3. CASE idx # i
        <5>1. idx + 1 <= i
          BY <2>2, <3>2, <4>1, <4>3
        <5> QED BY <2>1, <3>1, <3>5, <5>1
      <4> QED BY <4>2, <4>3
    <3> QED BY <3>3, <3>4, <3>5
  <2>4. \A o \in Objects, u \in Threads : LooksDead(o) /\ Loading(u, o) =>
          u \in waiting' /\ visible'[u].flag = TRUE
    BY <1>0, <2>1 DEF ReadersAreSeen
  <2>5. ReadersAreSeen'
    BY <1>6, <2>1, <2>3, <2>4 DEF ReadersAreSeen, Scanned
  <2>6. LoopsInOrder'
    BY <1>0, <1>1, <2>1, ThreadsAssumption DEF LoopsInOrder
  <2> QED BY <1>2, <1>4, <2>5, <2>6 DEF SafeAfter
<1>10. CASE Poll(t)
  <2>1. /\ cpc = "scan" /\ thr = t /\ idx = SlotCount /\ ~visible[t].flag
        /\ waiting' = waiting \ {t} /\ thr' = NULL /\ idx' = 0
        /\ cpc' = IF waiting = {t} THEN "update" ELSE "scan"
        /\ visible' = visible /\ hazards' = hazards
    BY <1>10 DEF Poll, FlagReadsFalse, signalVars, passVars
  <2>2. ASSUME NEW o \in Objects, LooksDead(o), NEW u \in Threads, NEW i \in Slots,
               GuardedBy(u, i, o)
        PROVE  visible'[u].slots[i] = o /\ (o \in hazards' \/ u \in waiting')
    <3>1. /\ visible[u].slots[i] = o
          /\ o \in hazards \/ (u \in waiting /\ (thr = u => idx <= i))
      BY <1>0, <2>1, <2>2 DEF ReadersAreSeen
    <3>2. ~(SlotCount <= i)
      BY SlotCountAssumption DEF Slots
    <3> QED BY <2>1, <3>1, <3>2
  <2>3. \A o \in Objects, u \in Threads : LooksDead(o) /\ Loading(u, o) =>
          u \in waiting' /\ visible'[u].flag = TRUE
    BY <1>0, <2>1 DEF ReadersAreSeen
  <2>4. \A u \in Threads : thr' # u
    BY <2>1, ThreadsAssumption
  <2>5. ReadersAreSeen'
    <3>1. CASE waiting = {t}
      <4>1. cpc' = "update" /\ waiting' = {}
        BY <2>1, <3>1
      <4> QED BY <1>6, <2>2, <2>3, <4>1 DEF ReadersAreSeen
    <3>2. CASE waiting # {t}
      <4>1. cpc' = "scan"
        BY <2>1, <3>2
      <4> QED BY <1>6, <2>2, <2>3, <2>4, <4>1 DEF ReadersAreSeen, Scanned
    <3> QED BY <3>1, <3>2
  <2>6. LoopsInOrder'
    BY <1>0, <1>1, <2>1 DEF LoopsInOrder
  <2> QED BY <1>2, <1>4, <2>5, <2>6 DEF SafeAfter
<1> QED BY <1>8, <1>9, <1>10

-----------------------------------------------------------------------------
\* A verdict that does not condemn the object being updated.
LEMMA VerdictSafe ==
  ASSUME SafeInv, UNCHANGED <<kind, counters, holds, backRef, signals, guard, op>>,
         cpc \in {"precheck", "clear", "recheck"}, Conclude(obj, "default"),
         UNCHANGED <<todo, hazards>>
  PROVE  SafeAfter
<1>0. TypeInv /\ LoopsInOrder
  BY DEF SafeInv
<1>1. obj \in Objects /\ state \in [Objects -> TrackedStates]
  BY <1>0, Types DEF TypeInv, TypeOK, CollectorTypeOK
<1>2. CallsAreConsistent' /\ BackRefsMatch' /\ RefCountExact'
  BY HeapUnmoved
<1>3. \A o \in Objects : state'[o] \in {state[o], "default"}
  BY <1>1 DEF Conclude
<1>4. cpc' = "update" /\ toFree' = toFree /\ sum' = 0
  BY DEF Conclude
<1>5. VerdictsAreRight'
  BY <1>3, <1>4, VerdictsKept
<1>6. ReadersAreSeen'
  BY <1>3, <1>4, ReadersKept DEF Scanned
<1>7. LoopsInOrder'
  BY <1>4 DEF LoopsInOrder
<1> QED BY <1>2, <1>5, <1>6, <1>7 DEF SafeAfter

\* update_state is skipped, or the state is reset for a hazard pointer.
LEMMA SkipSafe ==
  ASSUME SafeInv, UNCHANGED op, NEW o \in Objects, SkipUntracked(o) \/ KeepHazardous(o)
  PROVE  SafeAfter
<1>0. TypeInv /\ LoopsInOrder
  BY DEF SafeInv
<1>1. /\ UNCHANGED <<kind, counters, holds, backRef, signals, guard, op, toFree, hazards, sum>>
      /\ cpc = "update" /\ cpc' = "update" /\ todo' = todo \ {o}
  BY DEF SkipUntracked, KeepHazardous, heapVars, signalVars, readVars
<1>2. \A x \in Objects : state'[x] \in {state[x], "default"}
  <2>1. state \in [Objects -> TrackedStates]
    BY <1>0, Types
  <2> QED BY <2>1 DEF SkipUntracked, KeepHazardous, trackVars
<1>3. CallsAreConsistent' /\ BackRefsMatch' /\ RefCountExact'
  BY <1>1, HeapUnmoved
<1>4. VerdictsAreRight'
  BY <1>1, <1>2, VerdictsKept
<1>5. ReadersAreSeen'
  BY <1>1, <1>2, ReadersKept DEF Scanned
<1>6. LoopsInOrder'
  BY <1>0, <1>1 DEF LoopsInOrder
<1> QED BY <1>3, <1>4, <1>5, <1>6 DEF SafeAfter

\* update_state begins: an object that has passed the scan, with no owner, no weak
\* reference and no tag, is dead.
LEMMA UpdateSafe ==
  ASSUME SafeInv, UNCHANGED op, NEW o \in Objects, UpdateState(o)
  PROVE  SafeAfter
<1>0. /\ TypeInv /\ LoopsInOrder /\ VerdictsAreRight /\ ReadersAreSeen /\ RefCountExact
      /\ TrackedExactlyOnce
  BY DEF SafeInv
<1>1. /\ UNCHANGED <<kind, counters, holds, backRef, signals, guard, op, state, toFree, hazards>>
      /\ UNCHANGED <<idx, sum>>
      /\ cpc = "update" /\ o \in todo /\ state[o] # "untracked" /\ o \notin hazards
      /\ todo' = todo \ {o} /\ obj' = o
      /\ cpc' = IF state[o] = "default" THEN "precheck" ELSE "recheck"
  BY DEF UpdateState, Tracked, heapVars, signalVars, trackVars
<1>2. idx = 0 /\ sum = 0 /\ Live(o) /\ state[o] \in TrackedStates
      /\ counters[o] \in [Shards -> Int]
  BY <1>0, <1>1, Types DEF TypeInv, LoopsReset, LoopsInOrder, TrackedExactlyOnce
<1>3. CallsAreConsistent' /\ BackRefsMatch' /\ RefCountExact'
  BY <1>1, HeapUnmoved
<1>4. \A x \in Objects : /\ Live(x)' = Live(x) /\ Dead(x)' = Dead(x)
                         /\ NoBackRef(x)' = NoBackRef(x)
  BY <1>1, HeapUnmoved
<1>5. ReadersAreSeen'
  BY <1>1, ReadersKept DEF Scanned
<1>6. LoopsInOrder'
  BY <1>0, <1>1 DEF LoopsInOrder
<1>7. ASSUME cpc' = "recheck"
      PROVE  \/ TagFrom(counters[o], 0) \/ SumFrom(counters[o], 0) > 0
             \/ SumFrom(counters[o], 0) = 0 /\ (NoBackRef(o) => Dead(o))
  <2>1. state[o] \in {"recheck", "ready"}
    BY <1>1, <1>2, <1>7 DEF TrackedStates
  <2>2. SumFrom(counters[o], 0) = Cardinality(Holders(o)) - Cardinality(OwedIncrements(o))
    BY <1>0, <1>2, SumFacts DEF RefCountExact, StrongCount
  <2>3. /\ SumFrom(counters[o], 0) \in Nat
        /\ SumFrom(counters[o], 0) = 0 => Holders(o) = {}
    <3>1. Cardinality(Holders(o)) \in Nat /\ Cardinality(OwedIncrements(o)) \in Nat
      BY HoldersFinite, OwedBelow
    <3>2. CASE Holders(o) = {}
      BY <2>2, <3>2, OwedBelow, FS_EmptySet
    <3>3. CASE Holders(o) # {}
      <4>1. Cardinality(OwedIncrements(o)) < Cardinality(Holders(o))
        BY <3>3, OwedBelow
      <4> QED BY <2>2, <3>1, <4>1
    <3> QED BY <3>2, <3>3
  <2>4. ASSUME ~TagFrom(counters[o], 0), Holders(o) = {}, NoBackRef(o)
        PROVE  Dead(o)
    <3>1. CASE state[o] = "ready"
      BY <1>0, <3>1 DEF VerdictsAreRight
    <3>2. CASE state[o] = "recheck"
      <4>1. \A s \in Shards : ~Tag(counters[o][s])
        BY <2>4 DEF TagFrom, Shards
      <4>2. LooksDead(o) /\ Scanned(o)
        BY <1>1, <2>4, <3>2, <4>1 DEF LooksDead, Scanned
      <4>3. /\ \A t \in Threads : ~Loading(t, o)
            /\ \A t \in Threads, i \in Slots : ~GuardedBy(t, i, o)
        BY <1>0, <1>1, <4>2 DEF ReadersAreSeen
      <4> QED BY <2>4, <4>3 DEF Dead, Guarded
    <3> QED BY <2>1, <3>1, <3>2
  <2> QED BY <2>2, <2>3, <2>4
<1>8. VerdictsAreRight'
  <2>1. obj' = o /\ idx' = 0 /\ sum' = 0 /\ counters' = counters
    BY <1>1, <1>2
  <2>2. SumFrom(counters[o], 0) \in Int
    BY <1>2, SumFacts, ShardCountAssumption
  <2>3. TagAhead' <=> TagFrom(counters[o], 0)
    BY <2>1 DEF TagAhead, TagFrom
  <2>4. CountAhead' = SumFrom(counters[o], 0)
    BY <2>1 DEF CountAhead, SumFrom, StrongCount
  <2>5. (sum + CountAhead)' = SumFrom(counters[o], 0)
    BY <2>1, <2>2, <2>4
  <2>6. (NoBackRef(obj)' <=> NoBackRef(o)) /\ (Dead(obj)' <=> Dead(o))
    BY <1>1 DEF NoBackRef, Dead, Holders, Loading, Guarded, GuardedBy
  <2>7. cpc' \in {"precheck", "recheck"}
    BY <1>1
  <2>8. \A x \in Objects : state'[x] = "ready" \/ x \in toFree' => Dead(x)'
    BY <1>0, <1>1, <1>4 DEF VerdictsAreRight
  <2>9. \A x \in Objects : ~Live(x)' => Dead(x)'
    BY <1>0, <1>4 DEF VerdictsAreRight
  <2> QED BY <1>7, <2>3, <2>5, <2>6, <2>7, <2>8, <2>9 DEF VerdictsAreRight
<1> QED BY <1>3, <1>5, <1>6, <1>8 DEF SafeAfter

\* The first reading of the counters, which only tells what to look at more closely.
LEMMA PrecheckSafe ==
  ASSUME SafeInv, UNCHANGED op, Precheck
  PROVE  SafeAfter
<1>0. TypeInv /\ LoopsInOrder
  BY DEF SafeInv
<1>1. /\ UNCHANGED <<kind, counters, holds, backRef, signals, guard, op, hazards, todo>>
      /\ cpc = "precheck"
  BY DEF Precheck, heapVars, signalVars
<1>2. CASE Conclude(obj, "default")
  BY <1>1, <1>2, VerdictSafe
<1>3. CASE cpc' \in {"precheck", "clear"} /\ UNCHANGED <<state, toFree, obj>>
  <2>1. CallsAreConsistent' /\ BackRefsMatch' /\ RefCountExact'
    BY <1>1, HeapUnmoved
  <2>2. VerdictsAreRight'
    BY <1>1, <1>3, VerdictsKept
  <2>3. ReadersAreSeen'
    BY <1>1, <1>3, ReadersKept DEF Scanned
  <2>4. LoopsInOrder'
    BY <1>0, <1>1, <1>3 DEF LoopsInOrder
  <2> QED BY <2>1, <2>2, <2>3, <2>4 DEF SafeAfter
<1> QED BY <1>1, <1>2, <1>3 DEF Precheck

\* The clearing of the tags: the sum stays, and the object waits for the next pass.
LEMMA ClearSafe ==
  ASSUME SafeInv, UNCHANGED op, ClearTags
  PROVE  SafeAfter
<1>0. TypeInv /\ LoopsInOrder /\ RefCountExact /\ ReadersAreSeen
  BY DEF SafeInv
<1>1. /\ UNCHANGED <<kind, holds, backRef, signals, guard, op, hazards, todo>>
      /\ cpc = "clear" /\ counters' = [counters EXCEPT ![obj][idx] = ClearTag(@)]
  BY DEF ClearTags, signalVars
<1>2. /\ obj \in Objects /\ idx \in Shards /\ counters \in [Objects -> [Shards -> Int]]
      /\ state \in [Objects -> TrackedStates] /\ obj \notin todo
  BY <1>0, <1>1, Types DEF TypeInv, TypeOK, CollectorTypeOK, LoopsInOrder
<1>3. /\ CallsAreConsistent' /\ BackRefsMatch'
      /\ \A o \in Objects : /\ Holders(o)' = Holders(o) /\ NoBackRef(o)' = NoBackRef(o)
                            /\ Live(o)' = Live(o)
                            /\ \A t \in Threads : Loading(t, o)' = Loading(t, o)
                            /\ \A t \in Threads, i \in Slots :
                                 GuardedBy(t, i, o)' = GuardedBy(t, i, o)
  BY <1>1, HeapUnmoved
<1>4. /\ counters'[obj] = [counters[obj] EXCEPT ![idx] = ClearTag(@)]
      /\ \A o \in Objects : o # obj => counters'[o] = counters[o]
  BY <1>1, <1>2
<1>5. RefCountExact'
  <2>1. counters[obj] \in [Shards -> Int]
    BY <1>2
  <2>2. CountSum([counters[obj] EXCEPT ![idx] = ClearTag(@)], ShardCount)
          = CountSum(counters[obj], ShardCount)
    BY <1>2, <2>1, SumOfClear
  <2>3. CountSum(counters'[obj], ShardCount) = CountSum(counters[obj], ShardCount)
    BY <1>4, <2>2
  <2>4. \A o \in Objects : StrongCount(o)' = StrongCount(o)
    BY <1>4, <2>3 DEF StrongCount
  <2>5. \A o \in Objects : OwedIncrements(o)' = OwedIncrements(o)
    BY <1>1 DEF OwedIncrements
  <2> QED BY <1>0, <1>3, <2>4, <2>5 DEF RefCountExact
<1>6. /\ cpc' \in {"clear", "update"}
      /\ \A o \in Objects : o # obj => state'[o] = state[o]
      /\ state'[obj] \in {state[obj], "recheck", "default"}
      /\ toFree' = toFree
      /\ cpc' = "clear" => obj' = obj
      /\ cpc' = "update" => sum' = 0
  BY <1>1, <1>2 DEF ClearTags, Conclude, AfterClear
<1>7. VerdictsAreRight'
  BY <1>1, <1>6, VerdictsKept
<1>8. ReadersAreSeen'
  <2>1. \A o \in Objects : LooksDead(o)' /\ o # obj => LooksDead(o)
    BY <1>3, <1>4, <1>6 DEF LooksDead
  <2>3. \A o \in Objects : o # obj => (Scanned(o)' => Scanned(o))
    BY <1>1 DEF Scanned
  <2>4. \A o \in Objects : Scanned(o)' => o # obj
    BY <1>1, <1>2 DEF Scanned
  <2> QED BY <1>0, <1>1, <1>3, <1>6, <2>1, <2>3, <2>4 DEF ReadersAreSeen
<1>9. LoopsInOrder'
  BY <1>1, <1>2, <1>6 DEF LoopsInOrder
<1> QED BY <1>3, <1>5, <1>7, <1>8, <1>9 DEF SafeAfter

\* The re-check: a zero sum without a tag, over shards that are read one at a time,
\* belongs to an object that is dead unless a weak reference points back to it.
LEMMA RecheckSafe ==
  ASSUME SafeInv, UNCHANGED op, Recheck
  PROVE  SafeAfter
<1> DEFINE word == counters[obj][idx]
           total == sum + RefCount(word)
<1>0. TypeInv /\ LoopsInOrder /\ VerdictsAreRight
  BY DEF SafeInv
<1>1. /\ UNCHANGED <<kind, counters, holds, backRef, signals, guard, op, hazards, todo>>
      /\ cpc = "recheck"
  BY DEF Recheck, heapVars, signalVars
<1>2. /\ obj \in Objects /\ idx \in Shards /\ counters[obj] \in [Shards -> Int] /\ sum \in Int
      /\ word \in Int /\ RefCount(word) \in Int
  BY <1>0, <1>1, Types, CounterTypes DEF TypeInv, TypeOK, CollectorTypeOK
<1>3. CASE Conclude(obj, "default")
  BY <1>1, <1>3, VerdictSafe
<1>4. CASE ~Tag(word) /\ ~Conclude(obj, "default")
  <2>0. /\ UNCHANGED <<state, toFree, obj>>
        /\ \/ idx # LastShard /\ cpc' = "recheck" /\ idx' = idx + 1 /\ sum' = total
           \/ idx = LastShard /\ total = 0 /\ cpc' = "weakref" /\ sum' = 0
    BY <1>1, <1>4 DEF Recheck
  <2>1. /\ CallsAreConsistent' /\ BackRefsMatch' /\ RefCountExact'
        /\ \A o \in Objects : Live(o)' = Live(o) /\ Dead(o)' = Dead(o)
    BY <1>1, HeapUnmoved
  <2>2. ReadersAreSeen'
    BY <1>1, <2>0, ReadersKept DEF Scanned
  <2>3. LoopsInOrder'
    BY <1>0, <1>1, <2>0 DEF LoopsInOrder
  <2>4. RecheckIsRight
    BY <1>0, <1>1, RecheckVerdict
  <2>5. /\ SumFrom(counters[obj], idx) = RefCount(word) + SumFrom(counters[obj], idx + 1)
        /\ SumFrom(counters[obj], LastShard) = RefCount(counters[obj][LastShard])
    BY <1>2, SumFacts
  <2>6. idx + 1 \in 0 .. ShardCount /\ SumFrom(counters[obj], idx + 1) \in Int
    <3>1. idx + 1 \in 0 .. ShardCount
      BY <1>2, ShardCountAssumption DEF Shards
    <3> QED BY <1>2, <3>1, SumFacts
  <2>7. TagFrom(counters[obj], idx) => TagFrom(counters[obj], idx + 1)
    <3> SUFFICES ASSUME NEW s \in Shards, s >= idx, Tag(counters[obj][s])
                 PROVE  TagFrom(counters[obj], idx + 1)
      BY DEF TagFrom
    <3>1. s # idx
      BY <1>4
    <3>2. s >= idx + 1
      BY <1>2, <3>1 DEF Shards
    <3> QED BY <3>2 DEF TagFrom
  <2>8. (NoBackRef(obj)' <=> NoBackRef(obj)) /\ (Dead(obj)' <=> Dead(obj))
    BY <1>1, <2>0 DEF NoBackRef, Dead, Holders, Loading, Guarded, GuardedBy
  <2>9. CASE idx # LastShard
    <3>1. cpc' = "recheck" /\ idx' = idx + 1 /\ sum' = total /\ obj' = obj /\ counters' = counters
      BY <1>1, <2>0, <2>9
    <3>2. sum + SumFrom(counters[obj], idx) = total + SumFrom(counters[obj], idx + 1)
      BY <1>2, <2>5, <2>6
    <3> HIDE DEF total
    <3>3. \/ TagFrom(counters[obj], idx + 1)
          \/ total + SumFrom(counters[obj], idx + 1) > 0
          \/ total + SumFrom(counters[obj], idx + 1) = 0 /\ (NoBackRef(obj) => Dead(obj))
      BY <2>4, <2>7, <3>2 DEF RecheckIsRight
    <3>4. TagAhead' <=> TagFrom(counters[obj], idx + 1)
      BY <3>1 DEF TagAhead, TagFrom
    <3>5. (sum + CountAhead)' = total + SumFrom(counters[obj], idx + 1)
      BY <3>1 DEF CountAhead, SumFrom, StrongCount
    <3>6. VerdictsAreRight'
      BY <1>0, <2>0, <2>1, <2>8, <3>1, <3>3, <3>4, <3>5 DEF VerdictsAreRight
    <3> QED BY <2>1, <2>2, <2>3, <3>6 DEF SafeAfter
  <2>10. CASE idx = LastShard
    <3>1. cpc' = "weakref" /\ total = 0
      BY <2>0, <2>10
    <3>2. sum + SumFrom(counters[obj], idx) = total
      BY <2>5, <2>10
    <3>3. ~TagFrom(counters[obj], idx)
      <4>1. \A s \in Shards : s >= idx => s = idx
        BY <1>2, <2>10, ShardCountAssumption DEF Shards, LastShard
      <4> QED BY <1>4, <4>1 DEF TagFrom
    <3>4. NoBackRef(obj) => Dead(obj)
      <4> HIDE DEF total
      <4> QED BY <2>4, <3>1, <3>2, <3>3 DEF RecheckIsRight
    <3>5. VerdictsAreRight'
      BY <1>0, <2>0, <2>1, <2>8, <3>1, <3>4 DEF VerdictsAreRight
    <3> QED BY <2>1, <2>2, <2>3, <3>5 DEF SafeAfter
  <2> QED BY <2>9, <2>10
<1>5. Tag(word) => Conclude(obj, "default")
  BY DEF Recheck
<1> QED BY <1>3, <1>4, <1>5

\* clear_weak_backref: an object that no weak reference points back to is condemned,
\* and is dead; otherwise the back reference is cleared and it is re-checked.
LEMMA WeakRefSafe ==
  ASSUME SafeInv, UNCHANGED op, ClearWeakBackRef
  PROVE  SafeAfter
<1>0. TypeInv /\ LoopsInOrder /\ VerdictsAreRight /\ BackRefsMatch /\ ReadersAreSeen
  BY DEF SafeInv
<1>1. /\ UNCHANGED <<kind, counters, holds, signals, guard, op, hazards, todo>>
      /\ cpc = "weakref"
  BY DEF ClearWeakBackRef, signalVars
<1>2. /\ obj \in Objects /\ backRef \in [Objects -> OptObject] /\ holds \in [Places -> OptObject]
      /\ state \in [Objects -> TrackedStates] /\ WeakField(obj) \in Places /\ obj \notin todo
  BY <1>0, <1>1, Types, PlaceFacts DEF TypeInv, TypeOK, CollectorTypeOK, LoopsInOrder
<1>3. cpc' = "update" /\ sum' = 0
  BY DEF ClearWeakBackRef, Conclude
<1>4. LoopsInOrder'
  BY <1>3 DEF LoopsInOrder
<1>5. CASE WeakUnreachable(obj)
  <2>1. UNCHANGED backRef /\ Conclude(obj, "ready")
    BY <1>5 DEF ClearWeakBackRef
  <2>2. NoBackRef(obj)
    BY <1>0, <1>2, <1>5, PlaceFacts DEF WeakUnreachable, NoBackRef, BackRefsMatch
  <2>3. Dead(obj)
    BY <1>0, <1>1, <2>2 DEF VerdictsAreRight
  <2>4. /\ CallsAreConsistent' /\ BackRefsMatch' /\ RefCountExact'
        /\ \A o \in Objects : Live(o)' = Live(o) /\ Dead(o)' = Dead(o)
    BY <1>1, <2>1, HeapUnmoved
  <2>5. /\ \A o \in Objects : o # obj => state'[o] = state[o]
        /\ state'[obj] = "ready" /\ toFree' = toFree \cup {obj}
    BY <1>2, <2>1 DEF Conclude
  <2>6. VerdictsAreRight'
    BY <1>0, <1>3, <2>3, <2>4, <2>5 DEF VerdictsAreRight
  <2>7. ReadersAreSeen'
    BY <1>1, <1>3, <2>1, <2>5, ReadersKept DEF Scanned
  <2> QED BY <1>4, <2>4, <2>6, <2>7 DEF SafeAfter
<1>6. CASE ~WeakUnreachable(obj)
  <2>1. PICK w \in Objects : w = holds[WeakField(obj)] /\ backRef[w] = obj
    BY <1>0, <1>2, <1>6 DEF WeakUnreachable, BackRefsMatch, OptObject
  <2>2. backRef' = [backRef EXCEPT ![w] = NULL] /\ Conclude(obj, "recheck")
    BY <1>6, <2>1 DEF ClearWeakBackRef
  <2>3. backRef'[w] = NULL /\ \A v \in Objects : v # w => backRef'[v] = backRef[v]
    BY <1>2, <2>2
  <2>4. /\ \A o \in Objects : o # obj => state'[o] = state[o]
        /\ state'[obj] = "recheck" /\ toFree' = toFree
    BY <1>2, <2>2 DEF Conclude
  <2>5. CallsAreConsistent'
    BY <1>1 DEF SafeInv, CallsAreConsistent, CallIsConsistent
  <2>6. RefCountExact'
    BY <1>1 DEF SafeInv, RefCountExact, OwedIncrements, Live, StrongCount, Holders
  <2>7. BackRefsMatch'
    <3>1. \A v \in Objects : backRef'[v] # NULL => backRef'[v] = backRef[v]
      BY <2>3
    <3>2. \A v \in Objects : backRef'[v] \in {backRef[v], NULL}
      BY <2>3
    <3>3. \A o \in Objects : holds[WeakField(o)] # NULL => holds[WeakField(o)] \in Objects
      BY <1>2, PlaceFacts DEF OptObject
    <3> QED BY <1>0, <1>1, <3>1, <3>2, <3>3 DEF BackRefsMatch
  <2>8. \A o \in Objects : /\ Live(o)' = Live(o) /\ Holders(o)' = Holders(o)
                           /\ NoBackRef(o) => NoBackRef(o)'
                           /\ o # obj => (NoBackRef(o)' => NoBackRef(o))
                           /\ \A t \in Threads : Loading(t, o)' = Loading(t, o)
                           /\ Guarded(o)' = Guarded(o)
                           /\ \A t \in Threads, i \in Slots : GuardedBy(t, i, o)' = GuardedBy(t, i, o)
    <3>1. \A o \in Objects : /\ NoBackRef(o) => NoBackRef(o)'
                             /\ o # obj => (NoBackRef(o)' => NoBackRef(o))
      BY <2>1, <2>3, PlaceFacts DEF NoBackRef
    <3> QED BY <1>1, <3>1 DEF Live, Holders, Loading, Guarded, GuardedBy
  <2>9. \A o \in Objects : Dead(o) => Dead(o)'
    BY <2>8 DEF Dead
  <2>10. VerdictsAreRight'
    BY <1>0, <1>3, <2>4, <2>8, <2>9 DEF VerdictsAreRight
  <2>11. \A o \in Objects : Scanned(o)' => o # obj /\ Scanned(o)
    BY <1>1, <1>2 DEF Scanned
  <2>12. \A o \in Objects : LooksDead(o)' /\ o # obj => LooksDead(o)
    BY <1>1, <2>4, <2>8 DEF LooksDead
  <2>13. ReadersAreSeen'
    BY <1>0, <1>1, <1>3, <2>8, <2>11, <2>12 DEF ReadersAreSeen
  <2> QED BY <1>4, <2>5, <2>6, <2>7, <2>10, <2>13 DEF SafeAfter
<1> QED BY <1>5, <1>6

-----------------------------------------------------------------------------
\* free_pointers: what is freed is dead, the Sdarcs in its fields are dropped like
\* any other, and no weak reference points at memory that is returned.
LEMMA FreeSafe ==
  ASSUME SafeInv, UNCHANGED op,
         \/ \E o \in Objects : BeginFree(o)
         \/ \E f \in Fields, s \in Shards : DropField(f, s)
         \/ EndFree
  PROVE  SafeAfter
<1>0. /\ TypeInv /\ LoopsInOrder /\ VerdictsAreRight /\ BackRefsMatch /\ RefCountExact
      /\ ReadersAreSeen /\ TrackedExactlyOnce /\ WorkIsTracked
  BY DEF SafeInv
<1>t. /\ kind \in [Objects -> Kinds] /\ state \in [Objects -> TrackedStates]
      /\ backRef \in [Objects -> OptObject] /\ holds \in [Places -> OptObject]
      /\ counters \in [Objects -> [Shards -> Int]] /\ toFree \subseteq Objects
      /\ cpc = "drop" => obj \in Objects
  BY <1>0, Types DEF TypeInv, TypeOK, CollectorTypeOK
<1>1. ASSUME NEW o \in Objects, BeginFree(o)
      PROVE  SafeAfter
  <2>1. /\ UNCHANGED <<counters, holds, backRef, signals, guard, op, sum>>
        /\ o \in toFree /\ toFree' \subseteq toFree /\ cpc' = "drop"
        /\ kind'[o] = "freeing" /\ \A x \in Objects : x # o => kind'[x] = kind[x]
        /\ \A x \in Objects : state'[x] = "ready" => state[x] = "ready"
        /\ cpc = "free"
    BY <1>1, <1>t DEF BeginFree, signalVars
  <2>2. Dead(o)
    BY <1>0, <2>1 DEF VerdictsAreRight
  <2>3. \A x \in Objects : Dead(x) => Dead(x)'
    BY <2>1 DEF Dead, Holders, NoBackRef, Loading, Guarded, GuardedBy
  <2>4. \A x \in Objects : x # o => Live(x)' = Live(x)
    BY <2>1 DEF Live
  <2>5. VerdictsAreRight'
    BY <1>0, <2>1, <2>2, <2>3, <2>4 DEF VerdictsAreRight
  <2>6. LoopsInOrder'
    BY <1>0, <2>1 DEF LoopsInOrder
  <2>7. ReadersAreSeen'
    BY <2>1 DEF ReadersAreSeen, Scanned
  <2>8. CallsAreConsistent'
    BY <2>1 DEF SafeInv, CallsAreConsistent, CallIsConsistent
  <2>9. BackRefsMatch'
    <3>1. \A w \in Objects : backRef[w] # NULL => backRef[w] \in Objects /\ backRef[w] # o
      BY <1>t, <2>2 DEF Dead, NoBackRef, OptObject
    <3> QED BY <1>0, <2>1, <3>1 DEF BackRefsMatch
  <2>10. RefCountExact'
    BY <1>0, <2>1 DEF RefCountExact, OwedIncrements, Live, StrongCount, Holders
  <2> QED BY <2>5, <2>6, <2>7, <2>8, <2>9, <2>10 DEF SafeAfter
<1>2. ASSUME NEW f \in Fields, NEW s \in Shards, DropField(f, s)
      PROVE  SafeAfter
  <2>1. f \in Places /\ holds[f] # NULL
    BY <1>2, PlaceFacts DEF DropField
  <2>2. PICK x \in Objects : x = holds[f]
    BY <1>t, <2>1 DEF OptObject
  <2>3. /\ Decrement(x, s) /\ holds' = [holds EXCEPT ![f] = NULL]
        /\ UNCHANGED <<kind, backRef, signalVars, op>>
        /\ UNCHANGED <<state, cpc, obj, idx, sum, todo, toFree, thr, waiting, hazards>>
    BY <1>2, <2>2 DEF DropField, passVars, scanVars, readVars
  <2>4. PICK o \in Objects : o = obj /\ kind[o] = "freeing" /\ f \in {WeakField(o), DataField(o)}
    BY <1>0, <1>2, <1>t DEF DropField, WorkIsTracked
  <2>5. HeapStep
    BY <2>1, <2>2, <2>3, <2>4, DropRef
  <2>6. KeepsCalls(NULL)
    <3>1. \A q \in Places : holds'[q] # holds[q] => q = f
      BY <1>t, <2>3
    <3>2. ~Live(o)
      BY <2>4 DEF Live
    <3> QED BY <2>3, <2>4, <3>1, <3>2 DEF KeepsCalls, signalVars
  <2> QED BY <2>5, <2>6, CallsUnmoved, UserSafe DEF SafeStep
<1>3. CASE EndFree
  <2>1. /\ UNCHANGED <<holds, signals, guard, op, sum, state, toFree>>
        /\ cpc = "drop" /\ cpc' = "free"
        /\ kind' = [kind EXCEPT ![obj] = "unallocated"]
        /\ counters' = [counters EXCEPT ![obj] = [s \in Shards |-> NewCounter]]
        /\ backRef' = [backRef EXCEPT ![obj] = NULL]
        /\ holds[DataField(obj)] = NULL
    BY <1>3 DEF EndFree, signalVars, trackVars, passVars
  <2>2. PICK o \in Objects : o = obj
    BY <1>t, <2>1
  <2>3. kind[o] = "freeing" /\ ~Live(o)
    BY <1>0, <2>1, <2>2 DEF WorkIsTracked, Live
  <2>4. backRef[o] = NULL
    BY <2>3, LiveFacts
  <2>5. backRef' = backRef
    BY <1>t, <2>1, <2>2, <2>4
  <2>6. /\ kind'[o] = "unallocated" /\ \A x \in Objects : x # o => kind'[x] = kind[x]
        /\ \A x \in Objects : x # o => counters'[x] = counters[x]
        /\ holds[DataField(o)] = NULL
    BY <1>t, <2>1, <2>2
  <2>7. \A x \in Objects : Dead(x) => Dead(x)'
    BY <2>1, <2>5 DEF Dead, Holders, NoBackRef, Loading, Guarded, GuardedBy
  <2>8. \A x \in Objects : Live(x)' => x # o /\ Live(x)
    BY <2>6 DEF Live
  <2>9. Dead(o)
    BY <1>0, <2>3 DEF VerdictsAreRight
  <2>a. \A x \in Objects : x # o => Live(x)' = Live(x)
    BY <2>6 DEF Live
  <2>10. VerdictsAreRight'
    BY <1>0, <2>1, <2>7, <2>9, <2>a DEF VerdictsAreRight
  <2>11. LoopsInOrder'
    BY <1>0, <2>1 DEF LoopsInOrder
  <2>12. ReadersAreSeen'
    BY <2>1 DEF ReadersAreSeen, Scanned
  <2>13. CallsAreConsistent'
    BY <2>1 DEF SafeInv, CallsAreConsistent, CallIsConsistent
  <2>14. BackRefsMatch'
    <3>1. \A w \in Objects : backRef[w] # NULL =>
            backRef[w] \in Objects /\ kind[backRef[w]] = "data" /\ backRef[w] # o
      BY <1>0, <1>t, <2>3 DEF BackRefsMatch, OptObject
    <3> QED BY <1>0, <2>1, <2>5, <2>6, <3>1 DEF BackRefsMatch
  <2>15. RefCountExact'
    BY <1>0, <2>1, <2>6, <2>8 DEF RefCountExact, OwedIncrements, StrongCount, Holders
  <2> QED BY <2>10, <2>11, <2>12, <2>13, <2>14, <2>15 DEF SafeAfter
<1> QED BY <1>1, <1>2, <1>3

-----------------------------------------------------------------------------
\* Nothing is allocated, loaded or condemned when the program starts.
LEMMA InitSafeInv == Init => SafeInv
<1> SUFFICES ASSUME Init PROVE SafeInv
  OBVIOUS
<1>1. TypeInv /\ TrackInv
  BY InitTypeInv, InitTrackInv
<1>2. /\ HeapInit /\ SignalInit /\ CollectorInit
      /\ \A t \in Threads : op[t] = IdleOp
  BY DEF Init
<1>3. CasUndisturbed
  BY <1>2, IdleOpFacts DEF CasUndisturbed
<1>4. \A t \in Threads, i \in Slots : guard[t][i] = NULL
  BY <1>2 DEF SignalInit
<1>5. CallsAreConsistent
  BY <1>2, <1>4, IdleOpFacts DEF CallsAreConsistent, CallIsConsistent, ResultSteps
<1>6. /\ \A p \in Places : holds[p] = NULL
      /\ \A o \in Objects : backRef[o] = NULL /\ kind[o] = "unallocated" /\ state[o] = "untracked"
  BY <1>2 DEF HeapInit, CollectorInit
<1>7. BackRefsMatch
  BY <1>6, PlaceFacts DEF BackRefsMatch
<1>8. RefCountExact
  BY <1>6 DEF RefCountExact, Live
<1>9. \A o \in Objects : Dead(o)
  BY <1>2, <1>4, <1>6, IdleOpFacts, PlaceFacts
  DEF Dead, Holders, NoBackRef, Loading, Guarded, GuardedBy
<1>10. VerdictsAreRight
  BY <1>2, <1>9 DEF VerdictsAreRight, CollectorInit
<1>11. LoopsInOrder
  BY <1>2 DEF LoopsInOrder, CollectorInit
<1>12. ReadersAreSeen
  BY <1>6 DEF ReadersAreSeen, LooksDead
<1> QED BY <1>1, <1>3, <1>5, <1>7, <1>8, <1>10, <1>11, <1>12 DEF SafeInv, TrackInv

\* Nothing the invariant speaks about changes in a stuttering step.
LEMMA StutterSafe ==
  ASSUME SafeInv, UNCHANGED vars
  PROVE  SafeAfter
<1>1. /\ UNCHANGED <<kind, counters, holds, backRef, signals, visible, guard, op>>
      /\ UNCHANGED <<state, cpc, obj, idx, sum, todo, toFree, thr, waiting, hazards>>
  BY DEF vars, heapVars, signalVars, collectorVars, trackVars, passVars, scanVars, readVars
<1>2. UNCHANGED <<heapVars, collectorVars, visible>>
  BY DEF vars, signalVars
<1>o. OwedKept
  BY <1>1, OwedUnmoved
<1>3. \A o \in Objects : /\ \A t \in Threads : Loading(t, o)' => Loading(t, o)
                         /\ \A t \in Threads, i \in Slots : GuardedBy(t, i, o)' => GuardedBy(t, i, o)
  BY <1>1 DEF Loading, GuardedBy
<1>4. HeapStep
  BY <1>2, <1>3, <1>o, QuietStep
<1>5. CallsAreConsistent'
  BY <1>1, HeapUnmoved
<1> QED BY <1>4, <1>5, UserSafe DEF SafeStep

\* Every step that disturbs no call of compare_and_set keeps the invariant.
LEMMA NextSafeInv == SafeInv /\ [Next]_vars /\ CasUndisturbed' => SafeInv'
<1> SUFFICES ASSUME SafeInv, [Next]_vars, CasUndisturbed' PROVE SafeInv'
  OBVIOUS
<1>1. TypeInv /\ TrackInv
  BY DEF SafeInv, TrackInv
<1>2. TypeInv' /\ TrackInv'
  BY <1>1, NextTypeInv, NextTrackInv
<1>3. SafeAfter
  <2>1. CASE UNCHANGED vars
    BY <2>1, StutterSafe
  <2>2. CASE HandleStep
    BY <2>2, HandleSafe, UserSafe
  <2>3. ASSUME NEW t \in Threads, CallStep(t) \/ ContinueStep(t)
        PROVE  SafeAfter
    BY <2>3, CallSafe, ContinueSafe, UserSafe
  <2>4. ASSUME NEW t \in Threads, DrainStep(t)
        PROVE  SafeAfter
    BY <2>4, DrainSafe
  <2>5. CASE CollectorStep /\ UNCHANGED op
    <3>1. CASE BeginOuter \/ TakeNew \/ EndUpdate \/ EndPass
      BY <2>5, <3>1, BetweenPasses
    <3>2. CASE \E t \in Threads : Barrier(t) \/ ScanSlot(t) \/ Poll(t)
      BY <2>5, <3>2, ScanSafe
    <3>3. CASE \E o \in Objects : SkipUntracked(o) \/ KeepHazardous(o) \/ UpdateState(o)
      BY <2>5, <3>3, SkipSafe, UpdateSafe
    <3>4. CASE Precheck \/ ClearTags \/ Recheck \/ ClearWeakBackRef
      BY <2>5, <3>4, PrecheckSafe, ClearSafe, RecheckSafe, WeakRefSafe
    <3>5. CASE \/ \E o \in Objects : BeginFree(o)
               \/ \E f \in Fields, s \in Shards : DropField(f, s)
               \/ EndFree
      BY <2>5, <3>5, FreeSafe
    <3> QED BY <2>5, <3>1, <3>2, <3>3, <3>4, <3>5 DEF CollectorStep
  <2> QED BY <2>1, <2>2, <2>3, <2>4, <2>5 DEF Next
<1> QED BY <1>2, <1>3 DEF SafeInv, SafeAfter, TrackInv

\* The invariant holds in every state of an execution that disturbs no call of
\* compare_and_set, whatever its threads, objects, shards and slots.
LEMMA AlwaysSafe == Spec /\ []CasUndisturbed => []SafeInv
<1>1. SafeInv /\ [Next]_vars /\ CasUndisturbed' => SafeInv'
  BY NextSafeInv
<1> QED BY <1>1, InitSafeInv, PTL DEF Spec

\* Only compare_and_set makes a thread owe an increment, and without swaps nothing
\* else changes a cell.
LEMMA OnlyCasInstalls ==
  ASSUME TypeInv, [Next]_vars
  PROVE  \/ \E t \in Threads, c \in Cells, m \in Handles, n \in Handles, dst \in Handles :
              CompareAndSet(t, c, m, n, dst)
         \/ /\ \A t \in Threads : op'[t].pc = "cas" => op'[t] = op[t]
            /\ UsesSwap \/ \A c \in Cells : holds'[c] = holds[c]
<1> DEFINE Installs == \E t \in Threads, c \in Cells, m \in Handles, n \in Handles,
                            dst \in Handles : CompareAndSet(t, c, m, n, dst)
           Keeps == /\ \A t \in Threads : op'[t].pc = "cas" => op'[t] = op[t]
                    /\ UsesSwap \/ \A c \in Cells : holds'[c] = holds[c]
<1>0. /\ op \in [Threads -> Ops] /\ holds \in [Places -> OptObject]
      /\ \A c \in Cells : c \in Places /\ c \notin Handles /\ c \notin Fields /\ c # NULL
      /\ \A o \in Objects : WeakField(o) \in Fields /\ DataField(o) \in Fields
  BY Types, PlaceFacts
<1>1. CASE UNCHANGED vars
  BY <1>1 DEF vars, heapVars
<1>2. CASE HandleStep
  <2>1. op' = op
    BY <1>2 DEF HandleStep, New, Clone, Drop, Swap
  <2>2. ASSUME NEW h \in Handles, NEW o \in DataObjects, NEW s \in Shards, NEW p \in Shards,
               NEW hc \in Handles \cup {NULL}, New(h, o, s, p, hc)
        PROVE  \A c \in Cells : holds'[c] = holds[c]
    <3>1. DataField(o) \in Fields
      BY <1>0 DEF Objects
    <3> QED BY <1>0, <2>2, <3>1 DEF New
  <2>3. ASSUME NEW src \in Places, NEW h \in Handles, NEW s \in Shards, Clone(src, h, s)
        PROVE  \A c \in Cells : holds'[c] = holds[c]
    BY <1>0, <2>3 DEF Clone
  <2>4. ASSUME NEW h \in Handles, NEW s \in Shards, Drop(h, s)
        PROVE  \A c \in Cells : holds'[c] = holds[c]
    BY <1>0, <2>4 DEF Drop
  <2>5. ASSUME NEW c \in Cells, NEW h \in Handles, Swap(c, h)
        PROVE  UsesSwap
    BY <2>5 DEF Swap
  <2> QED BY <1>2, <2>1, <2>2, <2>3, <2>4, <2>5 DEF HandleStep
<1>3. ASSUME NEW t \in Threads, CallStep(t)
      PROVE  Installs \/ Keeps
  <2>1. ASSUME op'[t].pc # "cas" /\ \A u \in Threads \ {t} : op'[u] = op[u],
               \A c \in Cells : holds'[c] = holds[c]
        PROVE  Keeps
    BY <2>1
  <2>2. ASSUME NEW l \in Locations, NEW dst \in Handles, LoadOwned(t, l, dst) \/ Borrow(t, l, dst)
        PROVE  Keeps
    <3>1. /\ op'[t].pc \in {"load", "publish"} /\ \A u \in Threads \ {t} : op'[u] = op[u]
          /\ holds' = holds
      <4>1. CASE LoadOwned(t, l, dst)
        BY <1>0, <4>1 DEF LoadOwned, Call, heapVars
      <4>2. CASE Borrow(t, l, dst)
        BY <1>0, <4>2 DEF Borrow, Call, heapVars
      <4> QED BY <2>2, <4>1, <4>2
    <3> QED BY <2>1, <3>1
  <2>3. ASSUME NEW i \in Slots, DropGuard(t, i)
        PROVE  Keeps
    BY <2>3 DEF DropGuard, heapVars
  <2>4. ASSUME NEW src \in Handles, NEW dst \in Handles, NEW w \in WeakObjects,
               NEW s \in Shards, NEW p \in Shards, Downgrade(t, src, dst, w, s, p)
        PROVE  Keeps
    <3>1. /\ op'[t].pc = "weakclone" /\ \A u \in Threads \ {t} : op'[u] = op[u]
          /\ holds' = [holds EXCEPT ![WeakField(holds[src])] = w]
      BY <1>0, <2>4 DEF Downgrade, Call
    <3>2. holds[src] \in Objects
      BY <1>0, <2>4, PlaceFacts DEF Downgrade, Readable, OptObject
    <3>3. \A c \in Cells : holds'[c] = holds[c]
      BY <1>0, <3>1, <3>2
    <3> QED BY <2>1, <3>1, <3>3
  <2>5. ASSUME NEW src \in Handles, NEW dst \in Handles, DowngradeAgain(t, src, dst)
        PROVE  Keeps
    <3>1. /\ op'[t].pc = "weakclone" /\ \A u \in Threads \ {t} : op'[u] = op[u]
          /\ holds' = holds
      BY <1>0, <2>5 DEF DowngradeAgain, Call, heapVars
    <3> QED BY <2>1, <3>1
  <2> HIDE DEF Keeps
  <2> QED BY <1>3, <2>2, <2>3, <2>4, <2>5 DEF CallStep
<1>4. ASSUME NEW t \in Threads, ContinueStep(t)
      PROVE  Keeps
  <2>1. op[t] \in Ops
    BY <1>0
  <2>2. \A u \in Threads \ {t} : op'[u] = op[u]
    BY <1>0, <1>4 DEF ContinueStep, CasIncrement, LoadPtr, LoadIncrement, LoadExit, Publish,
       Reload, Fallback, WeakClone
  <2>3. op'[t].pc # "cas"
    <3>1. CASE LoadPtr(t)
      <4>1. op'[t].pc \in {"exit", "increment"}
        BY <1>0, <2>1, <3>1 DEF LoadPtr, Ops
      <4> QED BY <4>1
    <3>2. CASE LoadExit(t) \/ \E s \in Shards : CasIncrement(t, s) \/ WeakClone(t, s)
      <4>1. op'[t] = IdleOp
        BY <1>0, <3>2 DEF LoadExit, CasIncrement, WeakClone
      <4> QED BY <4>1, IdleOpFacts
    <3>3. CASE Publish(t)
      BY <1>0, <2>1, <3>3 DEF Publish, Ops
    <3>4. CASE Reload(t)
      BY <1>0, <2>1, <3>4, IdleOpFacts DEF Reload, Ops
    <3>5. CASE Fallback(t)
      BY <1>0, <2>1, <3>5 DEF Fallback, Ops
    <3>6. ASSUME NEW s \in Shards, LoadIncrement(t, s)
          PROVE  op'[t].pc # "cas"
      BY <1>0, <2>1, <3>6 DEF LoadIncrement, Ops
    <3> QED BY <1>4, <3>1, <3>2, <3>3, <3>4, <3>5, <3>6 DEF ContinueStep
  <2>4. \A c \in Cells : holds'[c] = holds[c]
    <3>1. CASE \/ LoadPtr(t) \/ LoadExit(t) \/ Publish(t) \/ Reload(t) \/ Fallback(t)
      BY <3>1 DEF LoadPtr, LoadExit, Publish, Reload, Fallback, heapVars
    <3>2. CASE \E s \in Shards : CasIncrement(t, s) \/ LoadIncrement(t, s) \/ WeakClone(t, s)
      <4>1. op[t].dst \notin Cells
        BY <2>1, PlaceFacts DEF Ops
      <4> QED BY <1>0, <3>2, <4>1 DEF CasIncrement, LoadIncrement, WeakClone
    <3> QED BY <1>4, <3>1, <3>2 DEF ContinueStep
  <2> QED BY <2>2, <2>3, <2>4
<1>5. ASSUME NEW t \in Threads, DrainStep(t)
      PROVE  Keeps
  BY <1>5 DEF DrainStep, heapVars
<1>6. CASE CollectorStep /\ UNCHANGED op
  <2>1. holds' = holds \/ \E f \in Fields, s \in Shards : DropField(f, s)
    BY <1>6 DEF CollectorStep, BeginOuter, TakeNew, EndUpdate, EndPass, Barrier, ScanSlot, Poll,
       SkipUntracked, KeepHazardous, UpdateState, Precheck, ClearTags, Recheck,
       ClearWeakBackRef, BeginFree, EndFree, heapVars
  <2>2. \A c \in Cells : holds'[c] = holds[c]
    BY <1>0, <2>1 DEF DropField
  <2> QED BY <1>6, <2>2
<1> QED BY <1>1, <1>2, <1>3, <1>4, <1>5, <1>6 DEF Next

\* A program that does not call compare_and_set disturbs no call of it.
THEOREM WithoutCasUndisturbed ==
  ASSUME CasThreads = {}
  PROVE  Spec => []CasUndisturbed
<1> DEFINE Inv == TypeInv /\ \A t \in Threads : op[t].pc # "cas"
<1>1. Init => Inv
  BY InitTypeInv, IdleOpFacts DEF Init
<1>2. Inv /\ [Next]_vars => Inv'
  <2> SUFFICES ASSUME Inv, [Next]_vars PROVE Inv'
    OBVIOUS
  <2>1. TypeInv'
    BY NextTypeInv
  <2>2. \A t \in Threads : op'[t].pc = "cas" => op'[t] = op[t]
    BY OnlyCasInstalls DEF CompareAndSet, Installed
  <2> QED BY <2>1, <2>2
<1>3. Inv => CasUndisturbed
  BY DEF CasUndisturbed
<1> QED BY <1>1, <1>2, <1>3, PTL DEF Spec

\* Nor does a program that calls compare_and_set from one thread only and changes its
\* cells in no other way: between the compare_exchange and the increment nobody can
\* take what has been installed.
THEOREM OneWriterUndisturbed ==
  ASSUME NEW w, CasThreads \subseteq {w}, ~UsesSwap
  PROVE  Spec => []CasUndisturbed
<1> DEFINE Inv ==
      /\ TypeInv
      /\ \A t \in Threads : op[t].pc = "cas" =>
           t = w /\ op[t].loc \in Cells /\ holds[op[t].loc] = op[t].ptr
<1>1. Init => Inv
  BY InitTypeInv, IdleOpFacts DEF Init
<1>2. Inv /\ [Next]_vars => Inv'
  <2> SUFFICES ASSUME Inv, [Next]_vars PROVE Inv'
    OBVIOUS
  <2>1. TypeInv'
    BY NextTypeInv
  <2>2. CASE /\ \A t \in Threads : op'[t].pc = "cas" => op'[t] = op[t]
             /\ \A c \in Cells : holds'[c] = holds[c]
    BY <2>1, <2>2
  <2>3. ASSUME NEW t \in Threads, NEW c \in Cells, NEW m \in Handles, NEW n \in Handles,
               NEW dst \in Handles, CompareAndSet(t, c, m, n, dst)
        PROVE  Inv'
    <3>1. /\ t = w /\ op \in [Threads -> Ops] /\ holds \in [Places -> OptObject]
          /\ c \in Places /\ c # dst
      BY <2>3, Types, PlaceFacts DEF CompareAndSet, Installed
    <3>2. \A u \in Threads \ {t} : op'[u] = op[u] /\ op'[u].pc # "cas"
      BY <2>3, <3>1 DEF CompareAndSet, Installed
    <3>3. holds'[c] = holds[n]
      BY <2>3, <3>1 DEF CompareAndSet, Installed
    <3>4. op'[t] = IdleOp \/ op'[t] = Call("cas", c, holds[n], dst, {m, n})
      BY <2>3, <3>1 DEF CompareAndSet, Installed
    <3>5. op'[t].pc = "cas" => op'[t].loc = c /\ op'[t].ptr = holds[n]
      BY <3>4, IdleOpFacts DEF Call
    <3> QED BY <2>1, <3>1, <3>2, <3>3, <3>5
  <2> HIDE DEF Inv
  <2>4. TypeInv
    BY DEF Inv
  <2> QED BY <2>2, <2>3, <2>4, OnlyCasInstalls
<1>3. Inv => CasUndisturbed
  BY DEF CasUndisturbed
<1> QED BY <1>1, <1>2, <1>3, PTL DEF Spec

\* No use after free: in an execution that disturbs no call of compare_and_set, every
\* owner, every hazard pointer guard, every load_owned, upgrade or compare_and_set that
\* is about to increment and every weak back reference finds its object allocated.
THEOREM NothingDangles == Spec /\ []CasUndisturbed => []NoDangling
<1>1. SafeInv => NoDangling
  <2> SUFFICES ASSUME SafeInv PROVE NoDangling
    OBVIOUS
  <2>0. CallsAreConsistent /\ BackRefsMatch
    BY DEF SafeInv
  <2>1. OwnedIsLive
    BY LiveFacts DEF OwnedIsLive
  <2>2. GuardedIsLive
    BY LiveFacts DEF GuardedIsLive, Dead
  <2>3. LoadedIsLive
    <3> SUFFICES ASSUME NEW t \in Threads, op[t].pc \in {"increment", "cas"}
                 PROVE  Live(op[t].ptr)
      BY DEF LoadedIsLive
    <3>1. op[t].ptr \in Objects
      BY <2>0 DEF CallsAreConsistent, CallIsConsistent
    <3>2. ~Dead(op[t].ptr)
      <4>1. CASE op[t].pc = "increment"
        BY <4>1 DEF Dead, Loading
      <4>2. CASE op[t].pc = "cas"
        BY <3>1, <4>2, OwedBelow DEF OwedIncrements, Dead
      <4> QED BY <4>1, <4>2
    <3> QED BY <3>1, <3>2, LiveFacts
  <2>4. BackRefIsLive
    BY <2>0 DEF BackRefsMatch, BackRefIsLive
  <2> QED BY <2>1, <2>2, <2>3, <2>4 DEF NoDangling
<1> QED BY <1>1, AlwaysSafe, PTL

\* The sum of the sharded counters is the number of owners less the increments that
\* calls of compare_and_set under way still owe, in every state of an execution that
\* disturbs none of these calls.
THEOREM CountsAreExact == Spec /\ []CasUndisturbed => []RefCountExact
<1>1. SafeInv => RefCountExact
  BY DEF SafeInv
<1> QED BY <1>1, AlwaysSafe, PTL

\* The assert at collector.rs:211 never fails in an execution that disturbs no call of
\* compare_and_set: without a tag, the sum of a re-check is not negative, although the
\* shards are read one after the other while they change and increments are owed.
THEOREM RecheckAssertHolds == Spec /\ []CasUndisturbed => []RecheckSumNotNegative
<1>1. SafeInv => RecheckSumNotNegative
  <2> SUFFICES ASSUME SafeInv, cpc = "recheck", idx = LastShard, ~Tag(counters[obj][idx])
               PROVE  sum + RefCount(counters[obj][idx]) >= 0
    BY DEF RecheckSumNotNegative
  <2>1. RecheckIsRight
    BY RecheckVerdict DEF SafeInv
  <2>2. idx \in Shards /\ counters[obj] \in [Shards -> Int] /\ sum \in Int
    BY Types DEF SafeInv, TypeInv, TypeOK, CollectorTypeOK
  <2>3. \A s \in Shards : s >= idx => s = idx
    BY <2>2, ShardCountAssumption DEF Shards, LastShard
  <2>4. ~TagFrom(counters[obj], idx)
    BY <2>3 DEF TagFrom
  <2>5. SumFrom(counters[obj], idx) = RefCount(counters[obj][idx])
    BY <2>2, SumFacts
  <2>6. RefCount(counters[obj][idx]) \in Int
    BY <2>2, CounterTypes
  <2> QED BY <2>1, <2>2, <2>4, <2>5, <2>6 DEF RecheckIsRight
<1> QED BY <1>1, AlwaysSafe, PTL

\* The assert in the Drop of WeakSdarcInner never fails in an execution that disturbs no
\* call of compare_and_set, and no weak reference points at memory that is being freed.
THEOREM BackRefsAreCleared == Spec /\ []CasUndisturbed => []BackRefClearedAtDrop
<1>1. SafeInv => BackRefClearedAtDrop
  <2> SUFFICES ASSUME SafeInv, NEW o \in Objects, kind[o] = "freeing"
               PROVE  backRef[o] = NULL /\ \A w \in Objects : backRef[w] # o
    BY DEF BackRefClearedAtDrop
  <2>1. ~Live(o)
    BY DEF Live
  <2>2. Dead(o)
    BY <2>1 DEF SafeInv, VerdictsAreRight
  <2> QED BY <2>1, <2>2, LiveFacts DEF Dead, NoBackRef
<1> QED BY <1>1, AlwaysSafe, PTL

\* The verdicts of update_state are right in every execution that disturbs no call of
\* compare_and_set: an object that is freed, condemned, or found without weak
\* references after a sum of zero has no owner, reader or weak reference left, and a
\* re-check of any other object meets a tag or a sum that is not zero.
THEOREM VerdictsHold == Spec /\ []CasUndisturbed => []VerdictsAreRight
<1>1. SafeInv => VerdictsAreRight
  BY DEF SafeInv
<1> QED BY <1>1, AlwaysSafe, PTL

\* traverse_atomic_reader_signals misses no reader of an object that looks dead: its
\* flag or hazard slot is visible after the heavy barrier, and what is updated after
\* the scan is borrowed only by readers whose hazard pointer the scan has collected.
THEOREM NoReaderIsMissed == Spec /\ []CasUndisturbed => []ReadersAreSeen
<1>1. SafeInv => ReadersAreSeen
  BY DEF SafeInv
<1> QED BY <1>1, AlwaysSafe, PTL
=============================================================================
