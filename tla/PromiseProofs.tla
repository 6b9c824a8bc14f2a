--------------------------- MODULE PromiseProofs ---------------------------
(***************************************************************************)
(* What users of Sdarc are promised, proved for every execution in which   *)
(* no call of compare_and_set is disturbed: Sdarc implements Ownership,    *)
(* and a weak reference fails to upgrade only after its object has been    *)
(* without any owner.                                                      *)
(***************************************************************************)
EXTENDS MemorySafety, SdarcRefinement, ReclamationHistory

-----------------------------------------------------------------------------
\* Every guard borrows what it borrowed before, and there is no other one.
SameBorrows ==
  \A t \in Threads, i \in Slots :
    /\ guard'[t][i] = NULL <=> guard[t][i] = NULL
    /\ guard[t][i] # NULL => signals'[t].slots[i] = signals[t].slots[i]

\* Then no reader of Ownership changes.
LEMMA BorrowsStay ==
  ASSUME SameBorrows
  PROVE  [r \in Threads \X Slots |->
            IF guard[r[1]][r[2]] # NULL THEN signals[r[1]].slots[r[2]] ELSE NULL]' =
         [r \in Threads \X Slots |->
            IF guard[r[1]][r[2]] # NULL THEN signals[r[1]].slots[r[2]] ELSE NULL]
<1>1. \A r \in Threads \X Slots : r[1] \in Threads /\ r[2] \in Slots
  OBVIOUS
<1> QED BY <1>1 DEF SameBorrows

\* The objects Ownership sees as alive.
LEMMA AliveStay ==
  ASSUME \A o \in Objects : Live(o)' = Live(o)
  PROVE  {o \in Objects : Live(o)}' = {o \in Objects : Live(o)}
OBVIOUS

\* A step that Ownership does not see.
LEMMA Unseen ==
  ASSUME \A o \in Objects : Live(o)' = Live(o), UNCHANGED holds, SameBorrows
  PROVE  UNCHANGED Promise!vars
BY BorrowsStay, AliveStay DEF Promise!vars

\* The place p comes to own the live object o.
LEMMA Shares ==
  ASSUME NEW o \in Objects, NEW p \in Places, Live(o), holds[p] = NULL,
         holds' = [holds EXCEPT ![p] = o], UNCHANGED kind, SameBorrows
  PROVE  Promise!Next
<1>1. \A x \in Objects : Live(x)' = Live(x)
  BY DEF Live
<1>2. Promise!Share(o, p)
  BY <1>1, BorrowsStay, AliveStay DEF Promise!Share
<1> QED BY <1>2 DEF Promise!Next

\* The place p gives up what it owns.
LEMMA Releases ==
  ASSUME NEW p \in Places, holds[p] # NULL,
         holds' = [holds EXCEPT ![p] = NULL], UNCHANGED kind, SameBorrows
  PROVE  Promise!Next
<1>1. \A x \in Objects : Live(x)' = Live(x)
  BY DEF Live
<1>2. Promise!Release(p)
  BY <1>1, BorrowsStay, AliveStay DEF Promise!Release
<1> QED BY <1>2 DEF Promise!Next

\* The calls of user code without progress of their own are steps of Ownership.
LEMMA HandlePromise ==
  ASSUME SafeInv, HandleStep
  PROVE  Promise!Next
<1>0. TypeInv /\ BackRefsMatch
  BY DEF SafeInv
<1>t. /\ holds \in [Places -> OptObject] /\ kind \in [Objects -> Kinds]
      /\ Handles \subseteq Places /\ Cells \subseteq Places
  BY <1>0, Types, PlaceFacts
<1>s. UNCHANGED signalVars => SameBorrows
  BY DEF signalVars, SameBorrows
<1>1. ASSUME NEW h \in Handles, NEW o \in DataObjects, NEW s \in Shards, NEW p \in Shards,
             NEW hc \in Handles \cup {NULL}, New(h, o, s, p, hc)
      PROVE  Promise!Next
  <2>1. /\ holds[h] = NULL /\ kind[o] = "unallocated" /\ o \in Objects
        /\ hc # NULL => holds[hc] # NULL
        /\ kind' = [kind EXCEPT ![o] = "data"] /\ UNCHANGED signalVars
        /\ holds' = [x \in Places |->
                       CASE x = h -> o
                         [] x = hc -> NULL
                         [] x = DataField(o) /\ hc # NULL -> holds[hc]
                         [] OTHER -> holds[x]]
    BY <1>1 DEF New, Vacant, Movable, Readable, Objects
  <2>2. /\ ~Live(o) /\ Live(o)' /\ \A x \in Objects : x # o => Live(x)' = Live(x)
    BY <1>t, <2>1 DEF Live
  <2>3. {x \in Objects : Live(x)}' = {x \in Objects : Live(x)} \cup {o}
    BY <2>1, <2>2
  <2>4. DataField(o) \in Places /\ holds[DataField(o)] = NULL
    BY <1>0, <2>1, PlaceFacts DEF BackRefsMatch
  <2>5. \/ holds' = [holds EXCEPT ![h] = o]
        \/ /\ hc # h /\ hc \in Places /\ DataField(o) \notin {h, hc}
           /\ holds' = [holds EXCEPT ![h] = o, ![DataField(o)] = holds[hc], ![hc] = NULL]
    <3>1. CASE hc = NULL
      <4>1. \A x \in Places : x # NULL
        BY PlaceFacts
      <4> QED BY <1>t, <2>1, <3>1, <4>1
    <3>2. CASE hc # NULL
      <4>1. hc \in Handles /\ hc # h
        BY <2>1, <3>2
      <4>2. DataField(o) # h /\ DataField(o) # hc
        BY <2>1, <4>1, PlaceFacts
      <4> HIDE DEF DataField
      <4> QED BY <1>t, <2>1, <2>4, <3>2, <4>1, <4>2
    <3> QED BY <3>1, <3>2
  <2>6. Promise!Create(o, h)
    <3>1. CASE holds' = [holds EXCEPT ![h] = o]
      BY <1>s, <2>1, <2>2, <2>3, <3>1, BorrowsStay DEF Promise!Create
    <3>2. CASE /\ hc # h /\ hc \in Places /\ DataField(o) \notin {h, hc}
               /\ holds' = [holds EXCEPT ![h] = o, ![DataField(o)] = holds[hc], ![hc] = NULL]
      BY <1>s, <2>1, <2>2, <2>3, <2>4, <3>2, BorrowsStay DEF Promise!Create
    <3> QED BY <2>5, <3>1, <3>2
  <2> QED BY <1>t, <2>1, <2>6 DEF Promise!Next
<1>2. ASSUME NEW src \in Places, NEW h \in Handles, NEW s \in Shards, Clone(src, h, s)
      PROVE  Promise!Next
  <2>1. PICK o \in Objects : o = holds[src] /\ Live(o)
    BY <1>2, LiveFacts DEF Clone
  <2> QED BY <1>2, <1>t, <1>s, <2>1, Shares DEF Clone, Vacant
<1>3. ASSUME NEW h \in Handles, NEW s \in Shards, Drop(h, s)
      PROVE  Promise!Next
  BY <1>3, <1>t, <1>s, Releases DEF Drop, Movable, Readable
<1>4. ASSUME NEW c \in Cells, NEW h \in Handles, Swap(c, h)
      PROVE  Promise!Next
  <2>1. /\ holds' = [holds EXCEPT ![c] = holds[h], ![h] = holds[c]]
        /\ UNCHANGED <<kind, signalVars>>
    BY <1>4 DEF Swap
  <2>2. \A x \in Objects : Live(x)' = Live(x)
    BY <2>1 DEF Live
  <2>3. Promise!Exchange(c, h)
    BY <1>s, <2>1, <2>2, BorrowsStay, AliveStay DEF Promise!Exchange
  <2> QED BY <1>t, <2>3 DEF Promise!Next
<1> QED BY <1>1, <1>2, <1>3, <1>4 DEF HandleStep

\* A step of t that leaves the heap and the guards alone, and writes no slot that has
\* a guard, is one Ownership does not see.
LEMMA QuietCall ==
  ASSUME NEW t \in Threads, UNCHANGED <<heapVars, guard>>,
         \A u \in Threads \ {t} : signals'[u] = signals[u],
         \A i \in Slots : guard[t][i] # NULL => signals'[t].slots[i] = signals[t].slots[i]
  PROVE  UNCHANGED Promise!vars
<1>1. UNCHANGED holds /\ \A o \in Objects : Live(o)' = Live(o)
  BY DEF heapVars, Live
<1>2. SameBorrows
  BY DEF SameBorrows
<1> QED BY <1>1, <1>2, Unseen

\* The beginnings of calls.
LEMMA CallPromise ==
  ASSUME SafeInv, NEW t \in Threads, CallStep(t)
  PROVE  Promise!Next \/ UNCHANGED Promise!vars
<1>0. TypeInv /\ CallsAreConsistent
  BY DEF SafeInv
<1>t. /\ holds \in [Places -> OptObject] /\ kind \in [Objects -> Kinds]
      /\ guard \in [Threads -> [Slots -> Locations \cup {NULL}]]
      /\ Handles \subseteq Places /\ Cells \subseteq Places
  BY <1>0, Types, PlaceFacts
<1>1. ASSUME NEW l \in Locations, NEW dst \in Handles, LoadOwned(t, l, dst)
      PROVE  UNCHANGED Promise!vars
  BY <1>1, StoreFacts, QuietCall DEF LoadOwned
<1>2. ASSUME NEW l \in Locations, NEW dst \in Handles, Borrow(t, l, dst)
      PROVE  UNCHANGED Promise!vars
  BY <1>2, QuietCall DEF Borrow, signalVars
<1>3. ASSUME NEW i \in Slots, DropGuard(t, i)
      PROVE  Promise!Next
  <2>1. /\ guard[t][i] # NULL /\ UNCHANGED heapVars /\ guard' = [guard EXCEPT ![t][i] = NULL]
        /\ \A j \in Slots \ {i} : signals'[t].slots[j] = signals[t].slots[j]
        /\ \A u \in Threads \ {t} : signals'[u] = signals[u]
    BY <1>3, StoreFacts DEF DropGuard
  <2>2. signals[t].slots[i] # NULL
    BY <1>0, <2>1 DEF CallsAreConsistent, CallIsConsistent
  <2>3. /\ guard'[t][i] = NULL /\ \A j \in Slots \ {i} : guard'[t][j] = guard[t][j]
        /\ \A u \in Threads \ {t} : guard'[u] = guard[u]
    BY <1>t, <2>1
  <2> DEFINE r == <<t, i>>
             lent == [x \in Threads \X Slots |->
                        IF guard[x[1]][x[2]] # NULL THEN signals[x[1]].slots[x[2]] ELSE NULL]
  <2>4. r \in Threads \X Slots /\ lent[r] # NULL
    BY <2>1, <2>2
  <2>5. lent' = [lent EXCEPT ![r] = NULL]
    <3>1. \A x \in Threads \X Slots :
            /\ x[1] \in Threads /\ x[2] \in Slots /\ (x = r <=> x[1] = t /\ x[2] = i)
      OBVIOUS
    <3>2. \A x \in Threads \X Slots : lent'[x] = IF x = r THEN NULL ELSE lent[x]
      <4> SUFFICES ASSUME NEW x \in Threads \X Slots
                   PROVE  lent'[x] = IF x = r THEN NULL ELSE lent[x]
        OBVIOUS
      <4>1. CASE x[1] = t /\ x[2] = i
        BY <2>3, <3>1, <4>1
      <4>2. CASE x[1] = t /\ x[2] # i
        BY <2>1, <2>3, <3>1, <4>2
      <4>3. CASE x[1] # t
        BY <2>1, <2>3, <3>1, <4>3
      <4> QED BY <4>1, <4>2, <4>3
    <3> QED BY <3>2
  <2>6. UNCHANGED holds /\ \A o \in Objects : Live(o)' = Live(o)
    BY <2>1 DEF heapVars, Live
  <2>7. Promise!EndBorrow(r)
    BY <2>4, <2>5, <2>6, AliveStay DEF Promise!EndBorrow
  <2> QED BY <2>4, <2>7 DEF Promise!Next
<1>4. ASSUME NEW src \in Handles, NEW dst \in Handles, NEW w \in WeakObjects,
             NEW s \in Shards, NEW p \in Shards, Downgrade(t, src, dst, w, s, p)
      PROVE  Promise!Next
  <2>1. PICK x \in Objects : x = holds[src]
    BY <1>4, <1>t, LiveFacts DEF Downgrade, Readable
  <2>2. PICK f \in Places : f = WeakField(x)
    BY PlaceFacts
  <2>3. /\ w \in Objects /\ kind[w] = "unallocated" /\ kind' = [kind EXCEPT ![w] = "weak"]
        /\ holds[f] = NULL /\ holds' = [holds EXCEPT ![f] = w] /\ UNCHANGED signalVars
    BY <1>4, <2>1, <2>2 DEF Downgrade, Objects
  <2>4. ~Live(w) /\ Live(w)' /\ \A o \in Objects : o # w => Live(o)' = Live(o)
    BY <1>t, <2>3 DEF Live
  <2>5. {o \in Objects : Live(o)}' = {o \in Objects : Live(o)} \cup {w}
    BY <2>3, <2>4
  <2>6. SameBorrows
    BY <2>3 DEF SameBorrows, signalVars
  <2>7. Promise!Create(w, f)
    BY <2>3, <2>4, <2>5, <2>6, BorrowsStay DEF Promise!Create
  <2> QED BY <2>3, <2>7 DEF Promise!Next
<1>5. ASSUME NEW src \in Handles, NEW dst \in Handles, DowngradeAgain(t, src, dst)
      PROVE  UNCHANGED Promise!vars
  BY <1>5, QuietCall DEF DowngradeAgain, signalVars
<1>6. ASSUME NEW c \in Cells, NEW m \in Handles, NEW n \in Handles, NEW dst \in Handles,
             CompareAndSet(t, c, m, n, dst)
      PROVE  Promise!Next
  <2>1. /\ holds' = [holds EXCEPT ![c] = holds[n], ![dst] = holds[c]]
        /\ holds[dst] = NULL /\ dst # n /\ UNCHANGED <<kind, signalVars>>
        /\ c \in Places /\ n \in Places /\ dst \in Places /\ dst # c
    BY <1>6, <1>t, PlaceFacts DEF CompareAndSet, Installed, Vacant
  <2>2. \A x \in Objects : Live(x)' = Live(x)
    BY <2>1 DEF Live
  <2>3. SameBorrows
    BY <2>1 DEF SameBorrows, signalVars
  <2>4. CASE holds[n] = NULL
    <3>1. Promise!Exchange(c, dst)
      BY <2>1, <2>2, <2>3, <2>4, BorrowsStay, AliveStay DEF Promise!Exchange
    <3> QED BY <2>1, <3>1 DEF Promise!Next
  <2>5. CASE holds[n] # NULL
    <3>1. PICK o \in Objects : o = holds[n] /\ Live(o)
      BY <2>1, <2>5, LiveFacts
    <3>2. Promise!Replace(c, n)
      BY <2>1, <2>2, <2>3, <3>1, BorrowsStay, AliveStay DEF Promise!Replace
    <3> QED BY <2>1, <3>2 DEF Promise!Next
  <2> QED BY <2>4, <2>5
<1> QED BY <1>1, <1>2, <1>3, <1>4, <1>5, <1>6 DEF CallStep

\* What a call loads is not dead.
LEMMA LoadedIsAllocated ==
  ASSUME SafeInv, NEW t \in Threads, op[t].pc \in {"load", "reload"},
         NEW o \in Objects, PtrAt(op[t].loc) = o
  PROVE  Live(o)
<1>1. TypeInv /\ op \in [Threads -> Ops] /\ holds \in [Places -> OptObject]
  BY Types DEF SafeInv
<1>2. \/ op[t].loc \in Cells
      \/ op[t].loc \in Handles /\ holds[op[t].loc] # NULL
  BY <1>1 DEF TypeInv, CallsKeepBorrows, LocationSteps, Ops
<1>3. CASE op[t].loc \in Cells
  BY <1>3, LiveFacts, PlaceFacts DEF PtrAt
<1>4. CASE op[t].loc \in Handles /\ holds[op[t].loc] # NULL
  <2>1. holds[op[t].loc] \in Objects /\ op[t].loc \notin Cells
    BY <1>1, <1>4, PlaceFacts DEF OptObject
  <2>2. ~Dead(o)
    BY <2>1 DEF PtrAt, Dead, NoBackRef
  <2> QED BY <2>2, LiveFacts
<1> QED BY <1>2, <1>3, <1>4

\* The steps of a call under way.
LEMMA ContinuePromise ==
  ASSUME SafeInv, NEW t \in Threads, ContinueStep(t)
  PROVE  Promise!Next \/ UNCHANGED Promise!vars
<1>0. TypeInv /\ CallsAreConsistent
  BY DEF SafeInv
<1>t. /\ holds \in [Places -> OptObject] /\ op \in [Threads -> Ops]
      /\ guard \in [Threads -> [Slots -> Locations \cup {NULL}]]
      /\ Handles \subseteq Places
  BY <1>0, Types, PlaceFacts
<1>c. CallIsConsistent(t) /\ op[t] \in Ops
  BY <1>0, <1>t DEF CallsAreConsistent
<1>g. \A i \in Slots : guard[t][i] # NULL => signals[t].slots[i] # NULL
  BY <1>c DEF CallIsConsistent
<1>s. UNCHANGED signalVars => SameBorrows
  BY DEF signalVars, SameBorrows
<1>1. CASE LoadPtr(t)
  BY <1>1, QuietCall DEF LoadPtr, signalVars
<1>2. ASSUME NEW s \in Shards, LoadIncrement(t, s)
      PROVE  Promise!Next
  <2>1. /\ op[t].pc = "increment" /\ op[t].ptr \in Objects
        /\ op[t].dst \in Handles /\ holds[op[t].dst] = NULL
        /\ holds' = [holds EXCEPT ![op[t].dst] = op[t].ptr] /\ UNCHANGED <<kind, signalVars>>
    BY <1>2, <1>c DEF LoadIncrement, CallIsConsistent, ResultSteps
  <2>2. ~Dead(op[t].ptr)
    BY <2>1 DEF Dead, Loading
  <2>3. Live(op[t].ptr)
    BY <2>1, <2>2, LiveFacts
  <2> QED BY <1>t, <1>s, <2>1, <2>3, Shares
<1>3. CASE LoadExit(t)
  BY <1>3, StoreFacts, QuietCall DEF LoadExit
<1>4. CASE Publish(t)
  <2>1. UNCHANGED <<heapVars, guard>>
    BY <1>4 DEF Publish
  <2>2. CASE UNCHANGED signals
    BY <2>1, <2>2, QuietCall
  <2>3. ASSUME NEW i \in FreeSlots(t), StoreSlot(t, i, op[t].ptr)
        PROVE  UNCHANGED Promise!vars
    <3>1. i \in Slots /\ guard[t][i] = NULL
      BY <1>g DEF FreeSlots
    <3>2. /\ \A j \in Slots \ {i} : signals'[t].slots[j] = signals[t].slots[j]
          /\ \A u \in Threads \ {t} : signals'[u] = signals[u]
      BY <2>3, <3>1, StoreFacts
    <3> QED BY <2>1, <3>1, <3>2, QuietCall
  <2> QED BY <1>4, <2>2, <2>3 DEF Publish
<1>5. CASE Reload(t)
  <2>r. op[t].pc = "reload" /\ op[t].slot \in Slots /\ op[t].ptr \in Objects
    BY <1>5, <1>c DEF Reload, CallIsConsistent, Ops
  <2>i. PICK i \in Slots : i = op[t].slot
    BY <2>r
  <2>o. PICK o \in Objects : o = op[t].ptr
    BY <2>r
  <2>1. /\ op[t].pc = "reload" /\ UNCHANGED heapVars
        /\ guard[t][i] = NULL /\ signals[t].slots[i] = o
    BY <1>5, <1>c, <2>i, <2>o DEF Reload, CallIsConsistent
  <2>2. CASE PtrAt(op[t].loc) # o
    <3>1. guard' = guard /\ StoreSlot(t, i, NULL)
      BY <1>5, <2>i, <2>o, <2>2 DEF Reload
    <3>2. /\ \A j \in Slots \ {i} : signals'[t].slots[j] = signals[t].slots[j]
          /\ \A u \in Threads \ {t} : signals'[u] = signals[u]
      BY <2>1, <3>1, StoreFacts
    <3> QED BY <2>1, <3>1, <3>2, QuietCall
  <2>3. CASE PtrAt(op[t].loc) = o
    <3>1. guard' = [guard EXCEPT ![t][i] = op[t].loc] /\ UNCHANGED signals
      BY <1>5, <2>i, <2>o, <2>3 DEF Reload
    <3>2. op[t].loc # NULL
      <4>1. op[t].loc \in Cells \/ op[t].loc \in Handles
        BY <1>0, <1>c, <2>1 DEF TypeInv, CallsKeepBorrows, LocationSteps, Ops
      <4> QED BY <4>1, PlaceFacts
    <3>3. Live(o)
      BY <2>1, <2>3, LoadedIsAllocated
    <3>4. /\ guard'[t][i] # NULL /\ \A j \in Slots : j # i => guard'[t][j] = guard[t][j]
          /\ \A u \in Threads \ {t} : guard'[u] = guard[u]
      BY <1>t, <2>1, <3>1, <3>2
    <3> DEFINE r == <<t, i>>
               lent == [x \in Threads \X Slots |->
                          IF guard[x[1]][x[2]] # NULL THEN signals[x[1]].slots[x[2]] ELSE NULL]
    <3>5. r \in Threads \X Slots /\ lent[r] = NULL
      BY <2>1
    <3>6. lent' = [lent EXCEPT ![r] = o]
      <4>1. \A x \in Threads \X Slots :
              /\ x[1] \in Threads /\ x[2] \in Slots /\ (x = r <=> x[1] = t /\ x[2] = i)
        OBVIOUS
      <4>2. \A x \in Threads \X Slots : lent'[x] = IF x = r THEN o ELSE lent[x]
        <5> SUFFICES ASSUME NEW x \in Threads \X Slots
                     PROVE  lent'[x] = IF x = r THEN o ELSE lent[x]
          OBVIOUS
        <5>1. CASE x[1] = t /\ x[2] = i
          BY <2>1, <3>1, <3>4, <4>1, <5>1
        <5>2. CASE x[1] = t /\ x[2] # i
          BY <3>1, <3>4, <4>1, <5>2
        <5>3. CASE x[1] # t
          BY <3>1, <3>4, <4>1, <5>3
        <5> QED BY <5>1, <5>2, <5>3
      <4> QED BY <4>2
    <3>7. UNCHANGED holds /\ \A x \in Objects : Live(x)' = Live(x)
      BY <2>1 DEF heapVars, Live
    <3>8. Promise!StartBorrow(o, r)
      BY <2>1, <3>3, <3>5, <3>6, <3>7, AliveStay DEF Promise!StartBorrow
    <3> QED BY <3>5, <3>8 DEF Promise!Next
  <2> QED BY <2>2, <2>3
<1>6. CASE Fallback(t)
  BY <1>6, StoreFacts, QuietCall DEF Fallback
<1>7. ASSUME NEW s \in Shards, WeakClone(t, s)
      PROVE  Promise!Next
  <2>1. /\ op[t].pc = "weakclone" /\ op[t].dst \in Handles /\ holds[op[t].dst] = NULL
        /\ holds[WeakField(holds[op[t].loc])] # NULL
    BY <1>7, <1>c DEF WeakClone, CallIsConsistent, ResultSteps
  <2>2. op[t].loc \in Handles /\ holds[op[t].loc] # NULL
    BY <1>0, <1>c, <2>1 DEF TypeInv, CallsKeepBorrows, LocationSteps, Ops
  <2>3. PICK y \in Objects : y = holds[op[t].loc]
    BY <1>t, <2>2, LiveFacts
  <2>4. PICK x \in Objects : x = holds[WeakField(y)] /\ Live(x)
    BY <2>1, <2>3, LiveFacts, PlaceFacts
  <2> QED BY <1>7, <1>t, <1>s, <2>1, <2>3, <2>4, Shares DEF WeakClone
<1>8. ASSUME NEW s \in Shards, CasIncrement(t, s)
      PROVE  UNCHANGED Promise!vars
  BY <1>8, <1>s, Unseen DEF CasIncrement, Live
<1> QED BY <1>1, <1>2, <1>3, <1>4, <1>5, <1>6, <1>7, <1>8 DEF ContinueStep

\* The collector reclaims what nobody owns or borrows, and drops what a reclaimed
\* object owns; nothing else it does is seen.
LEMMA CollectorPromise ==
  ASSUME SafeInv, CollectorStep
  PROVE  Promise!Next \/ UNCHANGED Promise!vars
<1>0. /\ TypeInv /\ TrackedExactlyOnce /\ WorkIsTracked /\ VerdictsAreRight
  BY DEF SafeInv
<1>t. kind \in [Objects -> Kinds] /\ (cpc = "drop" => obj \in Objects)
  BY <1>0, Types DEF TypeInv, TypeOK, CollectorTypeOK
<1>1. ASSUME NEW o \in Objects, BeginFree(o)
      PROVE  Promise!Next
  <2>1. /\ o \in toFree /\ kind' = [kind EXCEPT ![o] = "freeing"]
        /\ UNCHANGED <<holds, signalVars>>
    BY <1>1 DEF BeginFree
  <2>2. Live(o) /\ Dead(o)
    BY <1>0, <2>1 DEF WorkIsTracked, TrackedExactlyOnce, VerdictsAreRight
  <2>3. ~Live(o)' /\ \A x \in Objects : x # o => Live(x)' = Live(x)
    BY <1>t, <2>1 DEF Live
  <2>4. {x \in Objects : Live(x)}' = {x \in Objects : Live(x)} \ {o}
    BY <2>3
  <2>5. SameBorrows
    BY <2>1 DEF SameBorrows, signalVars
  <2>6. ~Promise!Owned(o)
    BY <2>2 DEF Promise!Owned, Dead, Holders
  <2>7. ~Promise!Borrowed(o)
    <3>1. \A r \in Threads \X Slots : r[1] \in Threads /\ r[2] \in Slots
      OBVIOUS
    <3>2. o # NULL
      BY PlaceFacts
    <3> QED BY <2>2, <3>1, <3>2 DEF Promise!Borrowed, Dead, Guarded, GuardedBy
  <2>8. Promise!Reclaim(o)
    BY <2>1, <2>2, <2>4, <2>5, <2>6, <2>7, BorrowsStay DEF Promise!Reclaim
  <2> QED BY <2>8 DEF Promise!Next
<1>2. ASSUME NEW f \in Fields, NEW s \in Shards, DropField(f, s)
      PROVE  Promise!Next
  <2>1. SameBorrows /\ f \in Places
    BY <1>2, PlaceFacts DEF DropField, SameBorrows, signalVars
  <2> QED BY <1>2, <2>1, Releases DEF DropField
<1>3. CASE EndFree
  <2>1. kind' = [kind EXCEPT ![obj] = "unallocated"] /\ UNCHANGED <<holds, signalVars>>
        /\ obj \in Objects /\ kind[obj] = "freeing"
    BY <1>0, <1>3, <1>t DEF EndFree, WorkIsTracked
  <2>2. \A o \in Objects : Live(o)' = Live(o)
    BY <1>t, <2>1 DEF Live
  <2>3. SameBorrows
    BY <2>1 DEF SameBorrows, signalVars
  <2> QED BY <2>1, <2>2, <2>3, Unseen
<1>4. ASSUME UNCHANGED <<kind, holds, signals, guard>>
      PROVE  UNCHANGED Promise!vars
  BY <1>4, Unseen DEF Live, SameBorrows
<1>5. CASE BeginOuter \/ TakeNew \/ EndUpdate \/ EndPass \/ Precheck \/ ClearTags \/ Recheck
  BY <1>4, <1>5 DEF BeginOuter, TakeNew, EndUpdate, EndPass, Precheck, ClearTags, Recheck,
                    heapVars, signalVars
<1>6. CASE ClearWeakBackRef \/ \E t \in Threads : Barrier(t) \/ ScanSlot(t) \/ Poll(t)
  BY <1>4, <1>6 DEF ClearWeakBackRef, Barrier, ScanSlot, Poll, heapVars, signalVars
<1>7. CASE \E o \in Objects : SkipUntracked(o) \/ KeepHazardous(o) \/ UpdateState(o)
  BY <1>4, <1>7 DEF SkipUntracked, KeepHazardous, UpdateState, heapVars, signalVars
<1> QED BY <1>1, <1>2, <1>3, <1>5, <1>6, <1>7 DEF CollectorStep

\* Every step is a step of Ownership or invisible to it.
LEMMA NextPromise ==
  ASSUME SafeInv, [Next]_vars
  PROVE  [Promise!Next]_(Promise!vars)
<1>1. CASE UNCHANGED vars
  BY <1>1, Unseen DEF vars, heapVars, signalVars, Live, SameBorrows
<1>2. ASSUME NEW t \in Threads, DrainStep(t)
      PROVE  UNCHANGED Promise!vars
  BY <1>2, Unseen DEF DrainStep, DrainFlag, DrainSlot, heapVars, Live, SameBorrows
<1> QED BY <1>1, <1>2, HandlePromise, CallPromise, ContinuePromise, CollectorPromise DEF Next

\* The initial state is one of Ownership: nothing is alive, owned or borrowed.
LEMMA InitPromise == Init => Promise!Init
<1> SUFFICES ASSUME Init PROVE Promise!Init
  OBVIOUS
<1>1. {o \in Objects : Live(o)} = {}
  BY DEF Init, HeapInit, Live
<1>2. holds = [p \in Places |-> NULL]
  BY DEF Init, HeapInit
<1>3. \A r \in Threads \X Slots : guard[r[1]][r[2]] = NULL
  BY DEF Init, SignalInit
<1> QED BY <1>1, <1>2, <1>3 DEF Promise!Init

\* Sdarc implements Ownership in every execution that disturbs no call of
\* compare_and_set: with sharded counters, tags, barriers, hazard pointers and a
\* collector that runs beside the program, objects are shared only while they are alive
\* and reclaimed only when nobody owns or borrows them.
THEOREM OwnershipIsImplemented ==
  Spec /\ []CasUndisturbed => ImplementsOwnership
<1>1. SafeInv /\ [Next]_vars => [Promise!Next]_(Promise!vars)
  BY NextPromise
<1> QED BY <1>1, InitPromise, AlwaysSafe, PTL DEF Spec, ImplementsOwnership, Promise!Spec

\* So a program is safe whatever its threads do and however they are scheduled if it
\* does not call compare_and_set, or calls it from one thread only and changes its cells in
\* no other way: its memory, the counts and the promise need no further assumption.
THEOREM DisciplinedProgramsAreSafe ==
  ASSUME NEW w, CasThreads = {} \/ (CasThreads \subseteq {w} /\ ~UsesSwap)
  PROVE  Spec => [](NoDangling /\ RefCountExact) /\ ImplementsOwnership
<1>1. Spec => []CasUndisturbed
  BY WithoutCasUndisturbed, OneWriterUndisturbed
<1> QED BY <1>1, NothingDangles, CountsAreExact, OwnershipIsImplemented, PTL

-----------------------------------------------------------------------------
\* The back_ref of o has been cleared: upgrade fails.
Severed(o) ==
  kind[o] = "data" /\ holds[WeakField(o)] # NULL /\ backRef[holds[WeakField(o)]] = NULL

\* What the re-check of obj will find: a tag, a sum that is not zero, or the zero of
\* an object that has really been without an owner.
RecheckFindsZeroed ==
  \/ TagFrom(counters[obj], idx)
  \/ sum + SumFrom(counters[obj], idx) > 0
  \/ sum + SumFrom(counters[obj], idx) = 0 /\ obj \in zeroed

\* What makes UpgradeFailsOnlyAfterZero inductive: the history is complete, a re-check
\* adds up to zero only what has been without an owner, so it clears only the back_ref
\* of such an object, and a new object starts without a weak reference.
ZeroInv ==
  /\ \A o \in Objects : Live(o) /\ Holders(o) = {} => o \in zeroed
  /\ cpc = "recheck" => RecheckFindsZeroed
  /\ cpc = "weakref" => obj \in zeroed
  /\ \A o \in Objects : kind[o] = "unallocated" => holds[WeakField(o)] = NULL
  /\ \A o \in Objects : Severed(o) => o \in zeroed

\* A step that clears no back_ref but that of an object in the history.
SeversOnlyZeroed ==
  /\ \A o \in Objects : kind'[o] = "unallocated" => holds'[WeakField(o)] = NULL
  /\ \A o \in Objects : Severed(o)' => Severed(o) \/ o \in zeroed

\* What is left to show of such a step is what becomes of the re-check.
LEMMA ZeroStep ==
  ASSUME ZeroInv, Record, SeversOnlyZeroed,
         cpc' = "recheck" => RecheckFindsZeroed',
         cpc' = "weakref" => obj' \in zeroed'
  PROVE  ZeroInv'
<1>1. \A o \in Objects : o \in zeroed' <=> Live(o)' /\ (o \in zeroed \/ Holders(o)' = {})
  BY DEF Record
<1>2. \A o \in Objects : (Live(o) /\ Holders(o) = {} => o \in zeroed)'
  BY <1>1
<1>3. ASSUME NEW o \in Objects, Severed(o)'
      PROVE  o \in zeroed'
  <2>1. o \in zeroed /\ Live(o)'
    BY <1>3 DEF SeversOnlyZeroed, ZeroInv, Severed, Live
  <2> QED BY <1>1, <2>1
<1> QED BY <1>2, <1>3 DEF ZeroInv, SeversOnlyZeroed

\* The weak references are as they were.
LEMMA LinksStay ==
  ASSUME ZeroInv, UNCHANGED <<kind, backRef>>,
         \A o \in Objects : holds'[WeakField(o)] = holds[WeakField(o)]
  PROVE  SeversOnlyZeroed
BY DEF SeversOnlyZeroed, ZeroInv, Severed

\* Handles and cells are no fields of an object.
LEMMA LinksAreFields ==
  ASSUME NEW o \in Objects, NEW p \in Handles \cup Cells
  PROVE  WeakField(o) # p /\ WeakField(o) \in Places
BY PlaceFacts

\* User code severs nothing: a downgrade installs a back_ref that points back.
LEMMA UserLinks ==
  ASSUME SafeInv, ZeroInv,
         HandleStep \/ \E t \in Threads : CallStep(t) \/ ContinueStep(t)
  PROVE  SeversOnlyZeroed
<1>0. TypeInv /\ CallsAreConsistent
  BY DEF SafeInv
<1>t. /\ kind \in [Objects -> Kinds] /\ holds \in [Places -> OptObject]
      /\ backRef \in [Objects -> OptObject]
  BY <1>0, Types
<1>k. ASSUME UNCHANGED heapVars
      PROVE  SeversOnlyZeroed
  BY <1>k, LinksStay DEF heapVars
<1>1. CASE HandleStep
  <2>1. ASSUME NEW h \in Handles, NEW o \in DataObjects, NEW s \in Shards, NEW p \in Shards,
               NEW hc \in Handles \cup {NULL}, New(h, o, s, p, hc)
        PROVE  SeversOnlyZeroed
    <3>1. \A x \in Objects : /\ WeakField(x) \in Places /\ WeakField(x) # h /\ WeakField(x) # hc
                             /\ WeakField(x) # DataField(o)
      BY PlaceFacts, FieldFacts
    <3>2. \A x \in Objects : holds'[WeakField(x)] = holds[WeakField(x)]
      BY <2>1, <3>1 DEF New
    <3>3. /\ o \in Objects /\ kind[o] = "unallocated" /\ kind' = [kind EXCEPT ![o] = "data"]
          /\ UNCHANGED backRef
      BY <2>1 DEF New, Objects
    <3>4. holds[WeakField(o)] = NULL
      BY <3>3 DEF ZeroInv
    <3>5. \A x \in Objects : Severed(x)' => Severed(x)
      BY <1>t, <3>2, <3>3, <3>4 DEF Severed
    <3>6. \A x \in Objects : kind'[x] = "unallocated" => kind[x] = "unallocated"
      BY <1>t, <3>3
    <3> QED BY <3>2, <3>5, <3>6 DEF SeversOnlyZeroed, ZeroInv
  <2>2. ASSUME NEW src \in Places, NEW h \in Handles, NEW s \in Shards, Clone(src, h, s)
        PROVE  SeversOnlyZeroed
    BY <1>t, <2>2, LinksAreFields, LinksStay DEF Clone
  <2>3. ASSUME NEW h \in Handles, NEW s \in Shards, Drop(h, s)
        PROVE  SeversOnlyZeroed
    BY <1>t, <2>3, LinksAreFields, LinksStay DEF Drop
  <2>4. ASSUME NEW c \in Cells, NEW h \in Handles, Swap(c, h)
        PROVE  SeversOnlyZeroed
    BY <1>t, <2>4, LinksAreFields, LinksStay DEF Swap
  <2> QED BY <1>1, <2>1, <2>2, <2>3, <2>4 DEF HandleStep
<1>2. ASSUME NEW t \in Threads, CallStep(t)
      PROVE  SeversOnlyZeroed
  <2>1. ASSUME NEW src \in Handles, NEW dst \in Handles, NEW w \in WeakObjects,
               NEW s \in Shards, NEW p \in Shards, Downgrade(t, src, dst, w, s, p)
        PROVE  SeversOnlyZeroed
    <3>1. src \in Places /\ holds[src] # NULL
      BY <2>1, PlaceFacts DEF Downgrade, Readable
    <3>2. PICK x \in Objects : x = holds[src]
      BY <1>t, <3>1 DEF OptObject
    <3>3. /\ w \in Objects /\ kind[w] = "unallocated" /\ kind[x] = "data"
          /\ kind' = [kind EXCEPT ![w] = "weak"]
          /\ backRef' = [backRef EXCEPT ![w] = x]
          /\ holds' = [holds EXCEPT ![WeakField(x)] = w]
      BY <2>1, <3>2 DEF Downgrade, Objects
    <3>4. /\ holds'[WeakField(x)] = w /\ backRef'[w] = x /\ x # NULL
          /\ \A o \in Objects : o # x => holds'[WeakField(o)] = holds[WeakField(o)]
          /\ \A v \in Objects : v # w => backRef'[v] = backRef[v]
      BY <1>t, <3>3, PlaceFacts, FieldFacts
    <3>5. \A o \in Objects : holds[WeakField(o)] # w /\ holds[WeakField(o)] \in OptObject
      BY <1>t, <3>3, LiveFacts, PlaceFacts DEF Live
    <3>6. \A o \in Objects : kind'[o] = "unallocated" => o # x /\ kind[o] = "unallocated"
      BY <1>t, <3>3
    <3>7. ASSUME NEW o \in Objects, Severed(o)'
          PROVE  Severed(o)
      <4>1. o # x
        BY <3>4, <3>7 DEF Severed
      <4>2. kind[o] = "data"
        BY <1>t, <3>3, <3>7 DEF Severed
      <4>3. holds[WeakField(o)] \in Objects /\ holds'[WeakField(o)] = holds[WeakField(o)]
        BY <3>4, <3>5, <3>7, <4>1 DEF Severed, OptObject
      <4> QED BY <3>4, <3>5, <3>7, <4>2, <4>3, PlaceFacts DEF Severed
    <3> QED BY <3>4, <3>6, <3>7 DEF SeversOnlyZeroed, ZeroInv
  <2>2. CASE \/ \E l \in Locations, dst \in Handles : LoadOwned(t, l, dst) \/ Borrow(t, l, dst)
             \/ \E i \in Slots : DropGuard(t, i)
             \/ \E src \in Handles, dst \in Handles : DowngradeAgain(t, src, dst)
    BY <1>k, <2>2 DEF LoadOwned, Borrow, DropGuard, DowngradeAgain
  <2>3. ASSUME NEW c \in Cells, NEW m \in Handles, NEW n \in Handles, NEW dst \in Handles,
               CompareAndSet(t, c, m, n, dst)
        PROVE  SeversOnlyZeroed
    BY <1>t, <2>3, LinksAreFields, LinksStay DEF CompareAndSet, Installed
  <2> QED BY <1>2, <2>1, <2>2, <2>3 DEF CallStep
<1>3. ASSUME NEW t \in Threads, ContinueStep(t)
      PROVE  SeversOnlyZeroed
  <2>1. ASSUME NEW s \in Shards, LoadIncrement(t, s) \/ WeakClone(t, s)
        PROVE  SeversOnlyZeroed
    <3>1. op[t].dst \in Handles
      BY <1>0, <2>1 DEF LoadIncrement, WeakClone, CallsAreConsistent, CallIsConsistent, ResultSteps
    <3>2. PICK d \in Handles : d = op[t].dst
      BY <3>1
    <3>3. UNCHANGED <<kind, backRef>> /\ \E v : holds' = [holds EXCEPT ![d] = v]
      BY <2>1, <3>2 DEF LoadIncrement, WeakClone
    <3> QED BY <1>t, <3>3, LinksAreFields, LinksStay
  <2>2. CASE LoadPtr(t) \/ LoadExit(t) \/ Publish(t) \/ Reload(t) \/ Fallback(t)
    BY <1>k, <2>2 DEF LoadPtr, LoadExit, Publish, Reload, Fallback
  <2>3. ASSUME NEW s \in Shards, CasIncrement(t, s)
        PROVE  SeversOnlyZeroed
    BY <2>3, LinksStay DEF CasIncrement
  <2> QED BY <1>3, <2>1, <2>2, <2>3 DEF ContinueStep
<1> QED BY <1>1, <1>2, <1>3

\* Clones and drops during the re-check of an object cannot make it come out as zero:
\* an increment of a shard still to be read is added, a decrement of one leaves a tag.
LEMMA UserZero ==
  ASSUME SafeInv, ZeroInv, Record, UserStep, SeversOnlyZeroed
  PROVE  ZeroInv'
<1>0. TypeInv /\ WorkIsTracked /\ TrackedExactlyOnce
  BY DEF SafeInv
<1>1. UNCHANGED <<cpc, obj, idx, sum>>
  BY DEF UserStep
<1>2. ASSUME cpc \in {"recheck", "weakref"}, obj \in zeroed
      PROVE  obj' \in zeroed'
  <2>1. obj \in Objects /\ Live(obj)
    BY <1>0, <1>2 DEF WorkIsTracked, TrackedExactlyOnce, TypeInv, TypeOK, CollectorTypeOK
  <2>2. PICK o \in Objects : o = obj
    BY <2>1
  <2>3. Live(o)'
    BY <2>1, <2>2 DEF UserStep
  <2> QED BY <1>1, <1>2, <2>2, <2>3 DEF Record
<1>3. ASSUME cpc = "recheck"
      PROVE  RecheckFindsZeroed'
  <2> DEFINE c == counters[obj]
             d == counters'[obj]
  <2>1. obj \in Objects /\ idx \in Shards /\ idx \in 0 .. ShardCount /\ sum \in Int
        /\ c \in [Shards -> Int]
    BY <1>0, <1>3, ShardCountAssumption, Types DEF TypeInv, TypeOK, CollectorTypeOK, Shards
  <2>2. SumFrom(c, idx) \in Int
    BY <2>1, SumFacts
  <2>3. UserWrite(obj)
    BY <1>0, <1>3, <2>1 DEF UserStep, WorkIsTracked, TrackedExactlyOnce
  <2>4. \/ TagFrom(c, idx)
        \/ sum + SumFrom(c, idx) > 0
        \/ sum + SumFrom(c, idx) = 0 /\ obj \in zeroed
    BY <1>3 DEF ZeroInv, RecheckFindsZeroed
  <2>5. /\ TagFrom(c, idx) => TagFrom(d, idx)
        /\ \/ SumFrom(d, idx) \in {SumFrom(c, idx), SumFrom(c, idx) + 1}
           \/ TagFrom(d, idx)
    <3> HIDE DEF c
    <3>1. CASE d = c
      BY <3>1
    <3>2. ASSUME NEW s \in Shards, d = [c EXCEPT ![s] = IncrementRefCount(@)]
          PROVE  /\ TagFrom(c, idx) => TagFrom(d, idx)
                 /\ SumFrom(d, idx) \in {SumFrom(c, idx), SumFrom(c, idx) + 1}
      <4> HIDE DEF d
      <4>1. /\ SumFrom(d, idx) \in {SumFrom(c, idx), SumFrom(c, idx) + 1}
            /\ \A r \in Shards : Tag(d[r]) <=> Tag(c[r])
        BY <2>1, <3>2, SumOfIncrement
      <4> QED BY <4>1 DEF TagFrom
    <3>3. ASSUME NEW s \in Shards, d = [c EXCEPT ![s] = DecrementRefCountAndSetTag(@)]
          PROVE  /\ TagFrom(c, idx) => TagFrom(d, idx)
                 /\ SumFrom(d, idx) = SumFrom(c, idx) \/ TagFrom(d, idx)
      <4> HIDE DEF d
      <4>1. /\ SumFrom(d, idx) = SumFrom(c, idx) \/ TagFrom(d, idx)
            /\ \A r \in Shards : Tag(c[r]) => Tag(d[r])
        BY <2>1, <3>3, SumOfDecrement
      <4> QED BY <4>1 DEF TagFrom
    <3> QED BY <2>3, <3>1, <3>2, <3>3 DEF UserWrite, c
  <2>6. sum + SumFrom(c, idx) = 0 /\ obj \in zeroed => obj' \in zeroed'
    BY <1>2, <1>3
  <2>7. /\ TagFrom(d, idx) = TagFrom(counters[obj], idx)'
        /\ SumFrom(d, idx) = SumFrom(counters[obj], idx)'
    BY <1>1
  <2> HIDE DEF c, d
  <2>8. \/ TagFrom(d, idx)
        \/ sum + SumFrom(d, idx) > 0
        \/ sum + SumFrom(d, idx) = 0 /\ obj' \in zeroed'
    BY <2>1, <2>2, <2>4, <2>5, <2>6
  <2> QED BY <1>1, <2>7, <2>8 DEF RecheckFindsZeroed
<1>4. cpc' = "weakref" => obj' \in zeroed'
  BY <1>1, <1>2 DEF ZeroInv
<1> QED BY <1>1, <1>3, <1>4, ZeroStep

\* update_state starts on o: the sum it is going to read counts the owners, but for the
\* increments that compare_and_set owes, and those are fewer.
LEMMA UpdateZero ==
  ASSUME SafeInv, ZeroInv, Record, NEW o \in Objects, UpdateState(o)
  PROVE  ZeroInv'
<1>0. TypeInv /\ TrackedExactlyOnce /\ RefCountExact /\ LoopsInOrder
  BY DEF SafeInv
<1>1. /\ UNCHANGED <<kind, counters, holds, backRef, idx, sum>> /\ obj' = o
      /\ cpc = "update" /\ cpc' # "weakref" /\ state[o] # "untracked"
  BY DEF UpdateState, heapVars, Tracked
<1>2. idx = 0 /\ sum = 0 /\ Live(o) /\ counters[o] \in [Shards -> Int]
  BY <1>0, <1>1, Types DEF TypeInv, LoopsReset, LoopsInOrder, TrackedExactlyOnce
<1>3. /\ SumFrom(counters[o], 0) \in Nat
      /\ SumFrom(counters[o], 0) = 0 => Holders(o) = {}
  <2>1. SumFrom(counters[o], 0) = Cardinality(Holders(o)) - Cardinality(OwedIncrements(o))
    BY <1>0, <1>2, SumFacts DEF RefCountExact, StrongCount
  <2>2. Cardinality(Holders(o)) \in Nat /\ Cardinality(OwedIncrements(o)) \in Nat
    BY HoldersFinite, OwedBelow
  <2>3. CASE Holders(o) = {}
    BY <2>1, <2>3, OwedBelow, FS_EmptySet
  <2>4. CASE Holders(o) # {}
    <3>1. Cardinality(OwedIncrements(o)) < Cardinality(Holders(o))
      BY <2>4, OwedBelow
    <3> QED BY <2>1, <2>2, <3>1
  <2> QED BY <2>3, <2>4
<1>4. ASSUME SumFrom(counters[o], 0) = 0
      PROVE  o \in zeroed'
  <2>1. Holders(o) = {}
    BY <1>3, <1>4
  <2>2. Live(o)' /\ Holders(o)' = {}
    BY <1>1, <1>2, <2>1 DEF Live, Holders
  <2> QED BY <2>2 DEF Record
<1>5. RecheckFindsZeroed'
  <2>1. (sum + SumFrom(counters[obj], idx))' = 0 + SumFrom(counters[o], 0)
    BY <1>1, <1>2
  <2> QED BY <1>1, <1>3, <1>4, <2>1 DEF RecheckFindsZeroed
<1>6. SeversOnlyZeroed
  BY <1>1, LinksStay
<1> QED BY <1>1, <1>5, <1>6, ZeroStep

\* One more shard of the re-check: what it comes to weakref with has been without an
\* owner.
LEMMA RecheckZero ==
  ASSUME SafeInv, ZeroInv, Record, Recheck
  PROVE  ZeroInv'
<1> DEFINE word == counters[obj][idx]
           total == sum + RefCount(word)
<1>0. TypeInv /\ WorkIsTracked /\ TrackedExactlyOnce
  BY DEF SafeInv
<1>1. UNCHANGED <<kind, counters, holds, backRef>> /\ cpc = "recheck"
  BY DEF Recheck, heapVars
<1>2. /\ obj \in Objects /\ idx \in Shards /\ counters[obj] \in [Shards -> Int] /\ sum \in Int
      /\ word \in Int /\ RefCount(word) \in Int
  BY <1>0, <1>1, Types, CounterTypes DEF TypeInv, TypeOK, CollectorTypeOK
<1>3. SeversOnlyZeroed
  BY <1>1, LinksStay
<1>4. CASE Conclude(obj, "default")
  BY <1>3, <1>4, ZeroStep DEF Conclude
<1>5. CASE ~Tag(word) /\ ~Conclude(obj, "default")
  <2>1. /\ UNCHANGED obj
        /\ \/ idx # LastShard /\ cpc' = "recheck" /\ idx' = idx + 1 /\ sum' = total
           \/ idx = LastShard /\ total = 0 /\ cpc' = "weakref"
    BY <1>1, <1>5 DEF Recheck
  <2>2. obj \in zeroed => obj' \in zeroed'
    <3>1. PICK o \in Objects : o = obj /\ Live(o)
      BY <1>0, <1>1, <1>2 DEF WorkIsTracked, TrackedExactlyOnce
    <3>2. Live(o)'
      BY <1>1, <3>1 DEF Live
    <3> QED BY <2>1, <3>1, <3>2 DEF Record
  <2>3. RecheckFindsZeroed
    BY <1>1 DEF ZeroInv
  <2>4. /\ SumFrom(counters[obj], idx) = RefCount(word) + SumFrom(counters[obj], idx + 1)
        /\ SumFrom(counters[obj], LastShard) = RefCount(counters[obj][LastShard])
    BY <1>2, SumFacts
  <2>5. idx + 1 \in 0 .. ShardCount /\ SumFrom(counters[obj], idx + 1) \in Int
    <3>1. idx + 1 \in 0 .. ShardCount
      BY <1>2, ShardCountAssumption DEF Shards
    <3> QED BY <1>2, <3>1, SumFacts
  <2>6. CASE idx # LastShard
    <3>1. cpc' = "recheck" /\ idx' = idx + 1 /\ sum' = total /\ obj' = obj /\ counters' = counters
      BY <1>1, <2>1, <2>6
    <3>2. sum + SumFrom(counters[obj], idx) = total + SumFrom(counters[obj], idx + 1)
      BY <1>2, <2>4, <2>5
    <3>3. TagFrom(counters[obj], idx) => TagFrom(counters[obj], idx + 1)
      <4> SUFFICES ASSUME NEW s \in Shards, s >= idx, Tag(counters[obj][s])
                   PROVE  TagFrom(counters[obj], idx + 1)
        BY DEF TagFrom
      <4>1. s # idx
        BY <1>5
      <4>2. s >= idx + 1
        BY <1>2, <4>1 DEF Shards
      <4> QED BY <4>2 DEF TagFrom
    <3> HIDE DEF total
    <3>4. \/ TagFrom(counters[obj], idx + 1)
          \/ total + SumFrom(counters[obj], idx + 1) > 0
          \/ total + SumFrom(counters[obj], idx + 1) = 0 /\ obj' \in zeroed'
      BY <2>2, <2>3, <3>2, <3>3 DEF RecheckFindsZeroed
    <3>5. TagFrom(counters[obj], idx)' <=> TagFrom(counters[obj], idx + 1)
      BY <3>1 DEF TagFrom
    <3>6. (sum + SumFrom(counters[obj], idx))' = total + SumFrom(counters[obj], idx + 1)
      BY <3>1
    <3>7. RecheckFindsZeroed'
      BY <3>4, <3>5, <3>6 DEF RecheckFindsZeroed
    <3> QED BY <1>3, <3>1, <3>7, ZeroStep
  <2>7. CASE idx = LastShard
    <3>1. cpc' = "weakref" /\ total = 0
      BY <2>1, <2>7
    <3>2. sum + SumFrom(counters[obj], idx) = total
      BY <2>4, <2>7
    <3>3. ~TagFrom(counters[obj], idx)
      <4>1. \A s \in Shards : s >= idx => s = idx
        BY <1>2, <2>7, ShardCountAssumption DEF Shards, LastShard
      <4> QED BY <1>5, <4>1 DEF TagFrom
    <3>4. obj \in zeroed
      <4> HIDE DEF total
      <4> QED BY <2>3, <3>1, <3>2, <3>3 DEF RecheckFindsZeroed
    <3> QED BY <1>3, <2>2, <3>1, <3>4, ZeroStep
  <2> QED BY <2>6, <2>7
<1>6. Tag(word) => Conclude(obj, "default")
  BY DEF Recheck
<1> QED BY <1>4, <1>5, <1>6

\* The rest of the collector: only ClearWeakBackRef severs a weak reference, that of obj.
LEMMA CollectorZero ==
  ASSUME SafeInv, ZeroInv, Record, CollectorStep
  PROVE  ZeroInv'
<1>0. TypeInv /\ BackRefsMatch /\ WorkIsTracked
  BY DEF SafeInv
<1>t. /\ kind \in [Objects -> Kinds] /\ holds \in [Places -> OptObject]
      /\ backRef \in [Objects -> OptObject]
      /\ cpc \in {"weakref", "drop"} => obj \in Objects
  BY <1>0, Types DEF TypeInv, TypeOK, CollectorTypeOK
<1>k. ASSUME UNCHANGED <<kind, holds, backRef>>, cpc' \notin {"recheck", "weakref"}
      PROVE  ZeroInv'
  <2>1. SeversOnlyZeroed
    BY <1>k, LinksStay
  <2> QED BY <1>k, <2>1, ZeroStep
<1>1. CASE \/ BeginOuter \/ TakeNew \/ EndUpdate \/ EndPass
           \/ \E t \in Threads : Barrier(t) \/ ScanSlot(t) \/ Poll(t)
           \/ \E o \in Objects : SkipUntracked(o) \/ KeepHazardous(o)
  BY <1>1, <1>k DEF BeginOuter, TakeNew, StartPass, EndUpdate, EndPass, Barrier, ScanSlot,
                    Poll, SkipUntracked, KeepHazardous, heapVars
<1>2. CASE Precheck
  BY <1>2, <1>k DEF Precheck, Conclude, heapVars
<1>3. CASE ClearTags
  BY <1>3, <1>k DEF ClearTags, Conclude
<1>4. CASE ClearWeakBackRef
  <2>1. /\ UNCHANGED <<kind, holds>> /\ cpc' = "update" /\ obj \in Objects /\ obj \in zeroed
        /\ WeakUnreachable(obj) => UNCHANGED backRef
        /\ ~WeakUnreachable(obj) => backRef' = [backRef EXCEPT ![holds[WeakField(obj)]] = NULL]
    BY <1>4, <1>t DEF ClearWeakBackRef, Conclude, ZeroInv
  <2>2. CASE WeakUnreachable(obj)
    BY <1>k, <2>1, <2>2
  <2>3. CASE ~WeakUnreachable(obj)
    <3>1. PICK w \in Objects : w = holds[WeakField(obj)] /\ backRef[w] = obj
      BY <1>0, <1>t, <2>1, <2>3, PlaceFacts DEF WeakUnreachable, BackRefsMatch, OptObject
    <3>2. backRef' = [backRef EXCEPT ![w] = NULL]
      BY <2>1, <2>3, <3>1
    <3>3. \A v \in Objects : v # w => backRef'[v] = backRef[v]
      BY <1>t, <3>2
    <3>4. ASSUME NEW o \in Objects, Severed(o)'
          PROVE  Severed(o) \/ o \in zeroed
      <4>1. kind[o] = "data" /\ holds[WeakField(o)] \in Objects /\ holds[WeakField(o)] # NULL
            /\ backRef'[holds[WeakField(o)]] = NULL
        BY <1>t, <2>1, <3>4, PlaceFacts DEF Severed, OptObject
      <4>2. CASE holds[WeakField(o)] = w
        BY <1>0, <2>1, <3>1, <4>1, <4>2, PlaceFacts DEF BackRefsMatch
      <4> QED BY <3>3, <4>1, <4>2 DEF Severed
    <3>5. SeversOnlyZeroed
      BY <2>1, <3>4 DEF SeversOnlyZeroed, ZeroInv
    <3> QED BY <2>1, <3>5, ZeroStep
  <2> QED BY <2>2, <2>3
<1>5. ASSUME NEW o \in Objects, BeginFree(o)
      PROVE  ZeroInv'
  <2>1. /\ UNCHANGED <<holds, backRef>> /\ cpc' = "drop" /\ kind' = [kind EXCEPT ![o] = "freeing"]
    BY <1>5 DEF BeginFree
  <2>2. SeversOnlyZeroed
    BY <1>t, <2>1 DEF SeversOnlyZeroed, ZeroInv, Severed
  <2> QED BY <2>1, <2>2, ZeroStep
<1>6. ASSUME NEW f \in Fields, NEW s \in Shards, DropField(f, s)
      PROVE  ZeroInv'
  <2>1. /\ UNCHANGED <<kind, backRef>> /\ cpc' = "drop" /\ f \in Places
        /\ holds' = [holds EXCEPT ![f] = NULL]
    BY <1>6, PlaceFacts DEF DropField
  <2>2. \A o \in Objects : holds'[WeakField(o)] \in {holds[WeakField(o)], NULL}
    BY <1>t, <2>1, PlaceFacts
  <2>3. SeversOnlyZeroed
    BY <2>1, <2>2 DEF SeversOnlyZeroed, ZeroInv, Severed
  <2> QED BY <2>1, <2>3, ZeroStep
<1>7. CASE EndFree
  <2>1. PICK o \in Objects : o = obj /\ kind[o] = "freeing"
    BY <1>0, <1>7, <1>t DEF EndFree, WorkIsTracked
  <2>2. /\ UNCHANGED holds /\ cpc' = "free" /\ holds[WeakField(o)] = NULL
        /\ kind' = [kind EXCEPT ![o] = "unallocated"]
        /\ backRef' = [backRef EXCEPT ![o] = NULL]
    BY <1>7, <2>1 DEF EndFree
  <2>3. \A x \in Objects : holds[WeakField(x)] # o
    BY <2>1, LiveFacts, PlaceFacts DEF Live
  <2>4. ASSUME NEW x \in Objects, Severed(x)'
        PROVE  Severed(x)
    <3>1. holds[WeakField(x)] \in Objects /\ kind[x] = "data"
      BY <1>t, <2>2, <2>4, PlaceFacts DEF Severed, OptObject
    <3> QED BY <1>t, <2>2, <2>3, <2>4, <3>1 DEF Severed
  <2>5. \A x \in Objects : kind'[x] = "unallocated" => holds'[WeakField(x)] = NULL
    BY <1>t, <2>2 DEF ZeroInv
  <2>6. SeversOnlyZeroed
    BY <2>4, <2>5 DEF SeversOnlyZeroed
  <2> QED BY <2>2, <2>6, ZeroStep
<1> QED BY <1>1, <1>2, <1>3, <1>4, <1>5, <1>6, <1>7, UpdateZero, RecheckZero DEF CollectorStep

\* Every step keeps the invariant.
LEMMA NextZero ==
  ASSUME SafeInv, ZeroInv, [Next /\ Record]_historyVars
  PROVE  ZeroInv'
<1>1. CASE UNCHANGED historyVars
  <2>1. UNCHANGED <<kind, counters, holds, backRef, cpc, obj, idx, sum, zeroed>>
    BY <1>1 DEF historyVars, vars, heapVars, collectorVars, readVars
  <2>2. RecheckFindsZeroed' = RecheckFindsZeroed
    BY <2>1 DEF RecheckFindsZeroed, TagFrom, SumFrom
  <2> QED BY <2>1, <2>2 DEF ZeroInv, Live, Holders, Severed
<1>2. CASE Record /\ (HandleStep \/ \E t \in Threads : CallStep(t) \/ ContinueStep(t))
  <2>1. UserStep
    BY <1>2, HandleSafe, CallSafe, ContinueSafe DEF SafeStep, HeapStep
  <2> QED BY <1>2, <2>1, UserLinks, UserZero
<1>3. ASSUME NEW t \in Threads, DrainStep(t), Record
      PROVE  ZeroInv'
  <2>1. UNCHANGED <<kind, counters, holds, backRef, cpc, obj, idx, sum>>
    BY <1>3 DEF DrainStep, heapVars, collectorVars, readVars
  <2>2. SeversOnlyZeroed
    BY <2>1, LinksStay
  <2>3. ASSUME cpc \in {"recheck", "weakref"}, obj \in zeroed
        PROVE  obj' \in zeroed'
    <3>1. PICK o \in Objects : o = obj /\ Live(o)
      BY <2>3 DEF SafeInv, WorkIsTracked, TrackedExactlyOnce, TypeInv, TypeOK, CollectorTypeOK
    <3>2. Live(o)'
      BY <2>1, <3>1 DEF Live
    <3> QED BY <1>3, <2>1, <2>3, <3>1, <3>2 DEF Record
  <2>4. cpc = "recheck" => RecheckFindsZeroed'
    <3>1. /\ TagFrom(counters[obj], idx)' = TagFrom(counters[obj], idx)
          /\ (sum + SumFrom(counters[obj], idx))' = sum + SumFrom(counters[obj], idx)
      BY <2>1 DEF TagFrom
    <3> QED BY <2>3, <3>1 DEF ZeroInv, RecheckFindsZeroed
  <2> QED BY <1>3, <2>1, <2>2, <2>3, <2>4, ZeroStep DEF ZeroInv
<1>4. CASE CollectorStep /\ Record
  BY <1>4, CollectorZero
<1> QED BY <1>1, <1>2, <1>3, <1>4 DEF Next

\* Nothing is allocated when the program starts.
LEMMA InitZero == Init /\ HistoryInit => ZeroInv
<1> SUFFICES ASSUME Init PROVE ZeroInv
  OBVIOUS
<1>1. /\ \A o \in Objects : kind[o] = "unallocated" /\ holds[WeakField(o)] = NULL
      /\ cpc = "park"
  BY PlaceFacts DEF Init, HeapInit, CollectorInit
<1> QED BY <1>1 DEF ZeroInv, Live, Severed

\* In every execution that disturbs no call of compare_and_set, upgrade fails only on an
\* object that has been without any owner: clones and drops on other shards while the
\* collector adds up the counts never make it clear the back_ref of an object that was
\* always owned.
THEOREM UpgradesSucceed ==
  HistorySpec /\ []CasUndisturbed => []UpgradeFailsOnlyAfterZero
<1>1. SafeInv /\ ZeroInv /\ CasUndisturbed' /\ [Next /\ Record]_historyVars => (SafeInv /\ ZeroInv)'
  <2> SUFFICES ASSUME SafeInv, ZeroInv, CasUndisturbed', [Next /\ Record]_historyVars
               PROVE  (SafeInv /\ ZeroInv)'
    OBVIOUS
  <2>1. [Next]_vars
    BY DEF historyVars
  <2> QED BY <2>1, NextSafeInv, NextZero
<1>2. Init /\ HistoryInit => SafeInv /\ ZeroInv
  BY InitSafeInv, InitZero
<1>3. ZeroInv => UpgradeFailsOnlyAfterZero
  BY DEF ZeroInv, UpgradeFailsOnlyAfterZero, Severed
<1> QED BY <1>1, <1>2, <1>3, PTL DEF HistorySpec
=============================================================================
