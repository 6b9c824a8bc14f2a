----------------------- MODULE HazardRegistryProofs -----------------------
(***************************************************************************)
(* Proofs about the list of hazard data, for every number of threads and   *)
(* entries: entries are handed over clean, a scan covers the readers that  *)
(* the barrier found, and the list is less than twice as long as the       *)
(* largest number of threads that lived at the same time.                  *)
(***************************************************************************)
EXTENDS HazardRegistry, FiniteSetTheorems, TLAPS

\* A search stays within the length it has read, a reserved entry becomes visible
\* in its turn, and an owned entry, or one that is scanned, is one the list has.
ListInOrder ==
  /\ count <= reserved
  /\ \A t \in Threads :
       /\ pc[t] = "off" => entry[t] = 0
       /\ pc[t] = "claim" => entry[t] <= bound[t] /\ bound[t] <= count
       /\ pc[t] = "push" => count <= entry[t] /\ entry[t] < reserved
       /\ pc[t] = "ready" => entry[t] < count
  /\ cpc \in {"slot", "poll"} => cidx < cbound /\ cbound <= count

\* The threads the history variables name still show what the barrier found.
HistoryIsTrue ==
  /\ \A t \in protected : pc[t] = "ready" /\ stored[entry[t]].slot = t
  /\ \A t \in inside : pc[t] = "ready" /\ stored[entry[t]].flag = TRUE

\* After its own barrier a reader of that time is visible to the collector, and the
\* scan has it behind as a member of the set, or still ahead.
ScanInOrder ==
  /\ cpc = "idle" => protected = {} /\ inside = {}
  /\ cpc = "barrier" =>
       /\ \A t \in protected : t \in waiting \/ visible[entry[t]].slot = t
       /\ \A t \in inside : t \in waiting \/ visible[entry[t]].flag = TRUE
  /\ cpc \in {"slot", "poll", "done"} =>
       /\ \A t \in protected : /\ visible[entry[t]].slot = t
                               /\ entry[t] < cbound
                               /\ t \in seen \/ cidx <= entry[t]
                               /\ cpc = "poll" => t \in seen \/ cidx < entry[t]
       /\ \A t \in inside : /\ visible[entry[t]].flag = TRUE
                            /\ entry[t] < cbound
                            /\ cidx <= entry[t]
  /\ cpc = "done" => cbound <= cidx

ListInv == RegistryTypeOK /\ ListInOrder /\ HandoverIsClean

ScanInv == HistoryIsTrue /\ ScanInOrder

\* The threads that stand in the way of a search by u beyond entry j: those that
\* are there or further on, and those that search a shorter list and will append.
Ahead(u, j) ==
  {v \in Alive : entry[v] >= j \/ (pc[v] = "claim" /\ bound[v] < bound[u])}

Pushers == {t \in Threads : pc[t] = "push"}

\* The threads that search with a length below b.
ShortSearches(b) == {t \in Threads : pc[t] = "claim" /\ bound[t] < b}

\* Who has passed j entries has left j owners behind; and the list, with the entries
\* that short searches may still append, stays within its bound.
SizeInv ==
  /\ Cardinality(Alive) <= mostAlive
  /\ reserved = count + Cardinality(Pushers)
  /\ \A u \in Threads, j \in Nat : pc[u] = "claim" /\ j <= entry[u] =>
       Cardinality(Ahead(u, j)) <= mostAlive - j
  /\ \A b \in Nat \ {0} : mostAlive <= b =>
       reserved + Cardinality(ShortSearches(b)) <= b - 1 + mostAlive
-----------------------------------------------------------------------------
\* Nobody owns an entry before a thread has begun.
LEMMA InitListInv == Init => ListInv
<1> SUFFICES ASSUME Init PROVE ListInv
  OBVIOUS
<1>0. MaxEntries \in Nat
  BY RegistryAssumption
<1>1. RegistryTypeOK
  BY <1>0 DEF Init, RegistryTypeOK, Signals, NoSignals, ThreadSteps
<1>2. ListInOrder
  BY DEF Init, ListInOrder
<1>3. HandoverIsClean
  BY DEF Init, HandoverIsClean, Owns
<1> QED BY <1>1, <1>2, <1>3 DEF ListInv

\* What the invariant says of a thread's entry.
LEMMA EntryFacts ==
  ASSUME ListInv
  PROVE  /\ MaxEntries \in Nat /\ reserved \in 0 .. MaxEntries /\ count \in 0 .. MaxEntries
         /\ entry \in [Threads -> Nat] /\ bound \in [Threads -> Nat]
         /\ pc \in [Threads -> ThreadSteps] /\ isUsed \in [Entries -> BOOLEAN]
         /\ stored \in [Entries -> Signals] /\ visible \in [Entries -> Signals]
         /\ \A t \in Threads : pc[t] \in {"push", "ready"} =>
              entry[t] \in Entries /\ entry[t] < reserved /\ isUsed[entry[t]] = TRUE
         /\ \A t \in Threads : pc[t] = "claim" /\ entry[t] < bound[t] => entry[t] \in Entries
         /\ \A t, u \in Threads : /\ pc[t] \in {"push", "ready"} /\ pc[u] \in {"push", "ready"}
                                  /\ entry[t] = entry[u]
                                  => t = u
<1>1. RegistryTypeOK /\ ListInOrder /\ HandoverIsClean
  BY DEF ListInv
<1>2. /\ MaxEntries \in Nat /\ reserved \in 0 .. MaxEntries /\ count \in 0 .. MaxEntries
      /\ entry \in [Threads -> Nat] /\ bound \in [Threads -> Nat]
      /\ pc \in [Threads -> ThreadSteps] /\ isUsed \in [Entries -> BOOLEAN]
      /\ stored \in [Entries -> Signals] /\ visible \in [Entries -> Signals]
  BY <1>1, RegistryAssumption DEF RegistryTypeOK
<1>3. \A t \in Threads : pc[t] \in {"push", "ready"} => entry[t] \in Entries /\ entry[t] < reserved
  BY <1>1, <1>2 DEF ListInOrder, Entries
<1>4. \A t \in Threads : pc[t] = "claim" /\ entry[t] < bound[t] => entry[t] \in Entries
  BY <1>1, <1>2 DEF ListInOrder, Entries
<1>5. \A t \in Threads : pc[t] \in {"push", "ready"} => isUsed[entry[t]]
  BY <1>1, <1>3 DEF HandoverIsClean, Owns
<1>6. \A t, u \in Threads : /\ pc[t] \in {"push", "ready"} /\ pc[u] \in {"push", "ready"}
                            /\ entry[t] = entry[u]
                            => t = u
  BY <1>1, <1>3 DEF HandoverIsClean, Owns
<1> QED BY <1>2, <1>3, <1>4, <1>5, <1>6

\* The step of a thread to own, or look at, an entry leaves the others theirs.
LEMMA ThreadListInv ==
  ASSUME ListInv, NEW t \in Threads,
         Begin(t) \/ TryClaim(t) \/ Reserve(t) \/ Push(t) \/ Release(t)
  PROVE  ListInv'
<1>0. RegistryTypeOK /\ ListInOrder /\ HandoverIsClean
  BY DEF ListInv
<1>1. /\ MaxEntries \in Nat /\ reserved \in 0 .. MaxEntries /\ count \in 0 .. MaxEntries
      /\ entry \in [Threads -> Nat] /\ bound \in [Threads -> Nat]
      /\ pc \in [Threads -> ThreadSteps] /\ isUsed \in [Entries -> BOOLEAN]
      /\ stored \in [Entries -> Signals] /\ visible \in [Entries -> Signals]
  BY EntryFacts
<1>2. \A u \in Threads : pc[u] \in {"push", "ready"} =>
        entry[u] \in Entries /\ entry[u] < reserved /\ isUsed[entry[u]] = TRUE
  BY EntryFacts
<1>3. CASE Begin(t)
  <2>1. /\ pc[t] = "off" /\ pc' = [pc EXCEPT ![t] = "claim"]
        /\ bound' = [bound EXCEPT ![t] = count]
        /\ UNCHANGED <<entry, reserved, count, isUsed, stored, visible>>
        /\ UNCHANGED <<cpc, waiting, cidx, cbound, seen, protected, inside>>
        /\ mostAlive' \in {mostAlive, Cardinality(Alive) + 1}
    BY <1>3 DEF Begin, listVars, signalVars, collectorVars
  <2>2. Cardinality(Alive) \in Nat
    BY RegistryAssumption, FS_Subset, FS_CardinalityType DEF Alive
  <2>3. RegistryTypeOK'
    BY <1>0, <1>1, <2>1, <2>2 DEF RegistryTypeOK, ThreadSteps
  <2>4. ListInOrder'
    BY <1>0, <1>1, <2>1 DEF ListInOrder
  <2>5. \A u \in Threads, e \in Entries : Owns(u, e)' = Owns(u, e)
    BY <1>1, <2>1 DEF Owns
  <2>6. HandoverIsClean'
    BY <1>0, <2>1, <2>5 DEF HandoverIsClean
  <2> QED BY <2>3, <2>4, <2>6 DEF ListInv
<1>4. CASE TryClaim(t)
  <2>1. /\ pc[t] = "claim" /\ entry[t] < bound[t] /\ entry[t] \in Entries
        /\ isUsed' = [isUsed EXCEPT ![entry[t]] = TRUE]
        /\ UNCHANGED <<reserved, count, bound, stored, visible>>
        /\ UNCHANGED <<cpc, waiting, cidx, cbound, seen, protected, inside, mostAlive>>
    BY <1>4, EntryFacts DEF TryClaim, signalVars, collectorVars, historyVars
  <2>2. CASE isUsed[entry[t]]
    <3>1. entry' = [entry EXCEPT ![t] = @ + 1] /\ pc' = pc /\ isUsed' = isUsed
      BY <1>1, <1>4, <2>1, <2>2 DEF TryClaim, OldIsUsed
    <3>2. RegistryTypeOK'
      BY <1>0, <1>1, <2>1, <3>1 DEF RegistryTypeOK
    <3>3. ListInOrder'
      BY <1>0, <1>1, <2>1, <3>1 DEF ListInOrder
    <3>4. \A u \in Threads, e \in Entries : Owns(u, e)' = Owns(u, e)
      BY <1>1, <2>1, <3>1 DEF Owns
    <3>5. HandoverIsClean'
      BY <1>0, <2>1, <3>1, <3>4 DEF HandoverIsClean
    <3> QED BY <3>2, <3>3, <3>5 DEF ListInv
  <2>3. CASE ~isUsed[entry[t]]
    <3>1. pc' = [pc EXCEPT ![t] = "ready"] /\ entry' = entry
      BY <1>4, <2>3 DEF TryClaim, OldIsUsed
    <3>2. RegistryTypeOK'
      BY <1>0, <1>1, <2>1, <3>1 DEF RegistryTypeOK, ThreadSteps
    <3>3. ListInOrder'
      BY <1>0, <1>1, <2>1, <3>1 DEF ListInOrder
    <3>4. \A u \in Threads, e \in Entries :
            Owns(u, e)' <=> Owns(u, e) \/ (u = t /\ e = entry[t])
      BY <1>1, <2>1, <3>1 DEF Owns
    <3>5. \A u \in Threads : ~Owns(u, entry[t])
      BY <1>0, <2>1, <2>3 DEF HandoverIsClean
    <3>6. \A e \in Entries : isUsed'[e] <=> isUsed[e] \/ e = entry[t]
      BY <1>1, <2>1
    <3>7. HandoverIsClean'
      BY <1>0, <2>1, <3>4, <3>5, <3>6 DEF HandoverIsClean
    <3> QED BY <3>2, <3>3, <3>7 DEF ListInv
  <2> QED BY <2>2, <2>3
<1>5. CASE Reserve(t)
  <2>1. /\ pc[t] = "claim" /\ reserved \in Entries /\ reserved' = reserved + 1
        /\ isUsed' = [isUsed EXCEPT ![reserved] = TRUE]
        /\ pc' = [pc EXCEPT ![t] = "push"] /\ entry' = [entry EXCEPT ![t] = reserved]
        /\ reserved < MaxEntries
        /\ UNCHANGED <<count, bound, stored, visible>>
        /\ UNCHANGED <<cpc, waiting, cidx, cbound, seen, protected, inside, mostAlive>>
    BY <1>1, <1>5 DEF Reserve, Entries, signalVars, collectorVars, historyVars
  <2>2. RegistryTypeOK'
    <3>1. reserved' \in 0 .. MaxEntries
      BY <1>1, <2>1
    <3>2. /\ isUsed' \in [Entries -> BOOLEAN] /\ pc' \in [Threads -> ThreadSteps]
          /\ entry' \in [Threads -> Nat]
      BY <1>1, <2>1 DEF ThreadSteps
    <3> QED BY <1>0, <2>1, <3>1, <3>2 DEF RegistryTypeOK
  <2>3. ListInOrder'
    BY <1>0, <1>1, <2>1 DEF ListInOrder
  <2>4. \A u \in Threads, e \in Entries :
          Owns(u, e)' <=> Owns(u, e) \/ (u = t /\ e = reserved)
    BY <1>1, <2>1 DEF Owns
  <2>5. \A u \in Threads : ~Owns(u, reserved)
    BY <1>1, <1>2 DEF Owns
  <2>6. \A e \in Entries : isUsed'[e] <=> isUsed[e] \/ e = reserved
    BY <1>1, <2>1
  <2>7. HandoverIsClean'
    BY <1>0, <2>1, <2>4, <2>5, <2>6 DEF HandoverIsClean
  <2> QED BY <2>2, <2>3, <2>7 DEF ListInv
<1>6. CASE Push(t)
  <2>1. /\ pc[t] = "push" /\ count = entry[t] /\ count' = count + 1
        /\ pc' = [pc EXCEPT ![t] = "ready"]
        /\ UNCHANGED <<reserved, isUsed, entry, bound, stored, visible>>
        /\ UNCHANGED <<cpc, waiting, cidx, cbound, seen, protected, inside, mostAlive>>
    BY <1>6 DEF Push, signalVars, collectorVars, historyVars
  <2>2. count < reserved /\ count' \in 0 .. MaxEntries
    BY <1>1, <1>2, <2>1
  <2>3. RegistryTypeOK'
    BY <1>0, <1>1, <2>1, <2>2 DEF RegistryTypeOK, ThreadSteps
  <2>4. \A u \in Threads : pc[u] = "push" /\ u # t => entry[u] # entry[t]
    BY <2>1, EntryFacts
  <2>5. ListInOrder'
    <3>1. cbound \in Nat
      BY <1>0 DEF RegistryTypeOK
    <3> QED BY <1>0, <1>1, <2>1, <2>2, <2>4, <3>1 DEF ListInOrder
  <2>6. \A u \in Threads, e \in Entries : Owns(u, e)' = Owns(u, e)
    BY <1>1, <2>1 DEF Owns
  <2>7. HandoverIsClean'
    BY <1>0, <2>1, <2>6 DEF HandoverIsClean
  <2> QED BY <2>3, <2>5, <2>7 DEF ListInv
<1>7. CASE Release(t)
  <2>1. /\ pc[t] = "ready" /\ stored[entry[t]] = NoSignals /\ entry[t] \in Entries
        /\ isUsed' = [isUsed EXCEPT ![entry[t]] = FALSE]
        /\ visible' = [visible EXCEPT ![entry[t]] = NoSignals]
        /\ pc' = [pc EXCEPT ![t] = "off"] /\ entry' = [entry EXCEPT ![t] = 0]
        /\ bound' = [bound EXCEPT ![t] = 0] /\ waiting' = waiting \ {t}
        /\ UNCHANGED <<reserved, count, stored, cpc, cidx, cbound, seen, protected, inside, mostAlive>>
    BY <1>2, <1>7 DEF Release, historyVars
  <2>2. RegistryTypeOK'
    <3>1. /\ isUsed' \in [Entries -> BOOLEAN] /\ pc' \in [Threads -> ThreadSteps]
          /\ entry' \in [Threads -> Nat] /\ bound' \in [Threads -> Nat]
      BY <1>1, <2>1 DEF ThreadSteps
    <3>2. visible' \in [Entries -> Signals]
      BY <1>1, <2>1 DEF Signals, NoSignals
    <3> QED BY <1>0, <2>1, <3>1, <3>2 DEF RegistryTypeOK
  <2>3. ListInOrder'
    BY <1>0, <1>1, <2>1 DEF ListInOrder
  <2>4. \A u \in Threads, e \in Entries : Owns(u, e)' <=> Owns(u, e) /\ u # t
    BY <1>1, <2>1 DEF Owns
  <2>5. \A u \in Threads, e \in Entries : Owns(u, e) /\ u # t => e # entry[t]
    BY <2>1, EntryFacts DEF Owns
  <2>6. \A e \in Entries : /\ isUsed'[e] <=> isUsed[e] /\ e # entry[t]
                           /\ e # entry[t] => visible'[e] = visible[e]
                           /\ e = entry[t] => visible'[e] = NoSignals /\ stored[e] = NoSignals
    BY <1>1, <2>1
  <2>7. \A e \in Entries : Owns(t, e) => e = entry[t]
    BY DEF Owns
  <2>8. HandoverIsClean'
    <3>1. \A e \in Entries, u, v \in Threads : Owns(u, e)' /\ Owns(v, e)' => u = v
      BY <1>0, <2>4 DEF HandoverIsClean
    <3>2. \A e \in Entries : isUsed'[e] <=> \E u \in Threads : Owns(u, e)'
      BY <1>0, <2>4, <2>5, <2>6, <2>7 DEF HandoverIsClean
    <3>3. \A e \in Entries : ~isUsed'[e] => stored'[e] = NoSignals /\ visible'[e] = NoSignals
      BY <1>0, <2>1, <2>6 DEF HandoverIsClean
    <3> QED BY <3>1, <3>2, <3>3 DEF HandoverIsClean
  <2> QED BY <2>2, <2>3, <2>8 DEF ListInv
<1> QED BY <1>3, <1>4, <1>5, <1>6, <1>7

\* What a store of a ready thread does: it changes what that thread shows, nothing
\* else.
LEMMA StoreStep ==
  ASSUME ListInv, NEW t \in Threads,
         Publish(t) \/ Unpublish(t) \/ Enter(t) \/ Leave(t)
  PROVE  /\ pc[t] = "ready" /\ entry[t] \in Entries
         /\ UNCHANGED <<reserved, count, isUsed, visible, pc, entry, bound>>
         /\ UNCHANGED <<cpc, waiting, cidx, cbound, seen, mostAlive>>
         /\ stored' \in [Entries -> Signals]
         /\ \A e \in Entries : e # entry[t] => stored'[e] = stored[e]
         /\ protected' \subseteq protected /\ inside' \subseteq inside
         /\ t \in protected' => stored'[entry[t]].slot = stored[entry[t]].slot \/ stored[entry[t]].slot = NULL
         /\ t \in inside' => stored'[entry[t]].flag = stored[entry[t]].flag \/ stored'[entry[t]].flag = TRUE
<1>1. /\ stored \in [Entries -> Signals]
      /\ \A u \in Threads : pc[u] \in {"push", "ready"} => entry[u] \in Entries
  BY EntryFacts
<1>2. /\ pc[t] = "ready"
      /\ UNCHANGED <<reserved, count, isUsed, visible, pc, entry, bound>>
      /\ UNCHANGED <<cpc, waiting, cidx, cbound, seen, mostAlive>>
      /\ protected' \subseteq protected /\ inside' \subseteq inside
  BY DEF Publish, Unpublish, Enter, Leave, Store, listVars, threadVars, collectorVars
<1>3. entry[t] \in Entries
  BY <1>1, <1>2
<1>4. PICK e \in Entries : e = entry[t]
  BY <1>3
<1>5. stored[e] \in [slot : Threads \cup {NULL}, flag : BOOLEAN]
  BY <1>1 DEF Signals
<1>6. CASE Publish(t)
  <2>1. stored[e].slot = NULL /\ stored' = [stored EXCEPT ![e] = [stored[e] EXCEPT !.slot = t]]
    BY <1>4, <1>6 DEF Publish, Store
  <2>2. stored' \in [Entries -> Signals] /\ stored'[e].flag = stored[e].flag
    BY <1>1, <1>5, <2>1 DEF Signals
  <2> QED BY <1>1, <1>2, <1>3, <1>4, <2>1, <2>2
<1>7. CASE Unpublish(t)
  <2>1. /\ stored' = [stored EXCEPT ![e] = [stored[e] EXCEPT !.slot = NULL]]
        /\ t \notin protected'
    BY <1>4, <1>7 DEF Unpublish, Store
  <2>2. stored' \in [Entries -> Signals] /\ stored'[e].flag = stored[e].flag
    BY <1>1, <1>5, <2>1 DEF Signals
  <2> QED BY <1>1, <1>2, <1>3, <1>4, <2>1, <2>2
<1>8. CASE Enter(t)
  <2>1. stored' = [stored EXCEPT ![e] = [stored[e] EXCEPT !.flag = TRUE]]
    BY <1>4, <1>8 DEF Enter, Store
  <2>2. /\ stored' \in [Entries -> Signals] /\ stored'[e].flag = TRUE
        /\ stored'[e].slot = stored[e].slot
    BY <1>1, <1>5, <2>1 DEF Signals
  <2> QED BY <1>1, <1>2, <1>3, <1>4, <2>1, <2>2
<1>9. CASE Leave(t)
  <2>1. /\ stored' = [stored EXCEPT ![e] = [stored[e] EXCEPT !.flag = FALSE]]
        /\ t \notin inside'
    BY <1>4, <1>9 DEF Leave, Store
  <2>2. stored' \in [Entries -> Signals] /\ stored'[e].slot = stored[e].slot
    BY <1>1, <1>5, <2>1 DEF Signals
  <2> QED BY <1>1, <1>2, <1>3, <1>4, <2>1, <2>2
<1> QED BY <1>6, <1>7, <1>8, <1>9

\* A buffered store that drains makes visible what has been stored.
LEMMA DrainFacts ==
  ASSUME ListInv, NEW e \in Entries, Drain(e)
  PROVE  /\ visible' \in [Entries -> Signals]
         /\ \A x \in Entries : /\ visible'[x].slot \in {visible[x].slot, stored[x].slot}
                               /\ visible'[x].flag \in {visible[x].flag, stored[x].flag}
<1>1. stored \in [Entries -> Signals] /\ visible \in [Entries -> Signals]
  BY EntryFacts
<1>2. \A x \in Entries : /\ stored[x] \in [slot : Threads \cup {NULL}, flag : BOOLEAN]
                         /\ visible[x] \in [slot : Threads \cup {NULL}, flag : BOOLEAN]
  BY <1>1 DEF Signals
<1>3. CASE visible' = [visible EXCEPT ![e].slot = stored[e].slot]
  BY <1>1, <1>2, <1>3 DEF Signals
<1>4. CASE visible' = [visible EXCEPT ![e].flag = stored[e].flag]
  BY <1>1, <1>2, <1>4 DEF Signals
<1> QED BY <1>3, <1>4 DEF Drain

\* What an entry shows concerns its owner only, and the scan only reads.
LEMMA SignalListInv ==
  ASSUME ListInv,
         UNCHANGED <<reserved, count, isUsed, pc, entry, bound>>,
         stored' \in [Entries -> Signals], visible' \in [Entries -> Signals],
         \A e \in Entries : ~isUsed[e] => stored'[e] = NoSignals /\ visible'[e] = NoSignals,
         /\ cpc' \in {"idle", "barrier", "slot", "poll", "done"}
         /\ waiting' \subseteq Threads /\ cidx' \in Nat /\ cbound' \in Nat
         /\ seen' \subseteq Threads /\ protected' \subseteq Threads /\ inside' \subseteq Threads
         /\ mostAlive' = mostAlive
         /\ cpc' \in {"slot", "poll"} => cidx' < cbound' /\ cbound' <= count
  PROVE  ListInv'
<1>0. RegistryTypeOK /\ ListInOrder /\ HandoverIsClean
  BY DEF ListInv
<1>1. RegistryTypeOK'
  BY <1>0 DEF RegistryTypeOK
<1>2. ListInOrder'
  BY <1>0 DEF ListInOrder
<1>3. HandoverIsClean'
  BY <1>0 DEF HandoverIsClean, Owns
<1> QED BY <1>1, <1>2, <1>3 DEF ListInv

\* Every step keeps the list in order and hands its entries over clean.
LEMMA NextListInv == ListInv /\ [Next]_vars => ListInv'
<1> SUFFICES ASSUME ListInv, [Next]_vars PROVE ListInv'
  OBVIOUS
<1>0. RegistryTypeOK /\ ListInOrder /\ HandoverIsClean
  BY DEF ListInv
<1>t. /\ stored \in [Entries -> Signals] /\ visible \in [Entries -> Signals]
      /\ isUsed \in [Entries -> BOOLEAN] /\ count \in 0 .. MaxEntries /\ MaxEntries \in Nat
      /\ \A t \in Threads : pc[t] \in {"push", "ready"} =>
           entry[t] \in Entries /\ isUsed[entry[t]] = TRUE
  BY EntryFacts
<1>c. \A e \in Entries : ~isUsed[e] => stored[e] = NoSignals /\ visible[e] = NoSignals
  BY <1>0 DEF HandoverIsClean
<1>k. /\ cpc \in {"idle", "barrier", "slot", "poll", "done"}
      /\ waiting \subseteq Threads /\ cidx \in Nat /\ cbound \in Nat
      /\ seen \subseteq Threads /\ protected \subseteq Threads /\ inside \subseteq Threads
      /\ mostAlive \in Nat
      /\ cpc \in {"slot", "poll"} => cidx < cbound /\ cbound <= count
  BY <1>0 DEF RegistryTypeOK, ListInOrder
<1>1. CASE UNCHANGED vars
  <2>1. UNCHANGED <<reserved, count, isUsed, pc, entry, bound, stored, visible, cpc, waiting>>
        /\ UNCHANGED <<cidx, cbound, seen, protected, inside, mostAlive>>
    BY <1>1 DEF vars, listVars, signalVars, threadVars, collectorVars, historyVars
  <2> QED BY <1>t, <1>c, <1>k, <2>1, SignalListInv
<1>2. ASSUME NEW t \in Threads, Begin(t) \/ TryClaim(t) \/ Reserve(t) \/ Push(t) \/ Release(t)
      PROVE  ListInv'
  BY <1>2, ThreadListInv
<1>3. ASSUME NEW t \in Threads, Publish(t) \/ Unpublish(t) \/ Enter(t) \/ Leave(t)
      PROVE  ListInv'
  <2>1. /\ UNCHANGED <<reserved, count, isUsed, visible, pc, entry, bound>>
        /\ UNCHANGED <<cpc, waiting, cidx, cbound, seen, mostAlive>>
        /\ stored' \in [Entries -> Signals] /\ pc[t] = "ready"
        /\ \A e \in Entries : e # entry[t] => stored'[e] = stored[e]
        /\ protected' \subseteq protected /\ inside' \subseteq inside
    BY <1>3, StoreStep
  <2>2. isUsed[entry[t]] = TRUE
    BY <1>t, <2>1
  <2>3. \A e \in Entries : ~isUsed[e] => stored'[e] = NoSignals /\ visible'[e] = NoSignals
    BY <1>c, <2>1, <2>2
  <2> QED BY <1>t, <1>k, <2>1, <2>3, SignalListInv
<1>4. ASSUME NEW e \in Entries, Drain(e)
      PROVE  ListInv'
  <2>1. /\ UNCHANGED <<reserved, count, isUsed, stored, pc, entry, bound>>
        /\ UNCHANGED <<cpc, waiting, cidx, cbound, seen, protected, inside, mostAlive>>
    BY <1>4 DEF Drain, listVars, threadVars, collectorVars, historyVars
  <2>2. /\ visible' \in [Entries -> Signals]
        /\ \A x \in Entries : /\ visible'[x].slot \in {visible[x].slot, stored[x].slot}
                              /\ visible'[x].flag \in {visible[x].flag, stored[x].flag}
    BY <1>4, DrainFacts
  <2>3. \A x \in Entries : ~isUsed[x] => visible'[x] = NoSignals
    <3> SUFFICES ASSUME NEW x \in Entries, ~isUsed[x] PROVE visible'[x] = NoSignals
      OBVIOUS
    <3>1. visible'[x] \in [slot : Threads \cup {NULL}, flag : BOOLEAN]
      BY <2>2 DEF Signals
    <3>2. visible'[x].slot = NULL /\ visible'[x].flag = FALSE
      BY <1>c, <2>2 DEF NoSignals
    <3> QED BY <3>1, <3>2 DEF NoSignals
  <2> QED BY <1>t, <1>c, <1>k, <2>1, <2>2, <2>3, SignalListInv
<1>5. ASSUME NEW t \in Threads, Barrier(t)
      PROVE  ListInv'
  <2>1. /\ UNCHANGED <<reserved, count, isUsed, stored, pc, entry, bound>>
        /\ UNCHANGED <<cpc, cidx, cbound, seen, protected, inside, mostAlive>>
        /\ waiting' = waiting \ {t}
        /\ visible' = IF pc[t] = "ready"
                        THEN [visible EXCEPT ![entry[t]] = stored[entry[t]]] ELSE visible
    BY <1>5 DEF Barrier, listVars, threadVars, historyVars
  <2>2. visible' \in [Entries -> Signals]
    BY <1>t, <2>1
  <2>3. \A x \in Entries : ~isUsed[x] => visible'[x] = NoSignals
    BY <1>t, <1>c, <2>1
  <2> QED BY <1>t, <1>c, <1>k, <2>1, <2>2, <2>3, SignalListInv
<1>6. CASE BeginBarrier \/ BeginScan \/ ScanSlots \/ Poll \/ EndScan
  <2>1. UNCHANGED <<reserved, count, isUsed, stored, visible, pc, entry, bound, mostAlive>>
    BY <1>6 DEF BeginBarrier, BeginScan, ScanSlots, Poll, EndScan, listVars, signalVars,
                threadVars, historyVars
  <2>2. /\ cpc' \in {"idle", "barrier", "slot", "poll", "done"}
        /\ waiting' \subseteq Threads /\ cidx' \in Nat /\ cbound' \in Nat
        /\ protected' \subseteq Threads /\ inside' \subseteq Threads
        /\ cpc' \in {"slot", "poll"} => cidx' < cbound' /\ cbound' <= count
    BY <1>6, <1>k, <1>t
    DEF BeginBarrier, BeginScan, ScanSlots, Poll, EndScan, ScanBound, historyVars, Alive
  <2>3. seen' \subseteq Threads
    <3>1. CASE ScanSlots
      <4>1. cidx \in Entries
        BY <1>k, <1>t, <3>1 DEF ScanSlots, Entries
      <4>2. visible[cidx].slot \in Threads \cup {NULL}
        BY <1>t, <4>1 DEF Signals
      <4> QED BY <1>k, <3>1, <4>2 DEF ScanSlots
    <3>2. CASE ~ScanSlots
      BY <1>6, <1>k, <3>2 DEF BeginBarrier, BeginScan, Poll, EndScan
    <3> QED BY <3>1, <3>2
  <2> QED BY <1>t, <1>c, <1>k, <2>1, <2>2, <2>3, SignalListInv
<1> QED BY <1>1, <1>2, <1>3, <1>4, <1>5, <1>6 DEF Next, ThreadStep

-----------------------------------------------------------------------------
\* A step that leaves the readers of the scan what they are, and the scan where it
\* is; drained stores and barriers only make more of them visible.
LEMMA ReadersStay ==
  ASSUME ListInv, ScanInv,
         UNCHANGED <<cpc, cidx, cbound, seen>>,
         protected' \subseteq protected, inside' \subseteq inside,
         \A t \in protected' :
           /\ pc'[t] = "ready" /\ entry'[t] = entry[t] /\ stored'[entry[t]].slot = t
           /\ visible'[entry[t]].slot \in {visible[entry[t]].slot, t}
           /\ cpc = "barrier" /\ t \in waiting \ waiting' => visible'[entry[t]].slot = t,
         \A t \in inside' :
           /\ pc'[t] = "ready" /\ entry'[t] = entry[t] /\ stored'[entry[t]].flag = TRUE
           /\ visible'[entry[t]].flag \in {visible[entry[t]].flag, TRUE}
           /\ cpc = "barrier" /\ t \in waiting \ waiting' => visible'[entry[t]].flag = TRUE
  PROVE  ScanInv'
<1>0. HistoryIsTrue /\ ScanInOrder
  BY DEF ScanInv
<1>1. HistoryIsTrue'
  BY DEF HistoryIsTrue
<1>2. ScanInOrder'
  <2>1. cpc = "idle" => protected' = {} /\ inside' = {}
    BY <1>0 DEF ScanInOrder
  <2>2. ASSUME cpc = "barrier", NEW t \in protected'
        PROVE  t \in waiting' \/ visible'[entry'[t]].slot = t
    BY <1>0, <2>2 DEF ScanInOrder
  <2>3. ASSUME cpc = "barrier", NEW t \in inside'
        PROVE  t \in waiting' \/ visible'[entry'[t]].flag = TRUE
    BY <1>0, <2>3 DEF ScanInOrder
  <2>4. ASSUME cpc \in {"slot", "poll", "done"}, NEW t \in protected'
        PROVE  /\ visible'[entry'[t]].slot = t
               /\ entry'[t] < cbound
               /\ t \in seen \/ cidx <= entry'[t]
               /\ cpc = "poll" => t \in seen \/ cidx < entry'[t]
    <3>1. t \in protected /\ entry'[t] = entry[t]
      OBVIOUS
    <3>2. visible'[entry[t]].slot \in {visible[entry[t]].slot, t}
      OBVIOUS
    <3> QED BY <1>0, <2>4, <3>1, <3>2 DEF ScanInOrder
  <2>5. ASSUME cpc \in {"slot", "poll", "done"}, NEW t \in inside'
        PROVE  /\ visible'[entry'[t]].flag = TRUE
               /\ entry'[t] < cbound
               /\ cidx <= entry'[t]
    <3>1. t \in inside /\ entry'[t] = entry[t]
      OBVIOUS
    <3>2. visible'[entry[t]].flag \in {visible[entry[t]].flag, TRUE}
      OBVIOUS
    <3> QED BY <1>0, <2>5, <3>1, <3>2 DEF ScanInOrder
  <2>6. cpc = "done" => cbound <= cidx
    BY <1>0 DEF ScanInOrder
  <2> QED BY <2>1, <2>2, <2>3, <2>4, <2>5, <2>6 DEF ScanInOrder
<1> QED BY <1>1, <1>2 DEF ScanInv

\* No thread step hides a reader that the barrier found: claims and pushes are of
\* threads that are no readers yet, an entry has one owner, and who releases his has
\* nothing published.
LEMMA ThreadScanInv ==
  ASSUME ListInv, ScanInv, NEW t \in Threads, ThreadStep(t)
  PROVE  ScanInv'
<1>0. HistoryIsTrue /\ RegistryTypeOK
  BY DEF ScanInv, ListInv
<1>1. /\ pc \in [Threads -> ThreadSteps] /\ entry \in [Threads -> Nat]
      /\ stored \in [Entries -> Signals] /\ visible \in [Entries -> Signals]
      /\ protected \subseteq Threads /\ inside \subseteq Threads
      /\ \A u \in Threads : pc[u] \in {"push", "ready"} => entry[u] \in Entries
      /\ \A u, v \in Threads : /\ pc[u] \in {"push", "ready"} /\ pc[v] \in {"push", "ready"}
                               /\ entry[u] = entry[v]
                               => u = v
  BY <1>0, EntryFacts DEF RegistryTypeOK
<1>2. /\ \A u \in protected : pc[u] = "ready" /\ stored[entry[u]].slot = u /\ entry[u] \in Entries
      /\ \A u \in inside : pc[u] = "ready" /\ stored[entry[u]].flag = TRUE /\ entry[u] \in Entries
  BY <1>0, <1>1 DEF HistoryIsTrue
<1>3. CASE Begin(t) \/ TryClaim(t) \/ Reserve(t) \/ Push(t)
  <2>1. /\ UNCHANGED <<cpc, waiting, cidx, cbound, seen, stored, visible, protected, inside>>
        /\ pc[t] # "ready"
    BY <1>3 DEF Begin, TryClaim, Reserve, Push, signalVars, collectorVars, historyVars
  <2>2. \A u \in Threads : u # t => pc'[u] = pc[u] /\ entry'[u] = entry[u]
    BY <1>1, <1>3 DEF Begin, TryClaim, Reserve, Push
  <2> QED BY <1>2, <2>1, <2>2, <1>1, ReadersStay
<1>4. CASE Release(t)
  <2>1. /\ pc[t] = "ready" /\ stored[entry[t]] = NoSignals
        /\ visible' = [visible EXCEPT ![entry[t]] = stored[entry[t]]]
        /\ waiting' = waiting \ {t}
        /\ UNCHANGED <<stored, cpc, cidx, cbound, seen, protected, inside>>
    BY <1>4 DEF Release, historyVars
  <2>2. \A u \in Threads : u # t => pc'[u] = pc[u] /\ entry'[u] = entry[u]
    BY <1>1, <1>4 DEF Release
  <2>3. t \notin protected /\ t \notin inside
    BY <1>1, <1>2, <2>1, RegistryAssumption DEF NoSignals
  <2>4. \A u \in protected \cup inside : u # t /\ u \in Threads /\ visible'[entry[u]] = visible[entry[u]]
    BY <1>1, <1>2, <2>1, <2>3
  <2> QED BY <1>2, <2>1, <2>2, <2>4, ReadersStay
<1>5. CASE Publish(t) \/ Unpublish(t) \/ Enter(t) \/ Leave(t)
  <2>1. /\ pc[t] = "ready"
        /\ UNCHANGED <<pc, entry, visible, cpc, waiting, cidx, cbound, seen>>
        /\ \A e \in Entries : e # entry[t] => stored'[e] = stored[e]
        /\ protected' \subseteq protected /\ inside' \subseteq inside
        /\ t \in protected' => stored'[entry[t]].slot = stored[entry[t]].slot \/ stored[entry[t]].slot = NULL
        /\ t \in inside' => stored'[entry[t]].flag = stored[entry[t]].flag \/ stored'[entry[t]].flag = TRUE
    BY <1>5, StoreStep
  <2>2. \A u \in protected' : stored'[entry[u]].slot = u
    BY <1>1, <1>2, <2>1, RegistryAssumption
  <2>3. \A u \in inside' : stored'[entry[u]].flag = TRUE
    BY <1>1, <1>2, <2>1
  <2> QED BY <1>2, <2>1, <2>2, <2>3, ReadersStay
<1> QED BY <1>3, <1>4, <1>5 DEF ThreadStep

\* The steps of the collector and of the store buffers.
LEMMA CollectorScanInv ==
  ASSUME ListInv, ScanInv,
         \/ \E e \in Entries : Drain(e)
         \/ \E t \in Threads : Barrier(t)
         \/ BeginBarrier \/ BeginScan \/ ScanSlots \/ Poll \/ EndScan
  PROVE  ScanInv'
<1>0. HistoryIsTrue /\ ScanInOrder /\ RegistryTypeOK /\ ListInOrder
  BY DEF ScanInv, ListInv
<1>1. /\ entry \in [Threads -> Nat]
      /\ stored \in [Entries -> Signals] /\ visible \in [Entries -> Signals]
      /\ protected \subseteq Threads /\ inside \subseteq Threads
      /\ cidx \in Nat /\ cbound \in Nat
      /\ \A u \in Threads : pc[u] \in {"push", "ready"} => entry[u] \in Entries
      /\ \A u, v \in Threads : /\ pc[u] \in {"push", "ready"} /\ pc[v] \in {"push", "ready"}
                               /\ entry[u] = entry[v]
                               => u = v
  BY <1>0, EntryFacts DEF RegistryTypeOK
<1>c. count \in Nat
  BY EntryFacts
<1>2. /\ \A u \in protected : pc[u] = "ready" /\ stored[entry[u]].slot = u /\ entry[u] \in Entries
      /\ \A u \in inside : pc[u] = "ready" /\ stored[entry[u]].flag = TRUE /\ entry[u] \in Entries
  BY <1>0, <1>1 DEF HistoryIsTrue
<1>3. ASSUME NEW e \in Entries, Drain(e)
      PROVE  ScanInv'
  <2>1. UNCHANGED <<pc, entry, stored, cpc, waiting, cidx, cbound, seen, protected, inside>>
    BY <1>3 DEF Drain, threadVars, collectorVars, historyVars
  <2>2. \A x \in Entries : /\ visible'[x].slot \in {visible[x].slot, stored[x].slot}
                           /\ visible'[x].flag \in {visible[x].flag, stored[x].flag}
    BY <1>3, DrainFacts
  <2> QED BY <1>2, <2>1, <2>2, ReadersStay
<1>4. ASSUME NEW t \in Threads, Barrier(t)
      PROVE  ScanInv'
  <2>1. /\ UNCHANGED <<pc, entry, stored, cpc, cidx, cbound, seen, protected, inside>>
        /\ waiting' = waiting \ {t}
        /\ visible' = IF pc[t] = "ready"
                        THEN [visible EXCEPT ![entry[t]] = stored[entry[t]]] ELSE visible
    BY <1>4 DEF Barrier, threadVars, historyVars
  <2>2. \A u \in protected \cup inside :
          /\ u = t => visible'[entry[u]] = stored[entry[u]]
          /\ u # t => visible'[entry[u]] = visible[entry[u]]
    BY <1>1, <1>2, <2>1
  <2>3. \A u \in protected :
          /\ visible'[entry[u]].slot \in {visible[entry[u]].slot, u}
          /\ u \in waiting \ waiting' => visible'[entry[u]].slot = u
    BY <1>2, <2>1, <2>2
  <2>4. \A u \in inside :
          /\ visible'[entry[u]].flag \in {visible[entry[u]].flag, TRUE}
          /\ u \in waiting \ waiting' => visible'[entry[u]].flag = TRUE
    BY <1>2, <2>1, <2>2
  <2> QED BY <1>2, <2>1, <2>3, <2>4, ReadersStay
<1>5. CASE BeginBarrier
  <2>1. /\ cpc' = "barrier" /\ waiting' = Alive
        /\ protected' = {u \in Alive : pc[u] = "ready" /\ stored[entry[u]].slot = u}
        /\ inside' = {u \in Alive : pc[u] = "ready" /\ stored[entry[u]].flag}
        /\ UNCHANGED <<pc, entry, stored>>
    BY <1>5 DEF BeginBarrier, threadVars, signalVars
  <2>2. HistoryIsTrue'
    <3>1. \A u \in inside' : stored[entry[u]].flag = TRUE
      <4>1. \A u \in inside' : u \in Threads /\ pc[u] = "ready" /\ stored[entry[u]].flag
        BY <2>1 DEF Alive
      <4>2. \A u \in inside' : stored[entry[u]].flag \in BOOLEAN
        BY <1>1, <4>1 DEF Signals
      <4> QED BY <4>1, <4>2
    <3> QED BY <2>1, <3>1 DEF HistoryIsTrue
  <2>3. ScanInOrder'
    BY <2>1 DEF ScanInOrder
  <2> QED BY <2>2, <2>3 DEF ScanInv
<1>6. CASE BeginScan
  <2>1. /\ cpc = "barrier" /\ waiting = {} /\ cidx' = 0 /\ cbound' = count
        /\ cpc' = IF count > 0 THEN "slot" ELSE "done"
        /\ UNCHANGED <<pc, entry, stored, visible, seen, protected, inside>>
    BY <1>6 DEF BeginScan, ScanBound, threadVars, signalVars, historyVars
  <2>2. \A u \in protected \cup inside : entry[u] < count /\ entry[u] \in Nat
    BY <1>0, <1>1, <1>2 DEF ListInOrder
  <2>3. ScanInOrder'
    BY <1>0, <1>1, <1>c, <2>1, <2>2 DEF ScanInOrder
  <2>4. HistoryIsTrue'
    BY <1>0, <2>1 DEF HistoryIsTrue
  <2> QED BY <2>3, <2>4 DEF ScanInv
<1>7. CASE ScanSlots
  <2>1. /\ cpc = "slot" /\ cpc' = "poll" /\ seen' = seen \cup ({visible[cidx].slot} \ {NULL})
        /\ UNCHANGED <<pc, entry, stored, visible, cidx, cbound, protected, inside>>
    BY <1>7 DEF ScanSlots, threadVars, signalVars, historyVars
  <2>2. \A u \in protected : u \in seen' \/ cidx < entry[u]
    <3> SUFFICES ASSUME NEW u \in protected, ~(cidx < entry[u]) PROVE u \in seen'
      OBVIOUS
    <3>1. u \in seen \/ entry[u] = cidx
      BY <1>0, <1>1, <2>1 DEF ScanInOrder
    <3>2. visible[entry[u]].slot = u /\ u # NULL
      BY <1>0, <1>1, <2>1, RegistryAssumption DEF ScanInOrder
    <3> QED BY <2>1, <3>1, <3>2
  <2>3. ScanInOrder'
    BY <1>0, <1>1, <2>1, <2>2 DEF ScanInOrder
  <2>4. HistoryIsTrue'
    BY <1>0, <2>1 DEF HistoryIsTrue
  <2> QED BY <2>3, <2>4 DEF ScanInv
<1>8. CASE Poll
  <2>1. /\ cpc = "poll" /\ ~visible[cidx].flag /\ cidx' = cidx + 1
        /\ cpc' = IF cidx + 1 < cbound THEN "slot" ELSE "done"
        /\ UNCHANGED <<pc, entry, stored, visible, cbound, seen, protected, inside>>
    BY <1>8 DEF Poll, threadVars, signalVars, historyVars
  <2>2. /\ \A u \in protected : u \in seen \/ cidx < entry[u]
        /\ \A u \in inside : cidx < entry[u]
    BY <1>0, <1>1, <2>1 DEF ScanInOrder
  <2>3. ScanInOrder'
    BY <1>0, <1>1, <2>1, <2>2 DEF ScanInOrder
  <2>4. HistoryIsTrue'
    BY <1>0, <2>1 DEF HistoryIsTrue
  <2> QED BY <2>3, <2>4 DEF ScanInv
<1>9. CASE EndScan
  BY <1>9 DEF EndScan, ScanInv, HistoryIsTrue, ScanInOrder
<1> QED BY <1>3, <1>4, <1>5, <1>6, <1>7, <1>8, <1>9

\* Every step keeps what the scan relies on.
LEMMA NextScanInv == ListInv /\ ScanInv /\ [Next]_vars => ScanInv'
<1> SUFFICES ASSUME ListInv, ScanInv, [Next]_vars PROVE ScanInv'
  OBVIOUS
<1>1. CASE UNCHANGED vars
  BY <1>1 DEF vars, signalVars, threadVars, collectorVars, historyVars, ScanInv, HistoryIsTrue,
              ScanInOrder
<1>2. CASE Next
  BY <1>2, ThreadScanInv, CollectorScanInv DEF Next
<1> QED BY <1>1, <1>2

-----------------------------------------------------------------------------
\* Sets of threads can be counted.
LEMMA CountFacts ==
  ASSUME NEW S \in SUBSET Threads
  PROVE  /\ Cardinality(S) \in Nat
         /\ \A T \in SUBSET S : Cardinality(T) <= Cardinality(S)
         /\ \A t \in S : Cardinality(S) >= 1 /\ Cardinality(S \ {t}) = Cardinality(S) - 1
         /\ \A t \in Threads \ S : Cardinality(S \cup {t}) = Cardinality(S) + 1
<1>1. IsFiniteSet(S)
  BY RegistryAssumption, FS_Subset
<1>2. Cardinality(S) \in Nat
  BY <1>1, FS_CardinalityType
<1>3. \A T \in SUBSET S : Cardinality(T) <= Cardinality(S)
  BY <1>1, FS_Subset
<1>4. ASSUME NEW t \in S
      PROVE  Cardinality(S) >= 1 /\ Cardinality(S \ {t}) = Cardinality(S) - 1
  <2>1. IsFiniteSet(S \ {t}) /\ Cardinality(S \ {t}) = Cardinality(S) - 1
    BY <1>1, FS_RemoveElement
  <2>2. Cardinality(S \ {t}) \in Nat
    BY <2>1, FS_CardinalityType
  <2> QED BY <1>2, <2>1, <2>2
<1>5. ASSUME NEW t \in Threads \ S
      PROVE  Cardinality(S \cup {t}) = Cardinality(S) + 1
  BY <1>1, FS_AddElement
<1> QED BY <1>2, <1>3, <1>4, <1>5

\* A search has not passed as many entries as there have been threads.
LEMMA SearchIsShort ==
  ASSUME ListInv, SizeInv, NEW t \in Threads, pc[t] = "claim"
  PROVE  entry[t] < mostAlive
<1>1. entry[t] \in Nat /\ mostAlive \in Nat
  BY EntryFacts DEF ListInv, RegistryTypeOK
<1>2. t \in Ahead(t, entry[t]) /\ Ahead(t, entry[t]) \in SUBSET Threads
  BY <1>1 DEF Ahead, Alive
<1>3. Cardinality(Ahead(t, entry[t])) >= 1 /\ Cardinality(Ahead(t, entry[t])) \in Nat
  BY <1>2, CountFacts
<1>4. Cardinality(Ahead(t, entry[t])) <= mostAlive - entry[t]
  BY <1>1 DEF SizeInv
<1> QED BY <1>1, <1>3, <1>4

\* A step after which no search has more threads in its way, no more threads search
\* and no entry is added.
LEMMA SizeShrinks ==
  ASSUME ListInv, SizeInv,
         UNCHANGED <<reserved, count, mostAlive>>,
         Alive' \subseteq Alive, Pushers' = Pushers,
         \A u \in Threads : pc'[u] = "claim" => pc[u] = "claim" /\ entry'[u] = entry[u],
         \A u \in Threads, j \in Nat : pc'[u] = "claim" => Ahead(u, j)' \subseteq Ahead(u, j),
         \A b \in Nat : ShortSearches(b)' \subseteq ShortSearches(b)
  PROVE  SizeInv'
<1>1. mostAlive \in Nat /\ reserved \in Nat /\ entry \in [Threads -> Nat]
  BY EntryFacts DEF ListInv, RegistryTypeOK
<1>2. /\ Alive \in SUBSET Threads
      /\ \A u, j : Ahead(u, j) \in SUBSET Threads
      /\ \A b : ShortSearches(b) \in SUBSET Threads
  BY DEF Alive, Ahead, ShortSearches
<1>3. \A S \in SUBSET Threads : /\ Cardinality(S) \in Nat
                                /\ \A T \in SUBSET S : /\ Cardinality(T) \in Nat
                                                       /\ Cardinality(T) <= Cardinality(S)
  BY CountFacts
<1>4. Cardinality(Alive)' <= mostAlive'
  <2>1. Cardinality(Alive') <= Cardinality(Alive) /\ Cardinality(Alive') \in Nat /\ Cardinality(Alive) \in Nat
    BY <1>2, <1>3
  <2> QED BY <1>1, <2>1 DEF SizeInv
<1>5. reserved' = count' + Cardinality(Pushers)'
  BY DEF SizeInv
<1>6. ASSUME NEW u \in Threads, NEW j \in Nat, pc'[u] = "claim", j <= entry'[u]
      PROVE  Cardinality(Ahead(u, j)') <= mostAlive' - j
  <2>1. Cardinality(Ahead(u, j)) <= mostAlive - j
    BY <1>6 DEF SizeInv
  <2>2. /\ Cardinality(Ahead(u, j)') <= Cardinality(Ahead(u, j))
        /\ Cardinality(Ahead(u, j)') \in Nat /\ Cardinality(Ahead(u, j)) \in Nat
    BY <1>2, <1>3, <1>6
  <2> QED BY <1>1, <2>1, <2>2
<1>7. ASSUME NEW b \in Nat \ {0}, mostAlive' <= b
      PROVE  reserved' + Cardinality(ShortSearches(b)') <= b - 1 + mostAlive'
  <2>1. reserved + Cardinality(ShortSearches(b)) <= b - 1 + mostAlive
    BY <1>7 DEF SizeInv
  <2>2. /\ Cardinality(ShortSearches(b)') <= Cardinality(ShortSearches(b))
        /\ Cardinality(ShortSearches(b)') \in Nat /\ Cardinality(ShortSearches(b)) \in Nat
    BY <1>2, <1>3
  <2> QED BY <1>1, <2>1, <2>2
<1> QED BY <1>4, <1>5, <1>6, <1>7 DEF SizeInv

\* A thread begins to search: the list it will search is at least as long as anybody
\* else's, and while that is shorter than b, threads and entries together are few.
LEMMA BeginSizeInv ==
  ASSUME ListInv, SizeInv, NEW t \in Threads, Begin(t)
  PROVE  SizeInv'
<1>0. ListInOrder
  BY DEF ListInv
<1>1. /\ mostAlive \in Nat /\ reserved \in Nat /\ count \in Nat
      /\ entry \in [Threads -> Nat] /\ bound \in [Threads -> Nat]
      /\ pc \in [Threads -> ThreadSteps]
  BY EntryFacts DEF ListInv, RegistryTypeOK
<1>2. /\ pc[t] = "off" /\ pc' = [pc EXCEPT ![t] = "claim"]
      /\ bound' = [bound EXCEPT ![t] = count] /\ UNCHANGED <<entry, reserved, count>>
      /\ entry[t] = 0
      /\ mostAlive' = IF Cardinality(Alive) + 1 > mostAlive THEN Cardinality(Alive) + 1 ELSE mostAlive
  BY <1>0 DEF Begin, listVars, ListInOrder
<1>3. Alive \in SUBSET Threads /\ t \notin Alive /\ Alive' = Alive \cup {t}
  BY <1>1, <1>2 DEF Alive
<1>4. /\ Cardinality(Alive) \in Nat /\ Cardinality(Alive') = Cardinality(Alive) + 1
      /\ \A T \in SUBSET Alive' : Cardinality(T) <= Cardinality(Alive')
  BY <1>3, CountFacts
<1>5. mostAlive' \in Nat /\ Cardinality(Alive') <= mostAlive' /\ mostAlive <= mostAlive'
  BY <1>1, <1>2, <1>4
<1>6. Pushers' = Pushers
  BY <1>1, <1>2 DEF Pushers
<1>7. ASSUME NEW u \in Threads, NEW j \in Nat, pc'[u] = "claim", j <= entry'[u]
      PROVE  Cardinality(Ahead(u, j)') <= mostAlive' - j
  <2>1. CASE j = 0
    <3>1. Ahead(u, j)' \in SUBSET (Alive')
      BY DEF Ahead
    <3>2. Cardinality(Ahead(u, j)') <= Cardinality(Alive') /\ Cardinality(Ahead(u, j)') \in Nat
      BY <1>3, <1>4, <3>1, CountFacts
    <3> QED BY <1>4, <1>5, <2>1, <3>2
  <2>2. CASE j # 0
    <3>1. u # t /\ pc[u] = "claim" /\ j <= entry[u] /\ bound[u] <= count /\ bound'[u] = bound[u]
      BY <1>0, <1>1, <1>2, <1>7, <2>2 DEF ListInOrder
    <3>2. \A v \in Threads : v # t => /\ pc'[v] = pc[v] /\ bound'[v] = bound[v]
      BY <1>1, <1>2
    <3>3. ~(entry'[t] >= j) /\ ~(bound'[t] < bound'[u])
      BY <1>1, <1>2, <2>2, <3>1
    <3>4. Ahead(u, j)' = Ahead(u, j)
      BY <1>2, <1>3, <3>1, <3>2, <3>3 DEF Ahead
    <3>5. Ahead(u, j) \in SUBSET Threads
      BY <1>3 DEF Ahead
    <3>6. Cardinality(Ahead(u, j)) <= mostAlive - j /\ Cardinality(Ahead(u, j)) \in Nat
      BY <3>1, <3>5, CountFacts DEF SizeInv
    <3> QED BY <1>1, <1>5, <3>4, <3>6
  <2> QED BY <2>1, <2>2
<1>8. ASSUME NEW b \in Nat \ {0}, mostAlive' <= b
      PROVE  reserved' + Cardinality(ShortSearches(b)') <= b - 1 + mostAlive'
  <2>1. CASE count < b
    <3>1. /\ Pushers \in SUBSET Alive' /\ ShortSearches(b)' \in SUBSET Alive'
          /\ Pushers \cap ShortSearches(b)' = {}
      BY <1>1, <1>2, <1>6 DEF Pushers, ShortSearches, Alive
    <3>2. IsFiniteSet(Pushers) /\ IsFiniteSet(ShortSearches(b)')
      BY RegistryAssumption, FS_Subset DEF Pushers, ShortSearches
    <3>3. /\ Cardinality(Pushers) \in Nat /\ Cardinality(ShortSearches(b)') \in Nat
          /\ Cardinality(Pushers \cup ShortSearches(b)') =
               Cardinality(Pushers) + Cardinality(ShortSearches(b)')
                 - Cardinality(Pushers \cap ShortSearches(b)')
      BY <3>2, FS_Union, FS_CardinalityType
    <3>4. Cardinality(Pushers \cap ShortSearches(b)') = 0
      BY <3>1, FS_EmptySet
    <3>5. Cardinality(Pushers \cup ShortSearches(b)') <= Cardinality(Alive')
      BY <1>4, <3>1
    <3>6. Cardinality(Pushers) + Cardinality(ShortSearches(b)') <= mostAlive'
      BY <1>4, <1>5, <3>3, <3>4, <3>5
    <3>7. reserved' = count + Cardinality(Pushers)
      BY <1>2 DEF SizeInv
    <3> QED BY <1>1, <1>5, <2>1, <3>3, <3>6, <3>7
  <2>2. CASE ~(count < b)
    <3>1. ShortSearches(b)' = ShortSearches(b)
      BY <1>1, <1>2, <2>2 DEF ShortSearches
    <3>2. Cardinality(ShortSearches(b)) \in Nat
      BY CountFacts DEF ShortSearches
    <3>3. mostAlive <= b
      BY <1>1, <1>5, <1>8
    <3>4. reserved + Cardinality(ShortSearches(b)) <= b - 1 + mostAlive
      BY <3>3 DEF SizeInv
    <3> QED BY <1>1, <1>2, <1>5, <3>1, <3>2, <3>4
  <2> QED BY <2>1, <2>2
<1>9. reserved' = count' + Cardinality(Pushers)'
  BY <1>2, <1>6 DEF SizeInv
<1> QED BY <1>5, <1>7, <1>8, <1>9 DEF SizeInv

\* A search that goes past an owned entry leaves the owner behind.
LEMMA PassSizeInv ==
  ASSUME ListInv, SizeInv, NEW t \in Threads, TryClaim(t), isUsed[entry[t]]
  PROVE  SizeInv'
<1>0. ListInOrder /\ HandoverIsClean
  BY DEF ListInv
<1>1. /\ mostAlive \in Nat /\ entry \in [Threads -> Nat] /\ bound \in [Threads -> Nat]
  BY EntryFacts DEF ListInv, RegistryTypeOK
<1>2. /\ pc[t] = "claim" /\ entry[t] < bound[t]
      /\ entry' = [entry EXCEPT ![t] = @ + 1]
      /\ UNCHANGED <<pc, bound, reserved, count, mostAlive>>
  BY DEF TryClaim, OldIsUsed, historyVars
<1>3. PICK e \in Entries : e = entry[t] /\ e \in Nat
  BY <1>1, <1>2, EntryFacts
<1>4. PICK v \in Threads : Owns(v, e)
  BY <1>0, <1>3 DEF HandoverIsClean
<1>5. v # t /\ entry[v] = e /\ pc[v] # "claim" /\ v \in Alive /\ entry'[v] = e
  BY <1>1, <1>2, <1>4 DEF Owns, Alive
<1>6. /\ Alive' = Alive /\ Pushers' = Pushers
      /\ \A b : ShortSearches(b)' = ShortSearches(b)
  BY <1>2 DEF Alive, Pushers, ShortSearches
<1>7. /\ entry'[t] = e + 1 /\ \A u \in Threads : u # t => entry'[u] = entry[u]
  BY <1>1, <1>2, <1>3
<1>8. \A u, j : Ahead(u, j) \in SUBSET Threads
  BY DEF Ahead, Alive
<1>9. Cardinality(Ahead(t, e + 1)') <= mostAlive - (e + 1) /\ Ahead(t, e + 1)' \in SUBSET Threads
  <2>1. v \in Ahead(t, e) /\ Cardinality(Ahead(t, e)) <= mostAlive - e
    BY <1>2, <1>3, <1>5 DEF Ahead, SizeInv
  <2>2. Ahead(t, e + 1)' \subseteq Ahead(t, e) \ {v}
    <3> SUFFICES ASSUME NEW w \in Ahead(t, e + 1)' PROVE w \in Ahead(t, e) \ {v}
      OBVIOUS
    <3>1. w \in Alive /\ w \in Threads
      BY <1>6 DEF Ahead, Alive
    <3>2. entry'[w] >= e + 1 \/ (pc[w] = "claim" /\ bound[w] < bound[t])
      BY <1>2 DEF Ahead
    <3>3. w # v
      BY <1>3, <1>5, <3>2
    <3>4. entry[w] >= e \/ (pc[w] = "claim" /\ bound[w] < bound[t])
      BY <1>1, <1>3, <1>7, <3>1, <3>2
    <3> QED BY <3>1, <3>3, <3>4 DEF Ahead
  <2>3. /\ Cardinality(Ahead(t, e)) \in Nat
        /\ Cardinality(Ahead(t, e) \ {v}) = Cardinality(Ahead(t, e)) - 1
    BY <1>8, <2>1, CountFacts
  <2>4. Ahead(t, e) \ {v} \in SUBSET Threads
    BY <1>8
  <2>5. /\ Cardinality(Ahead(t, e + 1)') <= Cardinality(Ahead(t, e) \ {v})
        /\ Cardinality(Ahead(t, e + 1)') \in Nat
    BY <2>2, <2>4, CountFacts
  <2> QED BY <1>1, <1>3, <2>1, <2>2, <2>3, <2>4, <2>5
<1>10. ASSUME NEW u \in Threads, NEW j \in Nat, pc'[u] = "claim", j <= entry'[u]
       PROVE  Cardinality(Ahead(u, j)') <= mostAlive' - j
  <2>1. CASE j = e + 1 /\ ~(bound[t] < bound[u])
    <3>1. Ahead(u, j)' \subseteq Ahead(t, e + 1)'
      <4> SUFFICES ASSUME NEW w \in Ahead(u, j)' PROVE w \in Ahead(t, e + 1)'
        OBVIOUS
      <4>1. w \in Alive' /\ w \in Threads
        BY DEF Ahead, Alive
      <4>2. entry'[w] >= j \/ (pc'[w] = "claim" /\ bound'[w] < bound'[u])
        BY DEF Ahead
      <4>3. bound'[w] < bound'[u] => bound'[w] < bound'[t]
        BY <1>1, <1>2, <2>1, <4>1
      <4> QED BY <2>1, <4>1, <4>2, <4>3 DEF Ahead
    <3>2. Cardinality(Ahead(u, j)') <= Cardinality(Ahead(t, e + 1)')
          /\ Cardinality(Ahead(u, j)') \in Nat /\ Cardinality(Ahead(t, e + 1)') \in Nat
      BY <1>9, <3>1, CountFacts
    <3> QED BY <1>1, <1>2, <1>3, <1>9, <2>1, <3>2
  <2>2. CASE j # e + 1 \/ bound[t] < bound[u]
    <3>1. Ahead(u, j)' = Ahead(u, j)
      <4>1. entry'[t] >= j \/ (pc[t] = "claim" /\ bound[t] < bound[u]) <=>
            entry[t] >= j \/ (pc[t] = "claim" /\ bound[t] < bound[u])
        BY <1>2, <1>3, <1>7, <2>2
      <4> QED BY <1>2, <1>6, <1>7, <4>1 DEF Ahead
    <3>2. j <= entry[u]
      BY <1>1, <1>3, <1>7, <1>10, <2>2
    <3> QED BY <1>2, <1>10, <3>1, <3>2 DEF SizeInv
  <2> QED BY <2>1, <2>2
<1>11. /\ Cardinality(Alive)' <= mostAlive' /\ reserved' = count' + Cardinality(Pushers)'
       /\ \A b \in Nat \ {0} : mostAlive' <= b =>
            reserved' + Cardinality(ShortSearches(b)') <= b - 1 + mostAlive'
  BY <1>2, <1>6 DEF SizeInv
<1> QED BY <1>10, <1>11 DEF SizeInv

\* A search that ends with an append has searched a short list: what it might append
\* was counted.
LEMMA ReserveSizeInv ==
  ASSUME ListInv, SizeInv, NEW t \in Threads, Reserve(t)
  PROVE  SizeInv'
<1>0. ListInOrder
  BY DEF ListInv
<1>1. /\ mostAlive \in Nat /\ reserved \in Nat /\ count \in Nat
      /\ entry \in [Threads -> Nat] /\ bound \in [Threads -> Nat]
      /\ pc \in [Threads -> ThreadSteps]
  BY EntryFacts DEF ListInv, RegistryTypeOK
<1>2. /\ pc[t] = "claim" /\ entry[t] = bound[t] /\ reserved' = reserved + 1
      /\ pc' = [pc EXCEPT ![t] = "push"] /\ entry' = [entry EXCEPT ![t] = reserved]
      /\ UNCHANGED <<count, bound, mostAlive>>
  BY DEF Reserve, historyVars
<1>3. bound[t] < mostAlive
  BY <1>2, SearchIsShort
<1>4. /\ Alive' = Alive /\ Pushers' = Pushers \cup {t} /\ t \notin Pushers
      /\ Pushers \in SUBSET Threads
  BY <1>1, <1>2 DEF Alive, Pushers
<1>5. \A u, j : Ahead(u, j) \in SUBSET Threads
  BY DEF Ahead, Alive
<1>6. ASSUME NEW u \in Threads, NEW j \in Nat, pc'[u] = "claim", j <= entry'[u]
      PROVE  Cardinality(Ahead(u, j)') <= mostAlive' - j
  <2>1. u # t /\ pc[u] = "claim" /\ j <= entry[u] /\ entry[u] <= bound[u]
    BY <1>0, <1>1, <1>2, <1>6 DEF ListInOrder
  <2>2. t \in Ahead(u, j)
    BY <1>1, <1>2, <2>1 DEF Ahead, Alive
  <2>3. Ahead(u, j)' \subseteq Ahead(u, j)
    BY <1>1, <1>2, <1>4, <2>2 DEF Ahead
  <2>4. Cardinality(Ahead(u, j)) <= mostAlive - j
    BY <2>1 DEF SizeInv
  <2>5. /\ Cardinality(Ahead(u, j)') <= Cardinality(Ahead(u, j))
        /\ Cardinality(Ahead(u, j)') \in Nat /\ Cardinality(Ahead(u, j)) \in Nat
    BY <1>5, <2>3, CountFacts
  <2> QED BY <1>1, <1>2, <2>4, <2>5
<1>7. ASSUME NEW b \in Nat \ {0}, mostAlive' <= b
      PROVE  reserved' + Cardinality(ShortSearches(b)') <= b - 1 + mostAlive'
  <2>1. t \in ShortSearches(b) /\ ShortSearches(b) \in SUBSET Threads
    BY <1>1, <1>2, <1>3, <1>7 DEF ShortSearches
  <2>2. ShortSearches(b)' = ShortSearches(b) \ {t}
    BY <1>1, <1>2 DEF ShortSearches
  <2>3. /\ Cardinality(ShortSearches(b) \ {t}) = Cardinality(ShortSearches(b)) - 1
        /\ Cardinality(ShortSearches(b)) \in Nat
    BY <2>1, CountFacts
  <2>4. reserved + Cardinality(ShortSearches(b)) <= b - 1 + mostAlive
    BY <1>2, <1>7 DEF SizeInv
  <2> QED BY <1>1, <1>2, <2>2, <2>3, <2>4
<1>8. reserved' = count' + Cardinality(Pushers)'
  <2>1. Cardinality(Pushers') = Cardinality(Pushers) + 1 /\ Cardinality(Pushers) \in Nat
    BY <1>4, CountFacts
  <2> QED BY <1>1, <1>2, <2>1 DEF SizeInv
<1>9. Cardinality(Alive)' <= mostAlive'
  BY <1>2, <1>4 DEF SizeInv
<1> QED BY <1>6, <1>7, <1>8, <1>9 DEF SizeInv

\* Every step keeps the list within its bound.
LEMMA NextSizeInv == ListInv /\ SizeInv /\ [Next]_vars => SizeInv'
<1> SUFFICES ASSUME ListInv, SizeInv, [Next]_vars PROVE SizeInv'
  OBVIOUS
<1>1. /\ mostAlive \in Nat /\ reserved \in Nat /\ count \in Nat
      /\ entry \in [Threads -> Nat] /\ bound \in [Threads -> Nat]
      /\ pc \in [Threads -> ThreadSteps]
  BY EntryFacts DEF ListInv, RegistryTypeOK
<1>2. ASSUME NEW t \in Threads, TryClaim(t), ~isUsed[entry[t]]
      PROVE  SizeInv'
  <2>1. /\ pc[t] = "claim" /\ pc' = [pc EXCEPT ![t] = "ready"]
        /\ UNCHANGED <<entry, bound, reserved, count, mostAlive>>
    BY <1>2 DEF TryClaim, OldIsUsed, historyVars
  <2>2. \A u \in Threads : /\ pc'[u] = "claim" => pc[u] = "claim"
                           /\ pc'[u] # "off" <=> pc[u] # "off"
                           /\ pc'[u] = "push" <=> pc[u] = "push"
    BY <1>1, <2>1
  <2>3. Alive' = Alive /\ Pushers' = Pushers
    BY <2>2 DEF Alive, Pushers
  <2>4. /\ \A u, j : Ahead(u, j)' \subseteq Ahead(u, j)
        /\ \A b : ShortSearches(b)' \subseteq ShortSearches(b)
    BY <2>1, <2>2 DEF Ahead, Alive, ShortSearches
  <2> QED BY <2>1, <2>2, <2>3, <2>4, SizeShrinks
<1>3. ASSUME NEW t \in Threads, Push(t)
      PROVE  SizeInv'
  <2>1. /\ pc[t] = "push" /\ pc' = [pc EXCEPT ![t] = "ready"] /\ count' = count + 1
        /\ UNCHANGED <<entry, bound, reserved, mostAlive>>
    BY <1>3 DEF Push, historyVars
  <2>2. \A u \in Threads : /\ pc'[u] = "claim" <=> pc[u] = "claim"
                           /\ pc'[u] # "off" <=> pc[u] # "off"
                           /\ pc'[u] = "push" <=> pc[u] = "push" /\ u # t
    BY <1>1, <2>1
  <2>3. Pushers' = Pushers \ {t} /\ t \in Pushers /\ Pushers \in SUBSET Threads
    BY <2>1, <2>2 DEF Pushers
  <2>4. reserved' = count' + Cardinality(Pushers)'
    <3>1. Cardinality(Pushers') = Cardinality(Pushers) - 1 /\ Cardinality(Pushers) \in Nat
      BY <2>3, CountFacts
    <3> QED BY <1>1, <2>1, <3>1 DEF SizeInv
  <2>5. /\ Alive' = Alive
        /\ \A u, j : Ahead(u, j)' = Ahead(u, j)
        /\ \A b : ShortSearches(b)' = ShortSearches(b)
    BY <2>1, <2>2 DEF Ahead, Alive, ShortSearches
  <2> QED BY <2>1, <2>2, <2>4, <2>5 DEF SizeInv
<1>4. ASSUME NEW t \in Threads, Release(t)
      PROVE  SizeInv'
  <2>1. /\ pc[t] = "ready" /\ pc' = [pc EXCEPT ![t] = "off"]
        /\ entry' = [entry EXCEPT ![t] = 0] /\ bound' = [bound EXCEPT ![t] = 0]
        /\ UNCHANGED <<reserved, count, mostAlive>>
    BY <1>4 DEF Release, historyVars
  <2>2. \A u \in Threads : /\ pc'[u] # "off" => u # t
                           /\ u # t => pc'[u] = pc[u] /\ entry'[u] = entry[u] /\ bound'[u] = bound[u]
    BY <1>1, <2>1
  <2>3. Alive' \subseteq Alive /\ Pushers' = Pushers
    BY <2>1, <2>2 DEF Alive, Pushers
  <2>4. /\ \A u \in Threads, j \in Nat : pc'[u] = "claim" => Ahead(u, j)' \subseteq Ahead(u, j)
        /\ \A b : ShortSearches(b)' \subseteq ShortSearches(b)
    BY <2>2 DEF Ahead, Alive, ShortSearches
  <2> QED BY <2>1, <2>2, <2>3, <2>4, SizeShrinks
<1>5. ASSUME UNCHANGED <<pc, entry, bound, reserved, count, mostAlive>>
      PROVE  SizeInv'
  <2>1. /\ Alive' = Alive /\ Pushers' = Pushers
        /\ \A u, j : Ahead(u, j)' = Ahead(u, j)
        /\ \A b : ShortSearches(b)' = ShortSearches(b)
    BY <1>5 DEF Ahead, Alive, Pushers, ShortSearches
  <2> QED BY <1>5, <2>1, SizeShrinks
<1>6. ASSUME NEW t \in Threads, ThreadStep(t)
      PROVE  SizeInv'
  <2>1. CASE Publish(t) \/ Unpublish(t) \/ Enter(t) \/ Leave(t)
    BY <1>5, <2>1, StoreStep
  <2> QED BY <1>2, <1>3, <1>4, <1>6, <2>1, BeginSizeInv, PassSizeInv, ReserveSizeInv DEF ThreadStep
<1>7. ASSUME UNCHANGED vars \/ (Next /\ ~\E t \in Threads : ThreadStep(t))
      PROVE  SizeInv'
  <2>1. UNCHANGED <<pc, entry, bound, reserved, count, mostAlive>>
    BY <1>7 DEF Next, vars, Drain, Barrier, BeginBarrier, BeginScan, ScanSlots, Poll, EndScan,
                listVars, threadVars, historyVars
  <2> QED BY <1>5, <2>1
<1> QED BY <1>6, <1>7

\* Nobody has begun to search when the program starts.
LEMMA InitSizeInv == Init => SizeInv
<1> SUFFICES ASSUME Init PROVE SizeInv
  OBVIOUS
<1>1. /\ Alive = {} /\ Pushers = {} /\ \A b : ShortSearches(b) = {}
      /\ \A u \in Threads : pc[u] # "claim"
  BY DEF Init, Alive, Pushers, ShortSearches
<1>2. Cardinality({}) = 0
  BY FS_EmptySet
<1> QED BY <1>1, <1>2 DEF Init, SizeInv

-----------------------------------------------------------------------------
\* The invariant holds in every reachable state.
LEMMA AlwaysRegistered == Spec => [](ListInv /\ ScanInv /\ SizeInv)
<1>1. Init => ScanInv
  BY DEF Init, ScanInv, HistoryIsTrue, ScanInOrder
<1> QED BY <1>1, InitListInv, InitSizeInv, NextListInv, NextScanInv, NextSizeInv, PTL DEF Spec

\* The state of the list of hazard data is well typed; in particular searches, owners
\* and the scan stay within the list.
THEOREM RegistryTypeCorrect == Spec => []RegistryTypeOK
<1>1. ListInv => RegistryTypeOK
  BY DEF ListInv
<1> QED BY <1>1, AlwaysRegistered, PTL

\* obtain_per_thread_shared_hazard_data and release_hazard_data hand entries over from
\* thread to thread without a lock: one owner at a time, and nothing left behind.
THEOREM HandoversAreClean == Spec => []HandoverIsClean
<1>1. ListInv => HandoverIsClean
  BY DEF ListInv
<1> QED BY <1>1, AlwaysRegistered, PTL

\* traverse_atomic_reader_signals sees every hazard pointer that was published before
\* its heavy barrier began and is still published when it ends, and waits for every
\* critical section of that time, while threads come and go and the list grows.
THEOREM ScansCoverReaders == Spec => []ScanCoversReaders
<1>1. ListInv /\ ScanInv => ScanCoversReaders
  <2> SUFFICES ASSUME ListInv, ScanInv, cpc = "done"
               PROVE  protected \subseteq seen /\ inside = {}
    BY DEF ScanCoversReaders
  <2>1. /\ entry \in [Threads -> Nat] /\ cidx \in Nat /\ cbound \in Nat
        /\ protected \subseteq Threads /\ inside \subseteq Threads
    BY DEF ListInv, RegistryTypeOK
  <2>2. ScanInOrder
    BY DEF ScanInv
  <2> QED BY <2>1, <2>2 DEF ScanInOrder
<1> QED BY <1>1, AlwaysRegistered, PTL

\* However threads begin and end, SHARED_HAZARD_DATA has fewer than twice as many
\* entries as threads have been alive at the same time.
THEOREM RegistryBounded == Spec => []RegistryIsBounded
<1>1. ListInv /\ SizeInv => RegistryIsBounded
  <2> SUFFICES ASSUME ListInv, SizeInv, mostAlive > 0
               PROVE  reserved < 2 * mostAlive
    BY DEF RegistryIsBounded
  <2>1. mostAlive \in Nat \ {0} /\ reserved \in Nat
    BY EntryFacts DEF ListInv, RegistryTypeOK
  <2>2. reserved + Cardinality(ShortSearches(mostAlive)) <= mostAlive - 1 + mostAlive
    BY <2>1 DEF SizeInv
  <2>3. Cardinality(ShortSearches(mostAlive)) \in Nat
    BY CountFacts DEF ShortSearches
  <2> QED BY <2>1, <2>2, <2>3
<1> QED BY <1>1, AlwaysRegistered, PTL
=============================================================================
