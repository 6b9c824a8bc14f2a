---------------------------- MODULE SdarcSafety ----------------------------
(***************************************************************************)
(* The safety properties of Sdarc: no use after free, no lost or invented  *)
(* reference, and the assertions the source makes at run time.             *)
(***************************************************************************)
EXTENDS Sdarc, ShardSum

StrongCount(o) == CountSum(counters[o], ShardCount)

\* The callers of compare_and_set that have installed o in a cell and not yet
\* counted the cell's reference (atomic_sdarc.rs:337-349).
OwedIncrements(o) == {t \in Threads : op[t].pc = "cas" /\ op[t].ptr = o}

\* The strong count sum is exactly the number of owners, minus the increments
\* compare_and_set still owes: no interleaving of clone, drop, swap, load_owned,
\* upgrade, downgrade and the dropping of a freed object's fields loses or
\* invents a reference, however often a thread changes its shard in between.
RefCountExact ==
  \A o \in Objects :
    Live(o) => StrongCount(o) = Cardinality(Holders(o)) - Cardinality(OwedIncrements(o))

\* No use after free: whatever owns, borrows or is about to increment an object
\* finds it allocated, and so does a weak back_ref and the collector.
OwnedIsLive ==
  \A p \in Places : holds[p] # NULL => Live(holds[p])

GuardedIsLive ==
  \A o \in Objects : Guarded(o) => Live(o)

\* "No need to use critical section here, because at this time at least one
\* strong reference of `then_set` exists" (atomic_sdarc.rs:343): the object that
\* compare_and_set still has to count is allocated.
CasTargetIsLive ==
  \A t \in Threads : op[t].pc = "cas" => Live(op[t].ptr)

LoadedIsLive ==
  \A t \in Threads : op[t].pc \in {"increment", "cas"} => Live(op[t].ptr)

BackRefIsLive ==
  \A w \in Objects : kind[w] = "weak" /\ backRef[w] # NULL => kind[backRef[w]] = "data"

NoDangling == OwnedIsLive /\ GuardedIsLive /\ LoadedIsLive /\ BackRefIsLive

\* Every allocated object is in tracked_counters or in one pending list, never
\* in two of these (the assert at collector.rs:487), and nothing freed is in any:
\* no object escapes the collector and none is registered twice.
TrackedExactlyOnce ==
  \A o \in Objects :
    /\ Live(o) <=> state[o] # "untracked" \/ \E s \in Shards : o \in pending[s]
    /\ \A s \in Shards : o \in pending[s] =>
         /\ state[o] = "untracked"
         /\ \A r \in Shards : o \in pending[r] => r = s

\* "In RequiresReChecking state, no tag is set, then counter sum should not be
\* negative": the assert at collector.rs:211, when the last shard is read.
RecheckSumNotNegative ==
  cpc = "recheck" /\ idx = LastShard =>
    LET word == counters[obj][idx] IN Tag(word) \/ sum + RefCount(word) >= 0

\* "WeakSdarcInner's backref is not cleared": the assert in the Drop of
\* WeakSdarcInner (weak_sdarc.rs:29) holds, and no memory is freed that a weak
\* reference still points back to.
BackRefClearedAtDrop ==
  \A o \in Objects : kind[o] = "freeing" =>
    /\ backRef[o] = NULL
    /\ \A w \in Objects : backRef[w] # o
=============================================================================
