----------------------------- MODULE SdarcHeap -----------------------------
(***************************************************************************)
(* The memory that Sdarc manages: SdarcInner allocations, their sharded    *)
(* counters, and every place of the program that owns a strong reference.  *)
(*                                                                         *)
(* Which user thread owns a handle does not matter: an Sdarc is Send and   *)
(* Sync, and the shard an operation works on is whatever curr_shard_index  *)
(* returns at that moment, which may change between any two calls.  So     *)
(* handles form one pool and every operation picks its shard freely.       *)
(***************************************************************************)
EXTENDS TaggedCounter, FiniteSets

CONSTANTS
  DataObjects, \* addresses an SdarcInner<T> is allocated at; reused after free
  WeakObjects, \* addresses an SdarcInner<WeakSdarcInner<T>> is allocated at
  Handles,     \* variables of user code that can own an Sdarc or a WeakSdarc
  Cells,       \* AtomicSdarc / AtomicNullableSdarc variables (statics)
  ShardCount,  \* get_shard_count()
  MaxNegative, \* bound: one shard's count stays at or above -MaxNegative
  NULL

\* The allocator may use an address for both, one after the other.
Objects == DataObjects \cup WeakObjects

ASSUME ShardCountAssumption == ShardCount \in Nat \ {0}

ASSUME MaxNegativeAssumption == MaxNegative \in Nat

ASSUME FiniteAssumption ==
  IsFiniteSet(Objects) /\ IsFiniteSet(Handles) /\ IsFiniteSet(Cells)

\* The kinds of place are told apart, and NULL is none of the values.
ASSUME DistinctAssumption ==
  /\ Handles \cap Cells = {}
  /\ (Handles \cup Cells) \cap (Objects \X {"weak_inner_ref", "data"}) = {}
  /\ NULL \notin Objects \cup Handles \cup Cells \cup (Objects \X {"weak_inner_ref", "data"})

Shards == 0 .. ShardCount - 1

\* The two fields of an SdarcInner that can own another Sdarc.
Fields == Objects \X {"weak_inner_ref", "data"}

\* Everything that can own one strong reference.
Places == Handles \cup Cells \cup Fields

OptObject == Objects \cup {NULL}

VARIABLES
  kind,      \* what lives at an address
  counters,  \* SdarcInner::counters, one tagged word per shard
  holds,     \* the SdarcInner a place owns a reference to, or NULL
  backRef    \* WeakSdarcInner::back_ref

heapVars == <<kind, counters, holds, backRef>>

\* "data": an SdarcInner<T>.  "weak": an SdarcInner<WeakSdarcInner<T>>.
\* "freeing": its Box is being dropped by the collector.
Kinds == {"unallocated", "data", "weak", "freeing"}

HeapTypeOK ==
  /\ kind \in [Objects -> Kinds]
  /\ counters \in [Objects -> [Shards -> Int]]
  /\ holds \in [Places -> OptObject]
  /\ backRef \in [Objects -> OptObject]

HeapInit ==
  /\ kind = [o \in Objects |-> "unallocated"]
  /\ counters = [o \in Objects |-> [s \in Shards |-> NewCounter]]
  /\ holds = [p \in Places |-> NULL]
  /\ backRef = [o \in Objects |-> NULL]

Live(o) == kind[o] \in {"data", "weak"}

WeakField(o) == <<o, "weak_inner_ref">>

DataField(o) == <<o, "data">>

Holders(o) == {p \in Places : holds[p] = o}

-----------------------------------------------------------------------------
\* AtomicTaggedCounter operations on one shard of o.

Increment(o, s) == counters' = [counters EXCEPT ![o][s] = IncrementRefCount(@)]

\* The compare_exchange loop of decrement_ref_count_and_set_tag_release: the
\* failed attempts change nothing, the successful one is this step.  The bound
\* keeps the model finite: a shard's count is then also bounded from above, and
\* a drop always has a shard to work on because the sum is positive.
Decrement(o, s) ==
  /\ RefCount(counters[o][s]) > -MaxNegative
  /\ counters' = [counters EXCEPT ![o][s] = DecrementRefCountAndSetTag(@)]

\* SdarcInner::new: counters all zero except the current shard's, which is 1.
FreshCounters(s) ==
  [x \in Shards |-> IF x = s THEN IncrementRefCount(NewCounter) ELSE NewCounter]
=============================================================================
