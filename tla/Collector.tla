----------------------------- MODULE Collector -----------------------------
(***************************************************************************)
(* The collector thread (src/src/collector.rs).  One outer iteration takes *)
(* the newly allocated counters, then runs passes: a heavy barrier, a scan *)
(* of every reader's signals, an update of the tracked counters and the    *)
(* freeing of those found dead twice.  A shallow iteration has one pass, a *)
(* deep one repeats passes over the objects that look dead or that freeing *)
(* has just released.                                                      *)
(*                                                                         *)
(* Every read of a counter shard is a step of its own: there is no atomic  *)
(* read of all shards, and the tags exist because of that.                 *)
(***************************************************************************)
EXTENDS ReaderSignals

CONSTANT MaxInner  \* bound on the extra passes of a deep iteration (100000)

ASSUME MaxInnerAssumption == MaxInner \in Nat

VARIABLES
  pending,     \* pending_to_track, per shard
  state,       \* tracked_counters: state of each tracked object
  toRecheck,   \* counters_to_recheck, the collector's thread local
  cpc,         \* what the collector does next
  deep,        \* do_deep_collection
  inner,       \* loop_counter
  waiting,     \* threads the barrier or the scan has not passed yet
  thr,         \* thread whose signals are being scanned
  hazards,     \* hazard_ptr_set
  todo,        \* objects this pass still has to update
  newRecheck,  \* new_to_re_check
  toFree,      \* to_free
  obj,         \* object being updated or freed
  idx,         \* shard_index, or index of a hazard slot
  sum          \* sum of the counts read so far

trackVars == <<pending, state, toRecheck>>
passVars == <<deep, inner, hazards, todo, newRecheck, toFree>>
scanVars == <<waiting, thr>>
readVars == <<obj, idx, sum>>
collectorVars == <<trackVars, cpc, passVars, scanVars, readVars>>

TrackedStates == {"untracked", "default", "recheck", "ready"}

CollectorSteps == {"park", "take", "barrier", "scan", "update", "precheck",
                   "clear", "recheck", "weakref", "free", "drop"}

CollectorTypeOK ==
  /\ pending \in [Shards -> SUBSET Objects]
  /\ state \in [Objects -> TrackedStates]
  /\ toRecheck \in SUBSET Objects
  /\ cpc \in CollectorSteps
  /\ deep \in BOOLEAN
  /\ inner \in 0 .. MaxInner
  /\ waiting \in SUBSET Threads
  /\ thr \in Threads \cup {NULL}
  /\ hazards \in SUBSET Objects
  /\ todo \in SUBSET Objects
  /\ newRecheck \in SUBSET Objects
  /\ toFree \in SUBSET Objects
  /\ obj \in OptObject
  /\ idx \in Nat
  /\ cpc \in {"take", "precheck", "clear", "recheck"} => idx \in Shards
  /\ cpc \in {"precheck", "clear", "recheck", "weakref", "drop"} => obj \in Objects
  /\ cpc \in {"barrier", "scan"} => waiting # {}
  /\ cpc = "scan" => idx \in 0 .. SlotCount
  /\ thr # NULL => thr \in waiting
  /\ sum \in Int

CollectorInit ==
  /\ pending = [s \in Shards |-> {}]
  /\ state = [o \in Objects |-> "untracked"]
  /\ toRecheck = {}
  /\ cpc = "park"
  /\ deep = FALSE
  /\ inner = 0
  /\ waiting = {}
  /\ thr = NULL
  /\ hazards = {}
  /\ todo = {}
  /\ newRecheck = {}
  /\ toFree = {}
  /\ obj = NULL
  /\ idx = 0
  /\ sum = 0

Tracked == {o \in Objects : state[o] # "untracked"}

\* Mutant: the shard loop runs one index too far.
LastShardPlusOne == ShardCount

LastShard == ShardCount - 1

-----------------------------------------------------------------------------
\* Mutant: the new object is put into the pending list of every shard.
SubmitToAll(o, s) == pending' = [r \in Shards |-> pending[r] \cup {o}]

\* on_new_sdarc_allocated: the new object goes to the pending list of the
\* current shard.
Submit(o, s) == pending' = [pending EXCEPT ![s] = @ \cup {o}]

\* collector_thread_main wakes up.  The iteration is deep when somebody waits
\* for it in collector_update_now_and_wait, which may or may not be so: who waits,
\* and that it makes the iteration deep, is in CollectorLoop.
BeginOuter ==
  /\ cpc = "park"
  /\ cpc' = "take"
  /\ deep' \in BOOLEAN
  /\ inner' = 0
  /\ idx' = 0
  /\ UNCHANGED <<heapVars, signalVars, trackVars, scanVars>>
  /\ UNCHANGED <<hazards, todo, newRecheck, toFree, obj, sum>>

\* traverse_atomic_reader_signals begins: the heavy barrier and then the scan
\* go over every reader thread.
StartPass(objects) ==
  /\ todo' = objects
  /\ waiting' = Threads
  /\ cpc' = IF Threads = {} THEN "update" ELSE "barrier"

\* take_new_counters_to_track: one shard's lock at a time.
TakeNew ==
  /\ cpc = "take"
  /\ pending' = [pending EXCEPT ![idx] = {}]
  /\ state' = [o \in Objects |-> IF o \in pending[idx] THEN "default" ELSE state[o]]
  /\ IF idx = LastShard
       THEN /\ idx' = 0
            /\ StartPass({o \in Objects : state'[o] # "untracked"})
       ELSE /\ idx' = idx + 1
            /\ UNCHANGED <<cpc, todo, waiting>>
  /\ UNCHANGED <<heapVars, signalVars, toRecheck, thr>>
  /\ UNCHANGED <<deep, inner, hazards, newRecheck, toFree, obj, sum>>

-----------------------------------------------------------------------------
\* membarrier2::heavy(): every thread executes a full barrier at some moment
\* of the call, in any order.
Barrier(t) ==
  /\ cpc = "barrier"
  /\ t \in waiting
  /\ FullBarrier(t)
  /\ IF waiting = {t}
       THEN waiting' = Threads /\ cpc' = "scan"
       ELSE waiting' = waiting \ {t} /\ UNCHANGED cpc
  /\ UNCHANGED <<heapVars, signals, guard, trackVars, passVars, thr, readVars>>

\* load_acquire of the next hazard slot of t.  Threads registered in any order.
ScanSlot(t) ==
  /\ cpc = "scan"
  /\ t \in waiting
  /\ thr \in {NULL, t}
  /\ idx < SlotCount
  /\ hazards' = hazards \cup HazardIn(t, idx)
  /\ thr' = t
  /\ idx' = idx + 1
  /\ UNCHANGED <<heapVars, signalVars, trackVars, cpc, waiting, obj, sum>>
  /\ UNCHANGED <<deep, inner, todo, newRecheck, toFree>>

\* collector_poll_until_false returns.  While the flag reads true it spins.
Poll(t) ==
  /\ cpc = "scan"
  /\ thr = t
  /\ idx = SlotCount
  /\ FlagReadsFalse(t)
  /\ waiting' = waiting \ {t}
  /\ thr' = NULL
  /\ idx' = 0
  /\ cpc' = IF waiting = {t} THEN "update" ELSE "scan"
  /\ UNCHANGED <<heapVars, signalVars, trackVars, passVars, obj, sum>>

-----------------------------------------------------------------------------
\* The verdict of update_state is s: the loop goes on to the next object.
Conclude(o, s) ==
  /\ state' = [state EXCEPT ![o] = s]
  /\ newRecheck' = IF deep /\ s = "recheck" THEN newRecheck \cup {o} ELSE newRecheck
  /\ toFree' = IF s = "ready" THEN toFree \cup {o} ELSE toFree
  /\ cpc' = "update"
  /\ obj' = NULL
  /\ idx' = 0
  /\ sum' = 0

\* The counters to re-check may have been freed or not be tracked yet.
SkipUntracked(o) ==
  /\ cpc = "update"
  /\ o \in todo \ Tracked
  /\ todo' = todo \ {o}
  /\ UNCHANGED <<heapVars, signalVars, trackVars, scanVars, readVars, cpc>>
  /\ UNCHANGED <<deep, inner, hazards, newRecheck, toFree>>

\* A hazard pointer protects o: its state is reset.
KeepHazardous(o) ==
  /\ cpc = "update"
  /\ o \in todo \cap Tracked \cap hazards
  /\ todo' = todo \ {o}
  /\ state' = [state EXCEPT ![o] = "default"]
  /\ UNCHANGED <<heapVars, signalVars, pending, toRecheck, scanVars, readVars, cpc>>
  /\ UNCHANGED <<deep, inner, hazards, newRecheck, toFree>>

\* update_state(o) starts.  It panics when o is ready to be freed: the pass would
\* not go on.  (That does not happen, because the pass that finds o ready frees it.)
UpdateState(o) ==
  /\ cpc = "update"
  /\ o \in (todo \cap Tracked) \ hazards
  /\ state[o] # "ready"
  /\ todo' = todo \ {o}
  /\ cpc' = IF state[o] = "default" THEN "precheck" ELSE "recheck"
  /\ obj' = o
  /\ UNCHANGED <<heapVars, signalVars, trackVars, scanVars, idx, sum>>
  /\ UNCHANGED <<deep, inner, hazards, newRecheck, toFree>>

\* One shard of read_ref_count_sum_relaxed.
Precheck ==
  LET total == sum + RefCount(counters[obj][idx]) IN
  /\ cpc = "precheck"
  /\ IF idx # LastShard
       THEN /\ idx' = idx + 1
            /\ sum' = total
            /\ UNCHANGED <<cpc, state, newRecheck, toFree, obj>>
       ELSE IF total # 0
              THEN Conclude(obj, "default")
              ELSE /\ cpc' = "clear"
                   /\ idx' = 0
                   /\ sum' = 0
                   /\ UNCHANGED <<state, newRecheck, toFree, obj>>
  /\ UNCHANGED <<heapVars, signalVars, pending, toRecheck, scanVars>>
  /\ UNCHANGED <<deep, inner, hazards, todo>>

\* Mutant: the first zero is believed.
ReadyAtOnce(total) == IF total = 0 THEN "ready" ELSE "default"

\* "counters tagged and observed sum is zero, going to re-check"
AfterClear(total) == IF total = 0 THEN "recheck" ELSE "default"

\* One shard of clear_tags_and_read_ref_count_sum_acquire.
ClearTags ==
  LET total == sum + RefCount(counters[obj][idx]) IN
  /\ cpc = "clear"
  /\ counters' = [counters EXCEPT ![obj][idx] = ClearTag(@)]
  /\ IF idx # LastShard
       THEN /\ idx' = idx + 1
            /\ sum' = total
            /\ UNCHANGED <<cpc, state, newRecheck, toFree, obj>>
       ELSE Conclude(obj, AfterClear(total))
  /\ UNCHANGED <<kind, holds, backRef, signalVars, pending, toRecheck, scanVars>>
  /\ UNCHANGED <<deep, inner, hazards, todo>>

\* One shard of read_ref_count_sum_if_all_tags_unset_acquire.
Recheck ==
  LET word == counters[obj][idx]
      total == sum + RefCount(word)
  IN
  /\ cpc = "recheck"
  /\ IF Tag(word)
       THEN Conclude(obj, "default")
       ELSE IF idx # LastShard
              THEN /\ idx' = idx + 1
                   /\ sum' = total
                   /\ UNCHANGED <<cpc, state, newRecheck, toFree, obj>>
              ELSE IF total # 0
                     THEN Conclude(obj, "default")
                     ELSE /\ cpc' = "weakref"
                          /\ idx' = 0
                          /\ sum' = 0
                          /\ UNCHANGED <<state, newRecheck, toFree, obj>>
  /\ UNCHANGED <<heapVars, signalVars, pending, toRecheck, scanVars>>
  /\ UNCHANGED <<deep, inner, hazards, todo>>

\* Mutant: a weak reference to the object is overlooked.
WeakOverlooked(o) == TRUE

\* No weak reference can produce a new reference to o.
WeakUnreachable(o) ==
  holds[WeakField(o)] = NULL \/ backRef[holds[WeakField(o)]] = NULL

\* Mutant: the object is freed right after its back_ref is cleared.
ClearWeakBackRefAndFree ==
  /\ cpc = "weakref"
  /\ Conclude(obj, "ready")
  /\ backRef' = [w \in Objects |-> IF backRef[w] = obj THEN NULL ELSE backRef[w]]
  /\ UNCHANGED <<kind, counters, holds, signalVars, pending, toRecheck, scanVars>>
  /\ UNCHANGED <<deep, inner, hazards, todo>>

\* clear_weak_backref_impl, and what update_state makes of its result.
ClearWeakBackRef ==
  /\ cpc = "weakref"
  /\ IF WeakUnreachable(obj)
       THEN Conclude(obj, "ready") /\ UNCHANGED backRef
       ELSE /\ Conclude(obj, "recheck")
            /\ backRef' = [backRef EXCEPT ![holds[WeakField(obj)]] = NULL]
  /\ UNCHANGED <<kind, counters, holds, signalVars, pending, toRecheck, scanVars>>
  /\ UNCHANGED <<deep, inner, hazards, todo>>

EndUpdate ==
  /\ cpc = "update"
  /\ todo = {}
  /\ cpc' = "free"
  /\ UNCHANGED <<heapVars, signalVars, trackVars, passVars, scanVars, readVars>>

-----------------------------------------------------------------------------
\* free_pointers removes o from the tracked counters and drops its Box.
BeginFree(o) ==
  /\ cpc = "free"
  /\ o \in toFree
  /\ toFree' = toFree \ {o}
  /\ state' = [state EXCEPT ![o] = "untracked"]
  /\ kind' = [kind EXCEPT ![o] = "freeing"]
  /\ cpc' = "drop"
  /\ obj' = o
  /\ UNCHANGED <<counters, holds, backRef, signalVars, pending, toRecheck, scanVars>>
  /\ UNCHANGED <<deep, inner, hazards, todo, newRecheck, idx, sum>>

\* Mutant: in the collector thread a drop is a request to re-check and no more.
DropFieldUncounted(f, s) ==
  /\ cpc = "drop"
  /\ f \in {WeakField(obj), DataField(obj)}
  /\ f = DataField(obj) => holds[WeakField(obj)] = NULL
  /\ holds[f] # NULL
  /\ toRecheck' = toRecheck \cup {holds[f]}
  /\ holds' = [holds EXCEPT ![f] = NULL]
  /\ UNCHANGED <<kind, counters, backRef, signalVars, pending, state, cpc, passVars>>
  /\ UNCHANGED <<scanVars, readVars>>

\* Drop of an Sdarc in the collector thread: on_sdarc_drop, then the decrement.
\* Fields drop in declaration order, weak_inner_ref before data.
DropField(f, s) ==
  /\ cpc = "drop"
  /\ f \in {WeakField(obj), DataField(obj)}
  /\ f = DataField(obj) => holds[WeakField(obj)] = NULL
  /\ holds[f] # NULL
  /\ toRecheck' = toRecheck \cup {holds[f]}
  /\ Decrement(holds[f], s)
  /\ holds' = [holds EXCEPT ![f] = NULL]
  /\ UNCHANGED <<kind, backRef, signalVars, pending, state, cpc, passVars>>
  /\ UNCHANGED <<scanVars, readVars>>

\* The memory is returned: the address may be allocated again.
EndFree ==
  /\ cpc = "drop"
  /\ holds[WeakField(obj)] = NULL
  /\ holds[DataField(obj)] = NULL
  /\ kind' = [kind EXCEPT ![obj] = "unallocated"]
  /\ counters' = [counters EXCEPT ![obj] = [s \in Shards |-> NewCounter]]
  /\ backRef' = [backRef EXCEPT ![obj] = NULL]
  /\ cpc' = "free"
  /\ obj' = NULL
  /\ UNCHANGED <<holds, signalVars, trackVars, passVars, scanVars, idx, sum>>

\* The pass is over; a deep iteration goes on with what there is to re-check.
\* When the iteration ends, collector_thread_main notifies its waiters and parks.
EndPass ==
  LET next == newRecheck \cup toRecheck IN
  /\ cpc = "free"
  /\ toFree = {}
  /\ toRecheck' = {}
  /\ newRecheck' = {}
  /\ hazards' = {}
  /\ IF deep /\ next # {} /\ inner < MaxInner
       THEN inner' = inner + 1 /\ StartPass(next) /\ UNCHANGED deep
       ELSE inner' = 0 /\ deep' = FALSE /\ cpc' = "park" /\ UNCHANGED <<todo, waiting>>
  /\ UNCHANGED <<heapVars, signalVars, pending, state, toFree, thr, readVars>>

\* Every step of the collector thread.
CollectorStep ==
  \/ BeginOuter
  \/ TakeNew
  \/ \E t \in Threads : Barrier(t)
  \/ \E t \in Threads : ScanSlot(t)
  \/ \E t \in Threads : Poll(t)
  \/ \E o \in Objects : SkipUntracked(o)
  \/ \E o \in Objects : KeepHazardous(o)
  \/ \E o \in Objects : UpdateState(o)
  \/ Precheck
  \/ ClearTags
  \/ Recheck
  \/ ClearWeakBackRef
  \/ EndUpdate
  \/ \E o \in Objects : BeginFree(o)
  \/ \E f \in Fields, s \in Shards : DropField(f, s)
  \/ EndFree
  \/ EndPass
=============================================================================
