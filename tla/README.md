# A TLA+ development of sdarc

`sdarc` (`src/src/`) is a sharded, deferred reference-counting pointer for Rust.
An `Sdarc<T>` owns a strong reference to an `SdarcInner<T>`; the reference count
is spread over one counter per shard (per CPU), so that clone and drop touch
only the shard of the CPU they run on. Nobody but a background *collector*
thread ever adds the shards up, and it frees an object only after it has found
it dead in two consecutive passes. `WeakSdarc` gives weak references,
`AtomicSdarc`/`AtomicNullableSdarc` give atomic cells whose readers are protected
by hazard pointers and by a critical section flag.

The development models the pointer types, the readers' signals and the collector
as one state machine, model-checks it on small instances, shows that it implements
a short specification of ownership, and proves its memory safety and that refinement for
every number of threads, objects and shards. The parts around it have modules of their own:
the registry of reader threads, the allocator of the counters with the collector's
maintenance of it, the collector's loop with its waiting callers, the shard index
and the `ShardedRwLock`; the safety properties of these are proved as well.

## 1. Inventory

| Component | Source | State | Operations |
|---|---|---|---|
| tagged counter | `tagged_counter.rs` | one 64-bit word: 63-bit signed count, 1 tag bit | increment (`fetch_add 2`), decrement and set tag (compare-exchange loop), fetch and clear tag, loads |
| `Sdarc` | `sdarc.rs` | `SdarcInner`: counters, `weak_inner_ref`, data | `new`, `clone`, `drop`; freeing of the box by the collector |
| `WeakSdarc` | `weak_sdarc.rs` | `WeakSdarcInner::back_ref` in an `Sdarc` of its own, owned by `weak_inner_ref` | `downgrade`, `clone`, `drop`, `upgrade`, `borrow`; clearing of `back_ref` by the collector |
| atomic cells | `atomic_sdarc.rs` | one atomic pointer that owns a reference | `swap`, `store`, `compare_and_set`, `load_owned`, `sync_to`, `borrow`, drop |
| reader signals | `atomic_sdarc.rs` | per thread: 15 hazard slots, a critical section flag | publish, unpublish, enter, leave; barrier and scan by the collector |
| registry of readers | `atomic_sdarc.rs` | `SHARED_HAZARD_DATA`, `is_used` | obtain (reuse or append), release at thread end |
| collector | `collector.rs` | pending lists per shard, `tracked_counters`, `counters_to_recheck`, `collection_waiting` | outer iteration, passes, `update_state`, `free_pointers`; `collector_update_now_and_wait` |
| shard index | `shard_index.rs` | shard count (a power of two, at most 256) | rounding, modulo, `curr_shard_index` |
| sharded allocator | `sharded_alloc.rs` | units of 16 slots with usage flags, one group of units per shard, a temporary group | allocate and initialise, deallocate, maintenance by the collector, status report |
| `ShardedRwLock` | `sharded_rwlock.rs` | one lock per shard | `new`, `read` and `try_read` (one shard), `write` (all shards in order), drops of the guards |
| parameters | `env_params.rs` | | shard count, collector interval, maintenance switch |

How they interact: user threads change counters and cells directly. `Sdarc::new`
and the first `downgrade` submit the new object to the pending list of the
current shard, from which the collector takes it. Readers never wait for the
collector; the collector waits for each reader's flag to be false once. Freeing an
object drops the `Sdarc`s inside it *in the collector thread*, which decrements
further counters and, through a thread-local, adds them to the set the collector
looks at next.

### What is hard here

* There is no atomic read of all shards. A clone on a shard already read and a
  drop on one not yet read add up to a zero that never existed. The tag bits are
  there to notice that, but only between two passes.
* A verdict (`RequiresReChecking`) is used a whole pass after it was reached.
* A reader's hazard pointer may be in its store buffer when the collector scans;
  the heavy barrier reaches the threads one after the other.
* A loaded pointer is not counted until the increment; only the flag protects it.
* A freed address is allocated again while a reader still holds it (ABA).
* An object without owners can be resurrected by `upgrade`, in any state of the
  collector; object and `WeakSdarcInner` point at each other.
* `compare_and_set` publishes first and counts later.
* Hazard data of a thread that ends is claimed by another one while the collector is
  at it, and the scan goes only as far as the list went when it began.
* A slot of the allocator is freed by one store, with no lock, while the collector looks
  through the unit, whose group it has exchanged for another under the allocating threads.
* A caller that wants an update can come at any point of the collector's loop.

`PROJECT.json` lists each hazard at its line with the properties that would catch
it going wrong.

## 2. Modules

```
TaggedCounter            the word of a counter shard
  SdarcHeap              allocations, counters, every place that owns a reference
    ReaderSignals        hazard slots and flags behind a store buffer
      Collector          the collector thread
        Sdarc            user threads; Init, Next, Spec of the whole system
          SdarcSafety    the safety properties   (with ShardSum)
            Reclamation        fairness and liveness          -> MCSdarc
              ReclamationHistory what needs history variables -> MCReclamationHistory
            SdarcRefinement    Sdarc implements Ownership     -> MCSdarc
            SdarcInvariant     the facts that make the properties inductive
              SdarcProofs      types; every allocation is registered exactly once
                CountProofs    shard sums and numbers of owners
                  SafetyProofs   user threads keep the safety invariant
                    MemorySafety   so does the collector; the safety theorems
                      PromiseProofs  the refinement of Ownership; upgrades
Ownership                the abstract specification

HazardRegistry           the list of hazard data              -> MCHazardRegistry
  HazardRegistryProofs   handover, coverage and length of the list

ShardIndex               shard count and current shard
  ShardedRwLock          readers and writers                  -> MCShardedRwLock
    ShardedRwLockProofs  rounding and masking; mutual exclusion

ShardedAlloc             units, groups, boxes, maintenance    -> MCShardedAlloc
CollectorLoop            the loop and its waiting callers
  Upkeep                 both together: update() ends with maintenance
    UpkeepProofs         slots, units, values, report; callers; returned memory
```

### How state and steps correspond to the code

**SdarcHeap.** An object is an address; `kind[o]` says what lives there. `holds`
maps every *place* that can own a strong reference - a handle (a variable of user
code), a cell, and the two fields `weak_inner_ref` and `data` of each
`SdarcInner` - to the object it owns. `counters[o][s]` is the real tagged word of
one shard. Handles are not tied to threads, since `Sdarc` is `Send + Sync`, and
every call chooses its shard freely, since the CPU a thread runs on may change
between any two instructions (`curr_shard_index`).

**ReaderSignals.** `signals` is what a thread has stored, `visible` what another
thread loads. They differ while a store is in the store buffer, which a light
fence does not flush. `membarrier2::heavy()` flushes the threads one by one in any
order. This is the total-store-order reading of the asymmetric fence; behaviours
of weaker memory models are left out.

**Collector.** `cpc` is its program counter. Taking one pending list, flushing one
thread, loading one slot, polling one flag and reading one counter shard are each
a step of their own, so that any step of a user thread can come in between.
`park`/`take` is the outer loop, `barrier`/`scan` is
`traverse_atomic_reader_signals`, `update`/`precheck`/`clear`/`recheck`/`weakref`
is `update_state` for each object, `free`/`drop` is `free_pointers`.
The order in which a pass visits the objects, and a scan the threads, is left
open; the code has one fixed order (a `BTreeMap`, a vector).

**Sdarc.** `new`, `clone`, `drop` and `swap` touch shared memory once after they
have been given their shard and are one action each. `load_owned`/`upgrade` (enter,
load, increment, leave), `borrow` (pre-load, publish, re-load, fallback),
`compare_and_set` (exchange, increment) and `downgrade` (initialise, clone) are
several steps of a thread, with `op[t]` as its progress. What Rust's borrow
checker forbids - moving a handle that is borrowed, reading one whose call has not
returned - is a guard (`Movable`, `Readable`, `Vacant`).

**Ownership** is what a user relies on: `alive`, `owns` and `borrows`, with eight
actions and no counter in sight. `Reclaim` requires that nobody owns or borrows
the object. Sharing is possible with any object that is alive, because upgrade can
resurrect an object without owners.

**HazardRegistry** replaces the fixed set of threads of `ReaderSignals` by the list
`SHARED_HAZARD_DATA`. A thread reads the length, swaps `is_used` of one entry after the
other, or reserves an index and publishes it (the two steps of `AppendOnlyVec::push`, which
waits for the pushes before it); the collector's barrier flushes the threads that run
when it begins, and its scan reads the length and then slot and flag of every entry.
`protected` and `inside` remember which readers the barrier had to take into account.
What `Sdarc` assumes of its threads is what this module shows: an entry has one owner at a
time, is handed over empty, and a scan that ends has seen every hazard pointer and waited
for every critical section that was there when the barrier began.

**ShardIndex** computes the shard count from the environment variable or the machine, with
the panics of both, and the shard of a CPU number as the code does, bit by bit.
**ShardedRwLock** builds on it: `read` locks the shard of the CPU and may then be moved
elsewhere, `write` goes through the shards in order. A shard's lock is parking_lot's:
first the writer bit, which keeps new readers out, then the wait for the readers inside.
A read guard stays with its thread; a write guard is `Send`, and `SendGuard` hands it to
another thread, which drops it. A thread that has a guard does not lock again: recursive
locking deadlocks, as with any lock of parking_lot.

**ShardedAlloc.** A unit is an array of words with the code's layout (a row of usage
flags, a row per shard); a word of a shard counts the values written less those dropped.
A box is one `ShardedBox` from the call that allocates it to the end of its drop, with
the swap of each usage flag a step of its own. Maintenance reads one flag per step. The
status report takes all locks, then reads one flag per step, while slots are given back.

**CollectorLoop** has the queue of senders and its lock, the unpark token, the senders
being notified, and the channel of each caller. Who is in the batch that is taken from the
queue decides whether the iteration is deep (`deepUpdate`); in `Collector`, which has no
callers, that is a free choice. **Upkeep** runs `ShardedAlloc` from the loop:
`update()` collects (a step that leaves the allocator alone), maintains, and logs if tracing is
on. `due` remembers the units that were empty when a caller queued.

### Abstractions

* Cells are statics. A cell inside an `Sdarc` is dropped like a data field: one
  more place, decremented when the object is freed.
* The drop of user data does nothing but drop the `Sdarc`s in it.
* `clone` works on handles and on what lies inside accessible objects. `upgrade`, weak
  `borrow`, `downgrade` and `compare_and_set` take their arguments from handles (and
  cells) only: a program that calls one of them on an `Sdarc` or `WeakSdarc` inside
  another object is modelled as cloning it into a handle first (section 7).
* The counter array of an object is part of its address. In the code the
  array is a slot of the sharded allocator, which is given back a moment before the
  box is; `ShardedAlloc` has boxes of any content.
* `HazardRegistry` has one slot per entry and publishes the name of its owner in it, which is
  enough to tell whose pointer was seen. Thread names are used again after a thread
  has ended. `ShardedAlloc` initialises, and drops, all words of a slot in one step:
  nobody else can see them. `init_func` returns or panics for any of the shards.
* `compare_exchange` loops are their successful attempt. The width of the word is
  left out: the source argues that 2^62 references cannot exist.
* Bounds: `MaxNegative` keeps one shard's count from going below `-MaxNegative`
  (a drop chooses another shard then; together with the finite number of places
  this bounds the counts from above), `MaxInner` is the bound of a deep
  iteration's extra passes (100000 in the code). Neither restricts what the theorems
  say: they hold for every value. `MaxEntries` bounds the registry (a thread that needs
  more waits; the checked bound on its length is below it), `MaxLockShards` the locks that
  are created, `UsizeCount` is the number of `usize` values (2^64 in the code; 1024
  leave room above 256, for -1 too).

## 3. What TLC checks

| Run | Instance | What it asks |
|---|---|---|
| `TwoReaders` | 1 object, 2 handles, 1 cell, 2 borrowing threads | barrier, slots and flags protect two readers whose calls overlap; no reader of a dying object escapes the scan |
| `AddressReuse` | 2 objects, 1 handle, 1 cell, 1 reader | a pre-loaded pointer whose address has been freed and reused; `Sdarc` implements `Ownership`; garbage is freed, iterations end |
| `Chains` | 2 addresses, one of which also serves as weak inner, 2 handles, 1 thread, nesting | counts stay exact when the collector drops fields; upgrade, borrow and resurrection against the clearing of `back_ref`; what is condemned stays dead; `Sdarc` implements `Ownership`; chains are freed, also by shallow iterations only, and so is the cycle of object and weak inner |
| `CasSingleWriter` | 1 object, 3 handles, 1 cell, 2 threads, 2 shards | no false zero frees the object; `compare_and_set` without a concurrent swap is safe and a step of `Ownership`; the collector's assert on the sum |
| `CasRace` (violation) | 1 object, 4 handles, 1 cell, with swaps | see finding 1 |
| `WeakUpgrade` | 1 object, weak inner, 2 handles, 2 shards, nesting, deep iterations | a false zero never makes `upgrade` fail; object and weak inner are tracked once and never freed while referred to |
| `DeepCollection` (violation) | 1 object, 2 handles, 2 shards | see finding 2 |
| `Registry` | 2 threads that begin and end again and again, up to 4 entries | hazard data changes hands clean; the scan covers every reader; the list stays below twice the threads |
| `RegistrySize` (violation) | the same | see finding 3 |
| `RwLock` | every kind of shard count up to 1023, locks of up to 4 shards, 3 threads | shard counts are powers of two that fit, indexes are in range; a writer is alone; every call is granted |
| `Allocator` | 3 boxes, 2 units of 2 slots, 2 shards | slots are exclusive, values dropped once, units accounted for, indexes valid, the report exact |
| `Upkeep` | 1 box, 1 caller, 2 units of 2 slots, 2 shards | a call is served by a deep iteration that began later, which has returned the empty units; calls and allocations return |

Why these bounds show something: a false zero needs two owners and two shards (for
more shards the theorems of section 5 hold); two readers are the smallest number for
which the barrier of one can come before the publication of the other; reuse of an
address needs a second object only so that the cell can change while the first is
being freed; one slot per thread makes a second borrow find all slots taken.
Two threads can hand an entry to each other while a third party, the collector, scans it, and
already exceed the comment's bound on the list. Three boxes with two units of two slots
fill a unit, need a second one and find memory exhausted; two shards are the least for
which a group that waits in the temporary place can belong to another shard. With
three threads a lock has two writers and a reader, on up to four shards.
Some bounds are as low as they are because the next value does not finish in minutes:
`WeakUpgrade` has `MaxNegative = 0` (a drop works on a shard that counts at least one),
`Chains` one shard, `Upkeep` one caller. What more shards, negative counts and callers
could add is covered by the theorems for the safety properties, and for `CallsReturn` not at all.
Every property of a passing run is broken by a mutant of the code named in
`PROJECT.json` (no barrier, tag not set, first zero believed, weak reference
overlooked, shard loop one too long, ...), on the very same instance.

The safety properties are in `SdarcSafety.tla`:

* `RefCountExact`: for each live object the sum of the shards is the number of
  its owners, less the increments `compare_and_set` still owes.
* `NoDangling`: what a place owns, a guard borrows, a load is about to count, or a
  `back_ref` points to is allocated.
* `TrackedExactlyOnce`: a live object is in `tracked_counters` or in exactly one
  pending list; a freed one is nowhere.
* `RecheckSumNotNegative`, `BackRefClearedAtDrop`: the asserts at
  `collector.rs:211` and `weak_sdarc.rs:29` never fire.
* `UpgradeFailsOnlyAfterZero` (`ReclamationHistory.tla`): the promise at
  `weak_sdarc.rs:141`.
* `HandoverIsClean`, `ScanCoversReaders`, `RegistryIsBounded` (`HazardRegistry.tla`): see above;
  with k threads at a time the list has at most 2k - 1 entries.
* `ShardCountRoundsUp`, `IndexesStayInRange` (`ShardIndex.tla`): the count is the least power of
  two that is large enough, up to 256, and the mask is a remainder of it even for CPU -1.
* `MutualExclusion` (`ShardedRwLock.tla`).
* `SlotsAreExclusive` to `ReportIsExact` (`ShardedAlloc.tla`): the allocator's promises, whatever
  maintenance exchanges meanwhile, including its asserts (`sharded_alloc.rs:174` and `476`).
* `ServedByDeepIteration`, `MemoryIsReturned` (`CollectorLoop.tla`, `Upkeep.tla`): when
  `collector_update_now_and_wait` returns, a deep iteration that began after the call has
  ended and units that were empty at the call, and stayed so, have been returned.
* `VerdictsAreRight` and `ReadersAreSeen` (`SdarcInvariant.tla`): the two halves of
  the argument that reclamation is safe, see section 5.

### Fairness and liveness

In `Reclamation`, `FairSpec` assumes weak fairness of the collector thread, of each thread that is
inside a library call (it is running code of the library, with no wait in it), and
of the draining of each buffered store. It assumes nothing of user code: no program
is obliged to call, drop or end a borrow. `collector_poll_until_false` samples the
flag, so a reader that enters and leaves its critical section for ever may be seen
inside each time; the two liveness properties therefore have the premise that every
thread finally stays outside, rather than strong fairness of the poll, which the code
does not guarantee. Under it `GarbageIsFreed` says that an object
to which no chain of references leads is freed in the end, and `IterationEnds`
that the collector always comes back to its parking place.

In `ShardedRwLock` and `Upkeep` threads compete for parking_lot locks, which are
"eventually fair": a waiting thread gets the lock although others take it again and
again. That is strong fairness of the acquiring steps (of whole threads in `Upkeep`);
everything else a thread does inside a call is weakly fair. In `ShardedRwLock` the drops
of guards are weakly fair, without which nobody could wait for them: of each read guard, and of
the write guard by whichever thread has it by then. Calls, allocations and drops of
boxes need not happen, and neither need the collector's time-out: `CallsReturn`
holds because an unpark that finds the collector busy leaves its token.

`RwLock` does not check for deadlock: a start that panics (an invalid environment variable) leaves a
program that stops. That calls do not wait for each other for ever is
`EveryCallIsGranted`.

## 4. Findings

1. `compare_and_set` (`atomic_sdarc.rs:337-349`) installs the new pointer and counts
   it afterwards, without a critical section. The comment at line 343 says none is
   needed because the caller's reference exists. It does, but its *count* can be gone:
   another thread may swap the object out of the cell and drop it, which brings the
   sum to zero, and nothing tells the collector that an increment is owed. Run
   `CasRace` shows the object freed before the increment. A call whose cell nobody
   changes before it has counted is safe (section 5).
2. `README.md:55` and the stress test (`stress_test.rs:728`) expect one
   `collector_update_now_and_wait` to free everything that is garbage when it is
   called. An object that an earlier iteration left in `RequiresReChecking` and
   whose last owner was dropped since carries a tag; the deep iteration puts it
   back to `DefaultState`, has nothing to re-check and ends. Run
   `DeepCollection` shows it. Nothing is lost: later iterations free the object
   (`GarbageIsFreed`).
3. The comment at `atomic_sdarc.rs:551` says that the list of hazard data is as long as the
   largest number of threads that use it at the same time. A search goes forward
   only, up to the length it read when it began. An entry given back behind it is missed and
   one more appended: two threads reach three entries (`RegistrySize`). The growth is
   bounded all the same (`RegistryIsBounded`).

## 5. What is proved

`tlapm` checks 29 theorems, for all constants that satisfy the named assumptions:
`ShardCount` and `SlotCount` positive, the bounds (`MaxNegative`, `MaxInner`, `MaxEntries`,
`MaxLockShards`) natural, finite sets of objects, handles, cells, threads, units and boxes, `NULL` none
of them, places of different kinds distinct, roles subsets of the threads; for the shard
index that counts are natural numbers and CPU numbers integers. TLC evaluates each
assumption on the instances above. All safety invariants and the refinement that the runs
check are stated by a theorem.

| Module | Theorems |
|---|---|
| `SdarcProofs` | `TypeCorrect`, `AllocationsAreTracked` |
| `MemorySafety` | `NothingDangles`, `CountsAreExact`, `RecheckAssertHolds`, `BackRefsAreCleared`, `VerdictsHold`, `NoReaderIsMissed`, `WithoutCasUndisturbed`, `OneWriterUndisturbed` |
| `PromiseProofs` | `OwnershipIsImplemented`, `UpgradesSucceed`, `DisciplinedProgramsAreSafe` |
| `HazardRegistryProofs` | `RegistryTypeCorrect`, `HandoversAreClean`, `ScansCoverReaders`, `RegistryBounded` |
| `ShardedRwLockProofs` | `ShardCountCorrect`, `IndexesInRange`, `LockExcludes`, `LockTypeCorrect` |
| `UpkeepProofs` | `AllocatorTypeCorrect`, `SlotsStayExclusive`, `IndexesStayValid`, `UnitsStayAccountedFor`, `ValuesDroppedOnce`, `ReportsAreExact`, `CallersAreServed`, `MemoryReturned` |

The theorems of `MemorySafety` and `PromiseProofs` about `Sdarc` have the form
`Spec /\ []CasUndisturbed => ...`, the others hold for all programs. `CasUndisturbed`
is what a user of `compare_and_set` has to see to: from the exchange to the increment
the cell keeps what has been installed, and no second call is under way on it. Some such
hypothesis is needed, since programs that race `compare_and_set` with `swap` break
`NoDangling` (`CasRace`). It may be dropped for programs that do not call
`compare_and_set` (`WithoutCasUndisturbed`), and for those that call it from one thread
and change their cells in no other way (`OneWriterUndisturbed`): `DisciplinedProgramsAreSafe`.

### Types and registration of objects

`TypeOK` includes facts that matter to the code's unchecked accesses: the shard index is in
range whenever the collector reads a counter, the slot index whenever it scans, the
object under update is a real one. It is not inductive. `TypeInv` adds `LoopsReset` (the
loop variables are back at 0 when no loop uses them, so the next loop starts at the
first shard) and `CallsKeepBorrows` (a call keeps the handle it reads borrowed and
full, and no other call returns into it; otherwise `PtrAt` would follow a
null handle). One lemma per group of actions - handle steps, call steps,
continuing steps, drains, collector - shows that it is preserved.

For `TrackedExactlyOnce` the strengthening `WorkIsTracked` says that the object under update
and the objects to be freed are tracked and that the object whose fields are being dropped
is the one marked `freeing`; without it a verdict could register a freed object again.

### Memory safety

The theorems of `MemorySafety` follow from one inductive invariant, `SafeInv`:

* `RefCountExact`: the sum of a live object's shards is the number of its owners less the
  increments that calls of `compare_and_set` owe. The sum is a recursive function over
  the shards; `CountProofs` shows, by a least counterexample, what an update of one
  shard does to it.
* `CasUndisturbed`, and in `CallsAreConsistent` that the caller of `compare_and_set` still
  borrows an `Sdarc` of what it has installed. So each call that owes an increment to an
  object has its cell for an owner, different calls have different cells, and there is a
  handle besides: an object that has an owner has more owners than owed increments
  (`OwedBelow`). Its sum is therefore positive although it is too low, and zero still
  means that there is no owner.
* `VerdictsAreRight`: an object that is not allocated, condemned, or about to be
  condemned with no weak reference left is `Dead`: no owner, no back reference, no load about
  to count it, no guard. `Dead` is stable: nobody can reach the object any more. For
  the re-check in progress it says: a tag is ahead, or the sum read so far plus
  the shards ahead is positive, or it is zero and the object is dead unless a weak reference
  points back to it. Clones and drops on shards already read do not change this sum,
  a clone ahead raises it, and a drop ahead leaves a tag.
* `ReadersAreSeen`: for an object that `LooksDead` (state `recheck`, no owner, no back
  reference, no tag), a thread that is about to count it or has a guard on it has
  still to execute the barrier, or its flag or slot is visible; and during the scan it
  is still to be scanned, or the object is in `hazards`. So after the scan nobody has
  the object.
* `CallsAreConsistent`, `BackRefsMatch`, `LoopsInOrder`: a load that is about to count is
  inside its critical section, a guard has its slot to itself, results go to empty
  variables; a back reference comes from the weak inner that the object owns;
  the loop variables start at zero.

Why the two readings work together: the step that starts the re-check of `o` finds
`ReadersAreSeen` after the scan. If no tag is set and no owner and no weak reference
exists at that moment, no reader exists either and `o` is dead. If an owner exists,
the count is positive (`OwedBelow`), and it can only be read as zero if a drop during the re-check has left
a tag ahead. If a tag is set, it stays until it is read.

The proof is by steps: `UserStep` in `SafetyProofs` states what a step of user code
may do to the collector's knowledge, `UserStepKeeps` that it survives, and one lemma per
kind of step (a reference is added, dropped, exchanged; an object is allocated; a
reader moves) that the step is one. `MemorySafety` has one lemma per group of
collector steps. TLC checks `VerdictsAreRight` and `ReadersAreSeen` in `Chains` and
`TwoReaders`.

### The promises to users

`OwnershipIsImplemented` maps every step of `Sdarc` to a step of `Ownership` or to a stutter,
from `SafeInv`. Most steps change neither who owns nor who borrows; the ones that do
map to one action each; `compare_and_set` is a `Replace`, an `Exchange` when it installs
null, and its late increment is not seen. The interesting ones are `BeginFree`, which is `Reclaim` only because
a condemned object is `Dead`, and `LoadIncrement` and `Reload`, which are `Share` and `StartBorrow` only
because what they have loaded is still alive.

`UpgradesSucceed` is about the history variable `zeroed`, the objects that have been without
an owner. `ZeroInv` repeats the argument of the re-check for it: a re-check meets a tag, or a sum that is
not zero, or the zero of an object that is in `zeroed`. The collector clears a `back_ref` only
after such a zero.

### The registry of readers

`ListInv` has the types, `HandoverIsClean` and `ListInOrder` (a search stays within the length
it read, a reserved entry becomes visible in its turn). `ScanInv` follows the readers that were
there when the barrier began: after their own barrier their entries show them to the
collector, and their entries are ahead of the scan or they have been seen. No such
reader is beyond the bound of the scan, because it had its entry before the length was read.

The bound on the length needs counting. A search that has come to entry `e` has found `e`
entries taken; an entry it has passed may be given back, but `SizeInv` shows that
the threads at `e` or further on, together with those that search a shorter list, are at most
`mostAlive - e`: whoever left made room behind, not ahead. So a search over `mostAlive` entries or
more finds one, and only searches over fewer append. The entries there are and the short
searches that may still append one are together at most `b - 1 + mostAlive`, for each `b` from `mostAlive`
on, which gives `reserved < 2 * mostAlive`.

### Shard index and `ShardedRwLock`

`count_ones`, `trailing_zeros`, `ilog2` and the bitwise `&` are recursive functions over halves.
Induction over numbers is done by hand: `LeastNat` (from `WFMin` of
`WellFoundedInduction`) gives a least counterexample, `HalvingRecursion` shows with it that a function defined by
its value at `n \div 2` exists, and the defining equations of the four follow. `OneBit` says that a number with one
bit set is `2^trailing_zeros`, `Levels` that `ilog2` finds the power of two below, `MaskIsRemainder` that `&` with
`2^e - 1` is the remainder. `Adjusted` concludes that `from_usize_adjusted` rounds up, and `IndexInv`
that this remains so.

`LockInv` says which writer bits a writer has, by its place in its
loop, that the readers of a shard are those whose program counter says so, and
that a shard a writer has got past has no readers until the writer unlocks it. It rests on
`IndexesInRange`: a reader locks a shard that the writers' loop visits.

### The allocator

`AllocInv` is inductive for `AllocSpec`. Besides the types and `SlotsAreExclusive` it says who has each lock
(`LocksMatch`), that no unit is in two places of the groups (`ListedOnce`), that the allocated
units are the listed ones and the new ones of calls in progress (`ListedAreAllocated`, `FreshIsApart`), that a call
looks for a slot in the first unit to check of its own group (`CallsInPlace`), and that a usage flag that is
set belongs to a box (`FlagsAreOwned`). `MaintenanceInOrder` carries the argument why a unit
may be freed: the flags that maintenance has already found clear stay clear, since nobody
allocates from a group while it is in the temporary place. A box may clear a flag behind
maintenance's back; then the unit is merely returned one iteration later.

`UnitsAreAccountedFor` and `IndexesAreValid` follow from it. `ValuesMatch` (a word holds one value exactly
while a box owns its slot) gives `ValuesAreDroppedOnce`. `ReportInOrder` gives `ReportIsExact`: with all
locks taken the boxes whose flag has been read (`Behind`) are at most `used`, and `used` with the boxes
`Ahead` of the report is at most what was in use when the last lock was taken. Reading a flag moves the box
it belongs to, if there is one, from one set to the other; slots can only be
given back meanwhile, so neither bound is lost.

### The loop and `update()`

`LoopInv` follows a sender from the queue (its iteration has not begun), to the batch (begun while the
update runs, done while the batch is notified), to the caller's channel; no sender is in two of
these, or twice in one. The caller returns only from the last. A batch that is not empty makes the
update deep, so what ends for its senders is a deep iteration.

`MemoryReturned` is about the product of loop and allocator, with the invariant `UpkeepInv`. The unit that
a caller waits for is `Unvisited` when the maintenance of its iteration begins: it is in a group that
maintenance has not come to. Every exchange of groups and every step through
a group keeps it there as long as it is empty, or returns it (`DueInOrder`); after the last group nothing is left unvisited.

### Only model-checked

Liveness is outside the prover's reach: `GarbageIsFreed`, `IterationEnds`,
`EveryCallIsGranted` and `CallsReturn` are checked by TLC under the fairness of section 3.
Executions of `Sdarc` that disturb a call of `compare_and_set` are not safe, and nothing
but types and registration is proved of them.

## 6. Plan

Every component is modelled and the safety properties that the runs check are proved.
What is left is to compose: to prove that the interface `ReaderSignals` assumes of its
fixed threads is what `HandoverIsClean` and `ScanCoversReaders` provide.

## 7. Not modelled

`upgrade`, `borrow` and `downgrade` of a `WeakSdarc` or `Sdarc` in its place inside another
object's data, where the call keeps the handle or guard that leads there borrowed and no
clone is made, and `compare_and_set` with such arguments. The code takes any `&self`
(`weak_sdarc.rs:103`, `142`, `150`); in the model such a program clones first, which adds a count that
a program without the clone does not have. What protects the field there - that its owner is not
freed while something accessible leads to it - is checked and proved for `clone` from a field.
The smallest instance in which such a call differs has three addresses (an object, one inside
it, and a `WeakSdarcInner`), which is out of TLC's reach here: `Chains` has two.

A panic of `release_hazard_data`, when a thread has put a guard into a thread-local against the
documentation, and recursive locking of a `ShardedRwLock`.

Parsing of the collector's interval (a time-out may come at any moment), logging,
`estimate_strong_count` and `estimate_weak_count` (reads that promise nothing exact), the
`Debug`, `Eq`, `Hash`, `Ord` implementations, panics inside user `Drop` code (caught and logged
by `catch_unwind`), a panic of the collector thread itself (every later call waits
for ever, as the comment at `collector.rs:124` says), failed attempts of the
compare-exchange loop of the counter, calls made while thread-locals are being destroyed,
memory orders weaker than a store buffer, and the benchmarks.

The modules are not composed into one: `Sdarc` does not allocate its counters from
`ShardedAlloc` nor take its threads from `HazardRegistry`. The interfaces are narrow (a slot
that is exclusive, an entry that is handed over clean and seen by the scan) and each is a
property of the module that provides it; the product would be beyond TLC.

## 8. Running

```
tlc -workers 2 -config TwoReaders.cfg MCSdarc
tlc -workers 2 -config AddressReuse.cfg MCSdarc
tlc -workers 2 -config WeakUpgrade.cfg MCReclamationHistory
tlc -workers 2 -config Registry.cfg MCHazardRegistry
tlc -workers 2 -config RwLock.cfg MCShardedRwLock
tlc -workers 2 -config Allocator.cfg MCShardedAlloc
tlc -workers 2 -config Upkeep.cfg Upkeep
tlapm SdarcProofs.tla
tlapm CountProofs.tla
tlapm SafetyProofs.tla
tlapm MemorySafety.tla
tlapm PromiseProofs.tla
tlapm HazardRegistryProofs.tla
tlapm ShardedRwLockProofs.tla
tlapm UpkeepProofs.tla
```
