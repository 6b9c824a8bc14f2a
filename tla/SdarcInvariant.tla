--------------------------- MODULE SdarcInvariant ---------------------------
(***************************************************************************)
(* What every reachable state of Sdarc satisfies beyond its safety         *)
(* properties: the facts that make them inductive.                         *)
(***************************************************************************)
EXTENDS SdarcSafety

\* The collector's loop variables are reset whenever no loop uses them.
LoopsReset ==
  /\ cpc \notin {"take", "scan", "precheck", "clear", "recheck"} => idx = 0
  /\ cpc # "scan" => thr = NULL

\* Steps that still read the location the operation was called on.
LocationSteps == {"load", "publish", "reload", "fallback", "weakclone"}

\* A call keeps the handle it reads borrowed, and that handle owns something;
\* no other call returns its result into a borrowed handle.
CallsKeepBorrows ==
  /\ \A t \in Threads : op[t].pc \in LocationSteps =>
       \/ op[t].loc \in Cells /\ op[t].pc # "weakclone"
       \/ op[t].loc \in op[t].pins /\ holds[op[t].loc] # NULL
  /\ \A t \in Threads, u \in Threads : op[t].dst \notin op[u].pins

TypeInv == TypeOK /\ LoopsReset /\ CallsKeepBorrows

\* The object the collector works on is tracked, what is to be freed is tracked,
\* and an address is "freeing" exactly while its fields are being dropped.
WorkIsTracked ==
  /\ cpc \in {"precheck", "clear", "recheck", "weakref"} => state[obj] # "untracked"
  /\ \A o \in toFree : state[o] # "untracked"
  /\ cpc = "drop" => kind[obj] = "freeing"

-----------------------------------------------------------------------------
\* What keeps memory safe in programs whose calls of compare_and_set are not
\* disturbed.

\* The discipline: what compare_and_set has installed in a cell stays there until
\* the call has counted it, and two calls that overlap are on different cells.  One
\* writer per cell keeps it; concurrent swaps of the cell break it.
CasUndisturbed ==
  \A t \in Threads : op[t].pc = "cas" =>
    /\ holds[op[t].loc] = op[t].ptr
    /\ \A u \in Threads \ {t} : op[u].pc = "cas" => op[u].loc # op[t].loc

Loading(t, o) == op[t].pc = "increment" /\ op[t].ptr = o

\* The steps of a call before it writes its result.
ResultSteps == {"load", "increment", "publish", "reload", "fallback", "weakclone"}

\* A load is inside the critical section; a guard has its slot to itself; a call
\* has its result variable to itself, and it is empty until the result is written;
\* compare_and_set borrows an Sdarc of what it has installed.
CallIsConsistent(t) ==
  /\ op[t].pc \in {"load", "increment"} => signals[t].flag = TRUE
  /\ op[t].pc \in {"increment", "publish", "reload"} => op[t].ptr \in Objects
  /\ op[t].pc = "reload" =>
       /\ guard[t][op[t].slot] = NULL
       /\ signals[t].slots[op[t].slot] = op[t].ptr
  /\ \A i \in Slots : guard[t][i] # NULL => signals[t].slots[i] # NULL
  /\ op[t].pc \in ResultSteps => op[t].dst \in Handles /\ holds[op[t].dst] = NULL
  /\ op[t].pc = "weakclone" => holds[WeakField(holds[op[t].loc])] # NULL
  /\ op[t].pc = "cas" =>
       /\ op[t].loc \in Cells /\ op[t].ptr \in Objects
       /\ \E h \in op[t].pins : holds[h] = op[t].ptr

CallsAreConsistent ==
  /\ \A t \in Threads : CallIsConsistent(t)
  /\ \A t \in Threads, u \in Threads :
       op[t].dst # NULL /\ op[t].dst = op[u].dst => t = u

NoBackRef(o) == \A w \in Objects : backRef[w] # o

\* A WeakSdarcInner that points back at an object is the one that object owns.
\* Nothing is left in the data of an address that is free.
BackRefsMatch ==
  /\ \A w \in Objects : backRef[w] # NULL =>
       holds[WeakField(backRef[w])] = w /\ kind[backRef[w]] = "data"
  /\ \A o \in Objects : holds[WeakField(o)] # NULL =>
       backRef[holds[WeakField(o)]] \in {o, NULL}
  /\ \A o \in Objects : kind[o] = "unallocated" => holds[DataField(o)] = NULL

\* Nobody has o and nobody can come to have it: this never changes until the
\* address is allocated again.
Dead(o) ==
  /\ Holders(o) = {}
  /\ NoBackRef(o)
  /\ \A t \in Threads : ~Loading(t, o)
  /\ ~Guarded(o)

\* A tag that the re-check of obj has still to read, and the counts it has still
\* to add.
TagAhead == \E s \in Shards : s >= idx /\ Tag(counters[obj][s])

CountAhead == StrongCount(obj) - PrefixSum(counters[obj], ShardCount)[idx]

\* What update_state takes for dead is dead, at the moment of the verdict and ever
\* after: no owner, reader or weak reference can bring it back before free_pointers
\* frees it.  While the shards of an object that is not dead are re-checked one by
\* one, a tag is ahead or the sum will not come out as zero.
VerdictsAreRight ==
  /\ \A o \in Objects : ~Live(o) => Dead(o)
  /\ \A o \in Objects : state[o] = "ready" \/ o \in toFree => Dead(o)
  /\ cpc = "weakref" /\ NoBackRef(obj) => Dead(obj)
  /\ cpc = "recheck" =>
       TagAhead \/ sum + CountAhead > 0 \/ (sum + CountAhead = 0 /\ (NoBackRef(obj) => Dead(obj)))

LoopsInOrder ==
  /\ cpc = "scan" /\ thr = NULL => idx = 0
  /\ cpc \notin {"precheck", "clear", "recheck"} => sum = 0
  /\ cpc \in {"precheck", "clear", "recheck", "weakref"} => obj \notin todo

\* o looked dead and still does: no owner, no weak reference, no tag.
LooksDead(o) ==
  /\ state[o] = "recheck"
  /\ Holders(o) = {}
  /\ NoBackRef(o)
  /\ \A s \in Shards : ~Tag(counters[o][s])

\* The readers of this pass have been scanned and o is still to be updated.
Scanned(o) ==
  cpc \in {"update", "precheck", "clear", "recheck", "weakref"} /\ o \in todo

\* A thread that still has an object that looks dead cannot be missed by
\* traverse_atomic_reader_signals: its flag or slot is visible to the collector
\* before the scan reaches it, and an object that is updated after the scan is
\* neither being loaded nor borrowed without being in hazard_ptr_set.
ReadersAreSeen ==
  \A o \in Objects : LooksDead(o) =>
    /\ \A t \in Threads : Loading(t, o) =>
         /\ cpc = "barrier" => t \in waiting \/ visible[t].flag = TRUE
         /\ cpc = "scan" => t \in waiting /\ visible[t].flag = TRUE
         /\ ~Scanned(o)
    /\ \A t \in Threads, i \in Slots : GuardedBy(t, i, o) =>
         /\ cpc = "barrier" => t \in waiting \/ visible[t].slots[i] = o
         /\ cpc = "scan" =>
              /\ visible[t].slots[i] = o
              /\ o \in hazards \/ (t \in waiting /\ (thr = t => idx <= i))
         /\ Scanned(o) => o \in hazards

SafeInv ==
  /\ TypeInv
  /\ TrackedExactlyOnce /\ WorkIsTracked
  /\ CasUndisturbed
  /\ CallsAreConsistent
  /\ BackRefsMatch
  /\ RefCountExact
  /\ VerdictsAreRight
  /\ LoopsInOrder
  /\ ReadersAreSeen

=============================================================================
