---------------------------- MODULE ShardedAlloc ----------------------------
(***************************************************************************)
(* The sharded allocator (src/src/sharded_alloc.rs).  It hands out slots: a *)
(* slot is one word per shard, at the same offset in every shard.  Units of *)
(* SlotCount slots are kept in one group per shard of the allocating        *)
(* thread.  A slot is freed by clearing its usage flag, without a lock; the *)
(* collector finds free slots and empty units later, in maintenance.        *)
(*                                                                          *)
(* A box is a ShardedBox of user code, from its allocation to its drop.     *)
(* Allocations hold the lock of their group, maintenance works on a group   *)
(* that it has exchanged for the temporary one.                             *)
(***************************************************************************)
EXTENDS Integers, Sequences, FiniteSets

CONSTANTS
  Units,      \* addresses that the system allocator can return for a unit
  Boxes,      \* variables of user code that can own a ShardedBox
  ShardCount, \* get_shard_count()
  SlotCount,  \* SLOT_COUNT_PER_UNIT
  NULL

ASSUME AllocAssumption ==
  /\ ShardCount \in Nat \ {0}
  /\ SlotCount \in Nat \ {0}
  /\ IsFiniteSet(Units) /\ IsFiniteSet(Boxes)
  /\ NULL \notin Units \cup Boxes \cup {"collector", "report"}
  /\ Boxes \cap {"collector", "report"} = {}

Shards == 0 .. ShardCount - 1

Slots == 0 .. SlotCount - 1

\* The groups of the shards, and temp_filling_group.
Temp == ShardCount
Groups == 0 .. ShardCount

\* A unit is an array of words: a row of usage flags, then a row per shard.
Words == 0 .. SlotCount * (1 + ShardCount) - 1

UsageFlag(i) == i

PtrAtShard(i, s) == i + SlotCount * (s + 1)

VARIABLES
  allocated, \* units whose memory has not been returned
  mem,       \* usage flag: 0 or 1.  Other words: values written less values dropped
  groups,    \* all_units, and indexes_of_units_to_check_for_allocation
  lock,      \* who holds the lock of a group
  call,      \* what happens to each box
  upkeep,    \* progress of do_maintenance_by_collector
  report     \* get_status_report: the locks it holds, the groups it has counted, the
             \* unit and slot it is at in the next one, the used slots up to there;
             \* history: slots in use when it began to count

NoReport == [locks |-> 0, counted |-> 0, unit |-> 1, slot |-> 0, used |-> 0, atMost |-> 0]

allocVars == <<allocated, mem, groups, lock, call, upkeep, report>>

NoCall == [pc |-> "none", shard |-> 0, unit |-> NULL, slot |-> 0, fresh |-> FALSE]

AllocTypeOK ==
  /\ allocated \subseteq Units
  /\ mem \in [Units -> [Words -> Int]]
  /\ groups \in [Groups -> [units : Seq(Units), toCheck : Seq(Nat)]]
  /\ lock \in [Groups -> Boxes \cup {"collector", "report", NULL}]
  /\ call \in [Boxes -> [pc : {"none", "lock", "pick", "claim", "init", "own", "dealloc"},
                         shard : Shards, unit : Units \cup {NULL}, slot : Slots,
                         fresh : BOOLEAN]]
  /\ upkeep \in [pc : {"idle", "out", "retain", "index", "in"}, shard : Groups,
                 unit : Nat, slot : Slots]
  /\ report \in [locks : 0 .. ShardCount + 1, counted : 0 .. ShardCount + 1,
                 unit : Nat, slot : Slots, used : Nat, atMost : Nat]

AllocInit ==
  /\ allocated = {}
  /\ mem = [u \in Units |-> [x \in Words |-> 0]]
  /\ groups = [g \in Groups |-> [units |-> <<>>, toCheck |-> <<>>]]
  /\ lock = [g \in Groups |-> NULL]
  /\ call = [b \in Boxes |-> NoCall]
  /\ upkeep = [pc |-> "idle", shard |-> 0, unit |-> 1, slot |-> 0]
  /\ report = NoReport

-----------------------------------------------------------------------------
\* Vec::swap_remove(0): the last element takes the place of the first.
SwapRemoveFirst(q) ==
  IF Len(q) = 1 THEN <<>> ELSE <<q[Len(q)]>> \o SubSeq(q, 2, Len(q) - 1)

RemoveAt(q, k) == SubSeq(q, 1, k - 1) \o SubSeq(q, k + 1, Len(q))

\* mem with n added to the words of slot i of unit u in the given shards.
Adjust(m, u, i, shards, n) ==
  [m EXCEPT ![u] = [x \in Words |->
     IF \E s \in shards : x = PtrAtShard(i, s) THEN @[x] + n ELSE @[x]]]

SetFlag(m, u, i, v) == [m EXCEPT ![u][UsageFlag(i)] = v]

\* shard_indexes_until(p)
ShardIndexesUntil(p) == {s \in Shards : s < p}

\* ShardedBox::allocate_data_in_each_shard on the shard of the current CPU.
Allocate(b, s) ==
  /\ call[b].pc = "none"
  /\ call' = [call EXCEPT ![b] = [NoCall EXCEPT !.pc = "lock", !.shard = s]]
  /\ UNCHANGED <<allocated, mem, groups, lock, upkeep, report>>

LockShard(b) ==
  /\ call[b].pc = "lock"
  /\ lock[call[b].shard] = NULL
  /\ lock' = [lock EXCEPT ![call[b].shard] = b]
  /\ call' = [call EXCEPT ![b].pc = "pick"]
  /\ UNCHANGED <<allocated, mem, groups, upkeep, report>>

\* AllocUnitGroup::allocate: no unit is left to check, a new one is made.  It
\* is not in the group before its first slot has been initialised.
NewUnit(b, u) ==
  /\ call[b].pc = "pick"
  /\ groups[call[b].shard].toCheck = <<>>
  /\ u \notin allocated
  /\ allocated' = allocated \cup {u}
  /\ mem' = [mem EXCEPT ![u] = [x \in Words |-> 0]]
  /\ call' = [call EXCEPT ![b].pc = "claim", ![b].unit = u, ![b].slot = 0, ![b].fresh = TRUE]
  /\ UNCHANGED <<groups, lock, upkeep, report>>

\* "Sharded Alloc Failure": the panic releases the lock.
OutOfMemory(b) ==
  /\ call[b].pc = "pick"
  /\ groups[call[b].shard].toCheck = <<>>
  /\ allocated = Units
  /\ lock' = [lock EXCEPT ![call[b].shard] = NULL]
  /\ call' = [call EXCEPT ![b] = NoCall]
  /\ UNCHANGED <<allocated, mem, groups, upkeep, report>>

\* The first unit to check is tried, from its first slot.
TryUnit(b) ==
  LET group == groups[call[b].shard] IN
  /\ call[b].pc = "pick"
  /\ group.toCheck # <<>>
  /\ call' = [call EXCEPT ![b].pc = "claim", ![b].unit = group.units[group.toCheck[1]],
                          ![b].slot = 0, ![b].fresh = FALSE]
  /\ UNCHANGED <<allocated, mem, groups, lock, upkeep, report>>

\* allocate_without_initializing: swap(USED) of the next flag.  A full unit is
\* taken off the units to check.
Claim(b) ==
  LET c == call[b] IN
  /\ c.pc = "claim"
  /\ mem' = SetFlag(mem, c.unit, c.slot, 1)
  /\ \/ /\ mem[c.unit][UsageFlag(c.slot)] = 0
        /\ call' = [call EXCEPT ![b].pc = "init"]
        /\ UNCHANGED groups
     \/ /\ mem[c.unit][UsageFlag(c.slot)] = 1
        /\ c.slot < SlotCount - 1
        /\ call' = [call EXCEPT ![b].slot = @ + 1]
        /\ UNCHANGED groups
     \/ /\ mem[c.unit][UsageFlag(c.slot)] = 1
        /\ c.slot = SlotCount - 1
        /\ call' = [call EXCEPT ![b].pc = "pick"]
        /\ groups' = [groups EXCEPT ![c.shard].toCheck = SwapRemoveFirst(@)]
  /\ UNCHANGED <<allocated, lock, upkeep, report>>

\* The group with the new unit of a call in it.
WithUnit(group, c) ==
  IF c.fresh
    THEN [units |-> Append(group.units, c.unit),
          toCheck |-> Append(group.toCheck, Len(group.units) + 1)]
    ELSE group

\* init_func returns a value for every shard and the box is returned.
Initialise(b) ==
  LET c == call[b] IN
  /\ c.pc = "init"
  /\ mem' = Adjust(mem, c.unit, c.slot, Shards, 1)
  /\ groups' = [groups EXCEPT ![c.shard] = WithUnit(@, c)]
  /\ lock' = [lock EXCEPT ![c.shard] = NULL]
  /\ call' = [call EXCEPT ![b].pc = "own", ![b].fresh = FALSE]
  /\ UNCHANGED <<allocated, upkeep, report>>

\* Mutant: when init_func panics the written values are dropped, and so is the
\* one of the shard it panicked for.
DropOneTooMany(p) == {s \in Shards : s <= p}

\* The shards whose value the unwind guard drops when init_func(p) panics.
DroppedOnUnwind(p) == ShardIndexesUntil(p)

\* init_func panics for shard p: what was written before is dropped and the slot
\* freed; a new unit is dropped with it, and the lock released.
InitPanics(b, p) ==
  LET c == call[b] IN
  /\ c.pc = "init"
  /\ mem' = SetFlag(Adjust(Adjust(mem, c.unit, c.slot, ShardIndexesUntil(p), 1),
                           c.unit, c.slot, DroppedOnUnwind(p), -1),
                    c.unit, c.slot, 0)
  /\ allocated' = IF c.fresh THEN allocated \ {c.unit} ELSE allocated
  /\ lock' = [lock EXCEPT ![c.shard] = NULL]
  /\ call' = [call EXCEPT ![b] = NoCall]
  /\ UNCHANGED <<groups, upkeep, report>>

\* Drop of a ShardedBox: the value in every shard is dropped ...
DropValues(b) ==
  LET c == call[b] IN
  /\ c.pc = "own"
  /\ mem' = Adjust(mem, c.unit, c.slot, Shards, -1)
  /\ call' = [call EXCEPT ![b].pc = "dealloc"]
  /\ UNCHANGED <<allocated, groups, lock, upkeep, report>>

\* ... and deallocate_without_dropping clears the usage flag, with no lock held.
Deallocate(b) ==
  LET c == call[b] IN
  /\ c.pc = "dealloc"
  /\ mem' = SetFlag(mem, c.unit, c.slot, 0)
  /\ call' = [call EXCEPT ![b] = NoCall]
  /\ UNCHANGED <<allocated, groups, lock, upkeep, report>>

-----------------------------------------------------------------------------
\* do_maintenance_by_collector takes the lock of the temporary group.
BeginMaintenance ==
  /\ upkeep.pc = "idle"
  /\ lock[Temp] = NULL
  /\ lock' = [lock EXCEPT ![Temp] = "collector"]
  /\ upkeep' = [upkeep EXCEPT !.pc = "out", !.shard = 0]
  /\ UNCHANGED <<allocated, mem, groups, call, report>>

\* Mutant: maintenance looks at the group of the shard in place.
LeaveInPlace(s) ==
  groups' = [groups EXCEPT ![Temp] = groups[s]]

\* mem::swap with the group of the shard.
Exchange(s) == groups' = [groups EXCEPT ![s] = groups[Temp], ![Temp] = groups[s]]

SwapOut ==
  /\ upkeep.pc = "out"
  /\ lock[upkeep.shard] = NULL
  /\ Exchange(upkeep.shard)
  /\ upkeep' = [upkeep EXCEPT !.pc = "retain", !.unit = 1, !.slot = 0]
  /\ UNCHANGED <<allocated, mem, lock, call, report>>

\* Mutant: only the first usage flag of a unit is looked at.
FirstSlotOnly(i) == TRUE

\* Mutant: one flag too many is read.
PastLastSlot(i) == i = SlotCount

\* The loop over the usage flags of a unit ends after slot i.
IsLastSlot(i) == i = SlotCount - 1

\* all_units.retain_mut: is_any_slot_used reads one flag of the unit.
\* A unit without a used slot is dropped and its memory returned.
Retain ==
  LET units == groups[Temp].units
      k == upkeep.unit
      used == mem[units[k]][UsageFlag(upkeep.slot)] = 1
  IN
  /\ upkeep.pc = "retain"
  /\ k <= Len(units)
  /\ IF ~used /\ IsLastSlot(upkeep.slot)
       THEN /\ allocated' = allocated \ {units[k]}
            /\ groups' = [groups EXCEPT ![Temp].units = RemoveAt(units, k)]
            /\ upkeep' = [upkeep EXCEPT !.slot = 0]
       ELSE /\ upkeep' = IF used THEN [upkeep EXCEPT !.unit = k + 1, !.slot = 0]
                         ELSE [upkeep EXCEPT !.slot = @ + 1]
            /\ UNCHANGED <<allocated, groups>>
  /\ UNCHANGED <<mem, lock, call, report>>

\* Mutant: the indexes are not cleared although units have moved.
KeepIndexes(q) == q

\* indexes_of_units_to_check_for_allocation.clear()
ClearIndexes(q) == <<>>

EndRetain ==
  /\ upkeep.pc = "retain"
  /\ upkeep.unit > Len(groups[Temp].units)
  /\ groups' = [groups EXCEPT ![Temp].toCheck = ClearIndexes(@)]
  /\ upkeep' = [upkeep EXCEPT !.pc = "index", !.unit = 1]
  /\ UNCHANGED <<allocated, mem, lock, call, report>>

\* has_any_free_slot reads one flag of the next unit.
IndexUnit ==
  LET k == upkeep.unit
      free == mem[groups[Temp].units[k]][UsageFlag(upkeep.slot)] = 0
  IN
  /\ upkeep.pc = "index"
  /\ k <= Len(groups[Temp].units)
  /\ groups' = IF free THEN [groups EXCEPT ![Temp].toCheck = Append(@, k)] ELSE groups
  /\ upkeep' = IF free \/ upkeep.slot = SlotCount - 1
                 THEN [upkeep EXCEPT !.unit = k + 1, !.slot = 0]
                 ELSE [upkeep EXCEPT !.slot = @ + 1]
  /\ UNCHANGED <<allocated, mem, lock, call, report>>

\* do_maintenance of a shard's group is over.
EndIndex ==
  /\ upkeep.pc = "index"
  /\ upkeep.shard < ShardCount
  /\ upkeep.unit > Len(groups[Temp].units)
  /\ upkeep' = [upkeep EXCEPT !.pc = "in", !.unit = 1]
  /\ UNCHANGED <<allocated, mem, groups, lock, call, report>>

\* Mutant: do_maintenance of the temporary group does not look for empty units.
IndexOnly(s) == IF s = ShardCount - 1 THEN "index" ELSE "out"

\* What follows the maintenance of shard s.
AfterShard(s) == IF s = ShardCount - 1 THEN "retain" ELSE "out"

\* The group goes back to its shard, what was allocated meanwhile stays in the
\* temporary group.  After the last shard that one has its turn.
SwapIn ==
  /\ upkeep.pc = "in"
  /\ lock[upkeep.shard] = NULL
  /\ Exchange(upkeep.shard)
  /\ upkeep' = [upkeep EXCEPT !.pc = AfterShard(upkeep.shard), !.shard = @ + 1]
  /\ UNCHANGED <<allocated, mem, lock, call, report>>

EndMaintenance ==
  /\ upkeep.pc = "index"
  /\ upkeep.shard = ShardCount
  /\ upkeep.unit > Len(groups[Temp].units)
  /\ lock' = [lock EXCEPT ![Temp] = NULL]
  /\ upkeep' = [upkeep EXCEPT !.pc = "idle", !.shard = 0, !.unit = 1]
  /\ UNCHANGED <<allocated, mem, groups, call, report>>

-----------------------------------------------------------------------------
\* The boxes whose slot is theirs: from the swap of its flag to the swap back.
HasSlot(b) == call[b].pc \in {"init", "own", "dealloc"}

\* The n-th lock get_status_report takes: the temporary group, then the shards.
NthLock(n) == IF n = 0 THEN Temp ELSE n - 1

\* Mutant: the lock of a group is released again at once.
ReportTouch ==
  /\ report.locks <= ShardCount
  /\ lock[NthLock(report.locks)] = NULL
  /\ report' = [report EXCEPT !.locks = @ + 1,
                              !.atMost = Cardinality({b \in Boxes : HasSlot(b)})]
  /\ UNCHANGED <<allocated, mem, groups, lock, call, upkeep>>

ReportLock ==
  /\ report.locks <= ShardCount
  /\ lock[NthLock(report.locks)] = NULL
  /\ lock' = [lock EXCEPT ![NthLock(report.locks)] = "report"]
  /\ report' = [report EXCEPT !.locks = @ + 1,
                              !.atMost = Cardinality({b \in Boxes : HasSlot(b)})]
  /\ UNCHANGED <<allocated, mem, groups, call, upkeep>>

\* get_unused_slot_count loads the next flag of the group.  What is not unused
\* is used.
ReportFlag ==
  LET units == groups[report.counted].units
      unused == mem[units[report.unit]][UsageFlag(report.slot)] = 0
      last == IsLastSlot(report.slot)
  IN
  /\ report.locks = ShardCount + 1
  /\ report.counted <= ShardCount
  /\ report.unit <= Len(units)
  /\ report' = [report EXCEPT !.used = IF unused THEN @ ELSE @ + 1,
                              !.unit = IF last THEN @ + 1 ELSE @,
                              !.slot = IF last THEN 0 ELSE @ + 1]
  /\ UNCHANGED <<allocated, mem, groups, lock, call, upkeep>>

\* A group is counted; the next shard's follows, the temporary one comes last.
ReportGroup ==
  /\ report.locks = ShardCount + 1
  /\ report.counted <= ShardCount
  /\ report.unit > Len(groups[report.counted].units)
  /\ report' = [report EXCEPT !.counted = @ + 1, !.unit = 1]
  /\ UNCHANGED <<allocated, mem, groups, lock, call, upkeep>>

\* The report is made and all locks are released.
ReportDone ==
  /\ report.counted = ShardCount + 1
  /\ lock' = [g \in Groups |-> IF lock[g] = "report" THEN NULL ELSE lock[g]]
  /\ report' = NoReport
  /\ UNCHANGED <<allocated, mem, groups, call, upkeep>>

-----------------------------------------------------------------------------
BoxStep(b) ==
  \/ LockShard(b)
  \/ \E u \in Units : NewUnit(b, u)
  \/ OutOfMemory(b)
  \/ TryUnit(b)
  \/ Claim(b)
  \/ Initialise(b)
  \/ \E p \in Shards : InitPanics(b, p)

\* Steps that user code decides on, and the end of a drop.
UserStep(b) ==
  \/ \E s \in Shards : Allocate(b, s)
  \/ DropValues(b)
  \/ Deallocate(b)

MaintenanceStep ==
  SwapOut \/ Retain \/ EndRetain \/ IndexUnit \/ EndIndex \/ SwapIn \/ EndMaintenance

ReportStep == ReportLock \/ ReportFlag \/ ReportGroup \/ ReportDone

AllocNext ==
  \/ \E b \in Boxes : BoxStep(b) \/ UserStep(b)
  \/ BeginMaintenance
  \/ MaintenanceStep
  \/ ReportStep

AllocSpec == AllocInit /\ [][AllocNext]_allocVars

-----------------------------------------------------------------------------
\* A slot belongs to one box at most, from the swap of its flag to the swap
\* back; all the time its unit has not been returned to the system and its flag
\* is set (so the assert of the deallocation holds), although maintenance only
\* looks at one flag at a time and boxes are dropped without a lock.
SlotsAreExclusive ==
  \A b \in Boxes : HasSlot(b) =>
    /\ call[b].unit \in allocated
    /\ mem[call[b].unit][UsageFlag(call[b].slot)] = 1
    /\ \A c \in Boxes \ {b} :
         HasSlot(c) => <<call[b].unit, call[b].slot>> # <<call[c].unit, call[c].slot>>

\* The words of a slot hold one value each while a box owns it, and none
\* otherwise: no value is leaked, dropped twice or dropped without having been
\* written, also when init_func panics half way through the shards.
ValuesAreDroppedOnce ==
  \A u \in Units, i \in Slots, s \in Shards :
    mem[u][PtrAtShard(i, s)] =
      Cardinality({b \in Boxes : call[b].pc = "own" /\ call[b].unit = u /\ call[b].slot = i})

\* Wherever maintenance is with its exchanges, an allocated unit is in exactly
\* one place of one group, or is the new unit of one call that is not finished;
\* nothing else is listed.
UnitsAreAccountedFor ==
  \A u \in Units :
    Cardinality({x \in Groups \X (1 .. Cardinality(Units)) :
                   x[2] <= Len(groups[x[1]].units) /\ groups[x[1]].units[x[2]] = u})
      + Cardinality({b \in Boxes : call[b].fresh /\ call[b].unit = u})
    = IF u \in allocated THEN 1 ELSE 0

\* The index that allocate() uses without looking is that of a unit of the
\* group, and no unit is to be checked twice.
IndexesAreValid ==
  \A g \in Groups : \A k \in DOMAIN groups[g].toCheck :
    ~(g = Temp /\ upkeep.pc = "retain") =>
      /\ groups[g].toCheck[k] \in DOMAIN groups[g].units
      /\ \A l \in DOMAIN groups[g].toCheck \ {k} : groups[g].toCheck[l] # groups[g].toCheck[k]

\* "Collector can run in parallel and swap shards thus make number inaccurate.
\* Lock all locks to prevent" (sharded_alloc.rs:319): total_used_slot_count
\* counts every slot once, whatever group it is in.  Slots can still be freed
\* while it counts.
ReportIsExact ==
  report.counted = ShardCount + 1 =>
    Cardinality({b \in Boxes : HasSlot(b)}) <= report.used /\ report.used <= report.atMost
=============================================================================
