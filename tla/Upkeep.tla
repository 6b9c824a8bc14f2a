------------------------------- MODULE Upkeep -------------------------------
(***************************************************************************)
(* What the collector's update does besides collecting, run by its loop:   *)
(* CollectorThreadState::update ends with the maintenance of the sharded   *)
(* allocator and, when trace logging is on, with its status report.  Boxes *)
(* are allocated and dropped meanwhile, and callers wait for updates.      *)
(***************************************************************************)
EXTENDS ShardedAlloc, CollectorLoop

VARIABLES
  disabled, \* disable_sharded_alloc_maintenance(): an environment variable of test builds
  stage,    \* how far update() is
  due       \* history: per caller, the units that were empty when its sender was
            \* pushed, have been empty ever since and are still allocated

vars == <<allocVars, loopVars, disabled, stage, due>>

Init ==
  /\ AllocInit
  /\ LoopInit
  /\ disabled \in BOOLEAN
  /\ stage = "collect"
  /\ due = [w \in Waiters |-> {}]

\* The units of the groups that have no used slot.
EmptyUnits ==
  {u \in Units : /\ \E g \in Groups : \E k \in DOMAIN groups[g].units : groups[g].units[k] = u
                 /\ \A i \in Slots : mem[u][UsageFlag(i)] = 0}

\* Bookkeeping of due.
Track == due' = [w \in Waiters |-> due[w] \cap EmptyUnits']

-----------------------------------------------------------------------------
\* do_maintenance_by_collector begins, after the collection.
StartMaintenance ==
  /\ lpc = "update"
  /\ stage = "collect"
  /\ ~disabled
  /\ BeginMaintenance
  /\ stage' = "maintain"
  /\ UNCHANGED <<loopVars, disabled>>
  /\ Track

\* Its early return.
SkipMaintenance ==
  /\ lpc = "update"
  /\ stage = "collect"
  /\ disabled
  /\ stage' = "maintained"
  /\ UNCHANGED <<allocVars, loopVars, disabled>>
  /\ Track

Maintain ==
  /\ stage = "maintain"
  /\ MaintenanceStep
  /\ stage' = IF upkeep'.pc = "idle" THEN "maintained" ELSE stage
  /\ UNCHANGED <<loopVars, disabled>>
  /\ Track

\* log_status_in_trace_level
LogStatus ==
  /\ stage \in {"maintained", "log"}
  /\ ReportStep
  /\ stage' = IF report' = NoReport THEN "logged" ELSE "log"
  /\ UNCHANGED <<loopVars, disabled>>
  /\ Track

\* update() returns: the report is done, or trace logging is off.
FinishUpdate ==
  /\ stage \in {"maintained", "logged"}
  /\ EndUpdate
  /\ stage' = "collect"
  /\ UNCHANGED <<allocVars, disabled>>
  /\ Track

LoopStep ==
  /\ TakeWaiters \/ Notify \/ Park \/ Wake
  /\ UNCHANGED <<allocVars, disabled, stage>>
  /\ Track

CollectorStep ==
  \/ StartMaintenance
  \/ SkipMaintenance
  \/ Maintain
  \/ LogStatus
  \/ FinishUpdate
  \/ LoopStep

TimeoutStep ==
  /\ Timeout
  /\ UNCHANGED <<allocVars, disabled, stage>>
  /\ Track

CallStep(w) ==
  /\ Call(w)
  /\ UNCHANGED <<allocVars, disabled, stage>>
  /\ Track

\* A caller goes on; what is empty when its sender is pushed is due to it.
WaiterThreadStep(w) ==
  /\ WaiterStep(w)
  /\ due' = IF wpc[w] = "push" THEN [due EXCEPT ![w] = EmptyUnits] ELSE due
  /\ UNCHANGED <<allocVars, disabled, stage>>

BoxThreadStep(b) ==
  /\ BoxStep(b)
  /\ UNCHANGED <<loopVars, disabled, stage>>
  /\ Track

\* Whether and when a box is made and dropped is up to the program.
UserThreadStep(b) ==
  /\ UserStep(b)
  /\ UNCHANGED <<loopVars, disabled, stage>>
  /\ Track

Next ==
  \/ CollectorStep
  \/ TimeoutStep
  \/ \E w \in Waiters : CallStep(w) \/ WaiterThreadStep(w)
  \/ \E b \in Boxes : BoxThreadStep(b) \/ UserThreadStep(b)

Spec == Init /\ [][Next]_vars

\* Threads are scheduled, and parking_lot's mutexes are eventually fair: who
\* waits for one gets it although others take it again and again.  Timeouts,
\* calls, allocations and drops need not happen.
FairSpec ==
  /\ Spec
  /\ SF_vars(CollectorStep)
  /\ \A w \in Waiters : SF_vars(WaiterThreadStep(w))
  /\ \A b \in Boxes : SF_vars(BoxThreadStep(b))

-----------------------------------------------------------------------------
\* When collector_update_now_and_wait returns, the memory of every unit that was
\* empty when it was called, and stayed so, has been returned to the system: no
\* exchange of groups hides a unit from the maintenance of a whole iteration.
MemoryIsReturned == \A w \in sent : disabled \/ due[w] = {}

\* Every call of collector_update_now_and_wait returns, without the help of the
\* timeout (the unpark token is never lost), and every allocation returns or
\* panics, whatever maintenance does to the groups.
CallsReturn ==
  /\ \A w \in Waiters : (wpc[w] = "push") ~> (wpc[w] = "idle")
  /\ \A b \in Boxes : (call[b].pc = "lock") ~> (call[b].pc \in {"own", "none"})
=============================================================================
