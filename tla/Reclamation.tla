---------------------------- MODULE Reclamation ----------------------------
(***************************************************************************)
(* What the collector achieves over time: garbage is freed in the end and  *)
(* every iteration ends.                                                   *)
(***************************************************************************)
EXTENDS SdarcSafety

-----------------------------------------------------------------------------
\* The objects user code still has a pointer to, of whatever sort.
Roots ==
  {o \in Objects :
     \/ \E p \in Handles \cup Cells : holds[p] = o
     \/ \E t \in Threads : op[t].ptr = o
     \/ \E t \in Threads, i \in Slots : signals[t].slots[i] = o}

Successors(o) ==
  {holds[DataField(o)], holds[WeakField(o)], backRef[o]} \ {NULL}

\* o is allocated and no chain of strong or weak references leads to it.
Garbage(o) ==
  /\ Live(o)
  /\ \E closed \in SUBSET Objects :
       /\ Roots \subseteq closed
       /\ \A x \in closed : Successors(x) \subseteq closed
       /\ o \notin closed

-----------------------------------------------------------------------------
\* The collector thread runs, a thread inside a library call goes on with it,
\* and a store leaves the store buffer in finite time.  Nothing makes user code
\* call another operation, and polling a flag that keeps changing may miss every
\* moment at which it is false.
Fairness ==
  /\ WF_vars(CollectorStep /\ UNCHANGED op)
  /\ \A t \in Threads : WF_vars(ContinueStep(t))
  /\ \A t \in Threads : WF_vars(DrainFlag(t) /\ UNCHANGED <<heapVars, collectorVars, op>>)
  /\ \A t \in Threads, i \in Slots :
       WF_vars(DrainSlot(t, i) /\ UNCHANGED <<heapVars, collectorVars, op>>)

FairSpec == Spec /\ Fairness

\* If no reader keeps entering its critical section for ever, garbage is freed:
\* no hazard pointer, tag, half-finished load or other thread's traffic keeps an
\* unreachable object allocated for good.
GarbageIsFreed ==
  (\A t \in Threads : <>[](~signals[t].flag)) =>
    \A o \in Objects : Garbage(o) ~> kind[o] = "unallocated"

\* The collector is never stuck for good in the same conditions: every outer
\* iteration ends, so a caller of collector_update_now_and_wait is notified.
IterationEnds ==
  (\A t \in Threads : <>[](~signals[t].flag)) => []<>(cpc = "park")
=============================================================================
