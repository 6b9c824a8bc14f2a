------------------------- MODULE ReclamationHistory -------------------------
(***************************************************************************)
(* What depends on how a state was reached: a weak reference stays         *)
(* upgradable while a strong one has always existed, and what a deep       *)
(* iteration leaves of the garbage it found.                               *)
(*                                                                         *)
(* Two history variables record what the properties talk about; they never *)
(* influence a step.                                                       *)
(***************************************************************************)
EXTENDS Reclamation

VARIABLES
  zeroed,  \* live objects that have been without an owner at some moment
  doomed   \* live objects that were garbage when this deep iteration began

historyVars == <<vars, zeroed, doomed>>

-----------------------------------------------------------------------------
HistoryInit == zeroed = {} /\ doomed = {}

Record ==
  /\ zeroed' = {o \in Objects : Live(o)' /\ (o \in zeroed \/ Holders(o)' = {})}
  /\ doomed' = IF cpc = "park" /\ cpc' = "take"
                 THEN {o \in Objects : deep' /\ Garbage(o)}
                 ELSE {o \in doomed : Live(o)'}

HistorySpec == Init /\ HistoryInit /\ [][Next /\ Record]_historyVars

\* "If the strong count sum never reaches 0, upgrade will succeed"
\* (weak_sdarc.rs:141): the back_ref of an object is null only after the object
\* has been without any owner, whatever zero the collector has added up.
UpgradeFailsOnlyAfterZero ==
  \A o \in Objects :
    kind[o] = "data" /\ holds[WeakField(o)] # NULL /\ backRef[holds[WeakField(o)]] = NULL
      => o \in zeroed

\* "You can call `collector_update_now_and_wait` to force immediate collection"
\* (README.md:55; stress_test.rs:721-735 asserts that nothing is left): what was
\* garbage when the deep iteration began is freed when it ends.
DeepCollectionCompletes == cpc = "park" => doomed = {}
=============================================================================
