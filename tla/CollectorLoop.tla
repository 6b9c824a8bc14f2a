--------------------------- MODULE CollectorLoop ---------------------------
(***************************************************************************)
(* The collector thread's outer loop and collector_update_now_and_wait     *)
(* (src/src/collector.rs).  A caller pushes the sender of a one-shot       *)
(* channel and unparks the collector; the collector takes the senders,     *)
(* does an update, notifies those senders and parks with a timeout.        *)
(*                                                                         *)
(* An update is one step between two states here: Sdarc models what it     *)
(* collects, Upkeep its maintenance of the allocator.                      *)
(***************************************************************************)
EXTENDS Integers, Sequences, FiniteSets

CONSTANTS
  Waiters \* threads that call collector_update_now_and_wait

VARIABLES
  lpc,    \* what the collector thread does
  queue,  \* collection_waiting
  qlock,  \* whether a caller holds the lock of collection_waiting
  token,  \* the unpark token of the collector thread
  batch,  \* to_notify
  deepUpdate, \* should_do_deep_collection, while update() runs
  wpc,    \* what each caller does
  sent,   \* callers whose channel holds the message
  served  \* history: whether an iteration has begun since the push, and whether a
          \* deep one that did has ended

loopVars == <<lpc, queue, qlock, token, batch, deepUpdate, wpc, sent, served>>

LoopTypeOK ==
  /\ lpc \in {"unborn", "take", "update", "notify", "park"}
  /\ queue \in Seq(Waiters)
  /\ qlock \in BOOLEAN
  /\ token \in BOOLEAN
  /\ batch \in Seq(Waiters)
  /\ deepUpdate \in BOOLEAN
  /\ wpc \in [Waiters -> {"idle", "push", "unpark", "recv"}]
  /\ sent \in SUBSET Waiters
  /\ served \in [Waiters -> {"no", "begun", "done"}]

LoopInit ==
  /\ lpc = "unborn"
  /\ queue = <<>>
  /\ qlock = FALSE
  /\ token = FALSE
  /\ batch = <<>>
  /\ deepUpdate = FALSE
  /\ wpc = [w \in Waiters |-> "idle"]
  /\ sent = {}
  /\ served = [w \in Waiters |-> "no"]

-----------------------------------------------------------------------------
\* collector_update_now_and_wait begins: get_collector() starts the thread if
\* nobody has, and the channel is made.
Call(w) ==
  /\ wpc[w] = "idle"
  /\ wpc' = [wpc EXCEPT ![w] = "push"]
  /\ lpc' = IF lpc = "unborn" THEN "take" ELSE lpc
  /\ UNCHANGED <<queue, qlock, token, batch, deepUpdate, sent, served>>

\* The lock is taken and the sender pushed.
PushSender(w) ==
  /\ wpc[w] = "push"
  /\ ~qlock
  /\ qlock' = TRUE
  /\ queue' = Append(queue, w)
  /\ wpc' = [wpc EXCEPT ![w] = "unpark"]
  /\ served' = [served EXCEPT ![w] = "no"]
  /\ UNCHANGED <<lpc, token, batch, deepUpdate, sent>>

\* Mutant: only a collector that is parked notices.
TokenIfParked == lpc = "park"

\* unpark() leaves its token whether or not the collector is parked now.
TokenAfterUnpark == TRUE

\* unpark() with the lock held, and the lock is released.
Unpark(w) ==
  /\ wpc[w] = "unpark"
  /\ token' = TokenAfterUnpark
  /\ qlock' = FALSE
  /\ wpc' = [wpc EXCEPT ![w] = "recv"]
  /\ UNCHANGED <<lpc, queue, batch, deepUpdate, sent, served>>

\* recv() returns.
Receive(w) ==
  /\ wpc[w] = "recv"
  /\ w \in sent
  /\ sent' = sent \ {w}
  /\ wpc' = [wpc EXCEPT ![w] = "idle"]
  /\ UNCHANGED <<lpc, queue, qlock, token, batch, deepUpdate, served>>

-----------------------------------------------------------------------------
\* Mutant: collection_waiting is asked after the senders were taken from it.
DeepIfStillWaiting == queue' # <<>>

\* should_do_deep_collection: somebody is to be notified.
DeepIfWaiting == batch' # <<>>

\* mem::take of collection_waiting: the iteration begins.
TakeWaiters ==
  /\ lpc = "take"
  /\ ~qlock
  /\ batch' = queue
  /\ queue' = <<>>
  /\ deepUpdate' = DeepIfWaiting
  /\ lpc' = "update"
  /\ served' = [w \in Waiters |-> IF wpc[w] = "recv" /\ served[w] = "no"
                                    THEN "begun" ELSE served[w]]
  /\ UNCHANGED <<qlock, token, wpc, sent>>

\* Only a deep iteration is what the callers wait for.
Ended == [w \in Waiters |-> IF served[w] # "begun" THEN served[w]
                             ELSE IF deepUpdate THEN "done" ELSE "no"]

\* Mutant: the senders to notify are taken after the update.
TakeAfterUpdate ==
  /\ lpc = "update"
  /\ ~qlock
  /\ lpc' = "notify"
  /\ batch' = batch \o queue
  /\ queue' = <<>>
  /\ deepUpdate' = FALSE
  /\ served' = Ended
  /\ UNCHANGED <<qlock, token, wpc, sent>>

\* state.update() returns.
EndUpdate ==
  /\ lpc = "update"
  /\ lpc' = "notify"
  /\ deepUpdate' = FALSE
  /\ served' = Ended
  /\ UNCHANGED <<queue, qlock, token, batch, wpc, sent>>

\* One sender of to_notify sends.
Notify ==
  /\ lpc = "notify"
  /\ batch # <<>>
  /\ sent' = sent \cup {Head(batch)}
  /\ batch' = Tail(batch)
  /\ UNCHANGED <<lpc, queue, qlock, token, deepUpdate, wpc, served>>

Park ==
  /\ lpc = "notify"
  /\ batch = <<>>
  /\ lpc' = "park"
  /\ UNCHANGED <<queue, qlock, token, batch, deepUpdate, wpc, sent, served>>

\* park_timeout returns because of a token, and consumes it ...
Wake ==
  /\ lpc = "park"
  /\ token
  /\ token' = FALSE
  /\ lpc' = "take"
  /\ UNCHANGED <<queue, qlock, batch, deepUpdate, wpc, sent, served>>

\* ... or because the time is over.
Timeout ==
  /\ lpc = "park"
  /\ token' = FALSE
  /\ lpc' = "take"
  /\ UNCHANGED <<queue, qlock, batch, deepUpdate, wpc, sent, served>>

-----------------------------------------------------------------------------
WaiterStep(w) == PushSender(w) \/ Unpark(w) \/ Receive(w)

-----------------------------------------------------------------------------
\* "wait until it finishes one deep collection" (collector.rs:96): wherever the
\* collector is when the call pushes its sender, the call returns only after an
\* iteration that began later, and was a deep one, has ended.
ServedByDeepIteration == \A w \in sent : served[w] = "done"
=============================================================================
