--------------------------- MODULE ShardedRwLock ---------------------------
(***************************************************************************)
(* ShardedRwLock (src/src/sharded_rwlock.rs): a reader locks the shard of  *)
(* the CPU it runs on, a writer locks every shard in index order and then  *)
(* unlocks them one after the other.                                       *)
(*                                                                         *)
(* The lock of one shard is a parking_lot RwLock: a writer first takes the *)
(* writer bit, which keeps new readers out, and then waits for the readers *)
(* that are inside.  A write guard may be handed to another thread (it is  *)
(* Send); a read guard contains one of parking_lot's and may not.  A       *)
(* thread that has a guard does not lock again: it would wait for itself.  *)
(***************************************************************************)
EXTENDS ShardIndex

CONSTANTS
  Threads,
  MaxLockShards, \* bound: a lock is created only for so many shards
  NULL

ASSUME LockThreadsAssumption == NULL \notin Threads

ASSUME MaxLockShardsAssumption == MaxLockShards \in Nat

VARIABLES
  created, \* whether ShardedRwLock::new has returned
  writer,  \* per shard, the thread that has set the writer bit
  readers, \* per shard, the threads that hold a read lock
  pc,      \* what each thread does
  at       \* the shard it is at

lockVars == <<created, writer, readers, pc, at>>

vars == <<indexVars, lockVars>>

\* Shards that a lock may have; it has those in ShardIndexes.
LockShards == 0 .. MaxLockShards - 1

\* "read": in lock_shard.read().  "bit", "wait": in lock_ref.write() of shard
\* at[t].  "unlock": in the drop of the write guard.
Steps == {"idle", "read", "reading", "bit", "wait", "writing", "unlock"}

LockTypeOK ==
  /\ created \in BOOLEAN
  /\ created => shardCount \in 1 .. MaxLockShards
  /\ writer \in [LockShards -> Threads \cup {NULL}]
  /\ readers \in [LockShards -> SUBSET Threads]
  /\ pc \in [Threads -> Steps]
  /\ at \in [Threads -> Nat]
  /\ \A t \in Threads : pc[t] # "idle" => created /\ at[t] \in ShardIndexes

Init ==
  /\ IndexInit
  /\ created = FALSE
  /\ writer = [s \in LockShards |-> NULL]
  /\ readers = [s \in LockShards |-> {}]
  /\ pc = [t \in Threads |-> "idle"]
  /\ at = [t \in Threads |-> 0]

Goto(t, step, s) ==
  /\ pc' = [pc EXCEPT ![t] = step]
  /\ at' = [at EXCEPT ![t] = s]

-----------------------------------------------------------------------------
\* ShardedRwLock::new: an unlocked RwLock in every shard.
New ==
  /\ ~created
  /\ shardCount \in 1 .. MaxLockShards
  /\ created' = TRUE
  /\ UNCHANGED <<indexVars, writer, readers, pc, at>>

\* read: at_curr_shard is evaluated; the thread may migrate afterwards.
Read(t, s) ==
  /\ created
  /\ pc[t] = "idle"
  /\ Goto(t, "read", s)
  /\ UNCHANGED <<indexVars, created, writer, readers>>

\* RwLock::read of one shard returns.
AcquireRead(t) ==
  /\ pc[t] = "read"
  /\ writer[at[t]] = NULL
  /\ readers' = [readers EXCEPT ![at[t]] = @ \cup {t}]
  /\ Goto(t, "reading", at[t])
  /\ UNCHANGED <<indexVars, created, writer>>

\* try_read that succeeds; one that fails changes nothing.
TryRead(t, s) ==
  /\ created
  /\ pc[t] = "idle"
  /\ writer[s] = NULL
  /\ readers' = [readers EXCEPT ![s] = @ \cup {t}]
  /\ Goto(t, "reading", s)
  /\ UNCHANGED <<indexVars, created, writer>>

\* Drop of ReadGuardOfShardedRwLock.
EndRead(t) ==
  /\ pc[t] = "reading"
  /\ readers' = [readers EXCEPT ![at[t]] = @ \ {t}]
  /\ Goto(t, "idle", 0)
  /\ UNCHANGED <<indexVars, created, writer>>

-----------------------------------------------------------------------------
\* write: the loop over shard_indexes() begins.
Write(t) ==
  /\ created
  /\ pc[t] = "idle"
  /\ Goto(t, "bit", 0)
  /\ UNCHANGED <<indexVars, created, writer, readers>>

\* RwLock::write of one shard: the writer bit.
TakeWriterBit(t) ==
  /\ pc[t] = "bit"
  /\ writer[at[t]] = NULL
  /\ writer' = [writer EXCEPT ![at[t]] = t]
  /\ Goto(t, "wait", at[t])
  /\ UNCHANGED <<indexVars, created, readers>>

\* Mutant: the writer's loop leaves out the last shard.
LastButOne(s) == s + 1 >= shardCount - 1

\* Mutant: the loop does one shard too many.
OnePastLast(s) == s = shardCount

\* The loop over the shards ends after s.
IsLast(s) == s = shardCount - 1

\* The readers of the shard are gone: RwLock::write returns, the guard is
\* forgotten and the loop goes on to the next shard.
ReadersGone(t) ==
  /\ pc[t] = "wait"
  /\ readers[at[t]] = {}
  /\ IF IsLast(at[t]) THEN Goto(t, "writing", at[t]) ELSE Goto(t, "bit", at[t] + 1)
  /\ UNCHANGED <<indexVars, created, writer, readers>>

\* Thread t hands the write guard to u, which will drop it.
SendGuard(t, u) ==
  /\ pc[t] = "writing"
  /\ pc[u] = "idle"
  /\ writer' = [s \in LockShards |-> IF writer[s] = t THEN u ELSE writer[s]]
  /\ pc' = [pc EXCEPT ![t] = "idle", ![u] = "writing"]
  /\ at' = [at EXCEPT ![t] = 0, ![u] = at[t]]
  /\ UNCHANGED <<indexVars, created, readers>>

\* Drop of WriteGuardOfShardedRwLock begins.
EndWrite(t) ==
  /\ pc[t] = "writing"
  /\ Goto(t, "unlock", 0)
  /\ UNCHANGED <<indexVars, created, writer, readers>>

\* Mutant: the drop of the write guard recovers the guard of the first shard only.
UnlockFirst(t) ==
  /\ pc[t] = "unlock"
  /\ writer' = [writer EXCEPT ![at[t]] = NULL]
  /\ Goto(t, "idle", 0)
  /\ UNCHANGED <<indexVars, created, readers>>

\* make_write_guard_unchecked recovers the guard of one shard and drops it.
Unlock(t) ==
  /\ pc[t] = "unlock"
  /\ writer' = [writer EXCEPT ![at[t]] = NULL]
  /\ IF IsLast(at[t]) THEN Goto(t, "idle", 0) ELSE Goto(t, "unlock", at[t] + 1)
  /\ UNCHANGED <<indexVars, created, readers>>

\* The steps of a thread that has called the lock, or holds a guard.
Continue(t) ==
  AcquireRead(t) \/ EndRead(t) \/ TakeWriterBit(t) \/ ReadersGone(t) \/ EndWrite(t) \/ Unlock(t)

Next ==
  \/ InitShardCount /\ UNCHANGED lockVars
  \/ New
  \/ \E t \in Threads :
       \/ \E cpu \in Cpus : Read(t, CurrShardIndex(cpu)) \/ TryRead(t, CurrShardIndex(cpu))
       \/ Write(t)
       \/ \E u \in Threads : SendGuard(t, u)
       \/ Continue(t)

Spec == Init /\ [][Next]_vars

-----------------------------------------------------------------------------
\* A thread that may write the data is alone: no other one may read or write
\* it, whatever shards the others locked and wherever they are in their loops.
MutualExclusion ==
  \A t, u \in Threads : t # u /\ pc[t] = "writing" => pc[u] \notin {"reading", "writing"}

\* Guards are dropped in the end, a write guard by the thread that has it then,
\* parking_lot wakes waiting threads, and two threads that wait for the same bit
\* both get it ("eventual fairness").  Nobody has to call read or write.
Fairness ==
  /\ WF_vars(\E t \in Threads : EndWrite(t))
  /\ \A t \in Threads :
       /\ WF_vars(EndRead(t)) /\ WF_vars(ReadersGone(t)) /\ WF_vars(Unlock(t))
       /\ SF_vars(AcquireRead(t)) /\ SF_vars(TakeWriterBit(t))

FairSpec == Spec /\ Fairness

\* "Different locking order may cause deadlock" (sharded_rwlock.rs:67): with
\* this order every read and write call returns, although a writer holds some
\* shards while it waits for readers and other writers on the next one.
EveryCallIsGranted ==
  \A t \in Threads :
    /\ pc[t] = "read" ~> pc[t] = "reading"
    /\ pc[t] = "bit" ~> pc[t] = "writing"
=============================================================================
