-------------------------- MODULE MCShardedRwLock --------------------------
(***************************************************************************)
(* A small instance of ShardedRwLock for TLC, on top of a wide range of    *)
(* shard counts.                                                           *)
(***************************************************************************)
EXTENDS ShardedRwLock

MCEnvCounts == {NotSet, NotANumber} \cup 0 .. 1 \cup 5 .. 9 \cup {64, 127, 128, 129, 255, 256, 257, 1000}

MCParallelisms == 0 .. 130 \cup {192, 255, 256, 257, 384, 511, 512, 513, 1023}

MCCpus == {-1, 0, 1, 2, 127, 128, 255, 256, 383}
=============================================================================
