------------------------------ MODULE ShardSum ------------------------------
(***************************************************************************)
(* The sum of the reference counts of all shards, which the source never   *)
(* computes atomically (src/src/collector.rs reads one shard after the     *)
(* other) but which decides whether an object is alive.                    *)
(***************************************************************************)
EXTENDS TaggedCounter

\* PrefixSum(c, n)[k] is the sum of the counts in shards 0 .. k-1 of c.
PrefixSum(c, n) ==
  LET f[k \in 0 .. n] == IF k = 0 THEN 0 ELSE f[k - 1] + RefCount(c[k - 1])
  IN  f

\* The strong count sum of a counter word array c with n shards.
CountSum(c, n) == PrefixSum(c, n)[n]
=============================================================================
