----------------------------- MODULE ShardIndex -----------------------------
(***************************************************************************)
(* How many shards there are and which one a thread works on               *)
(* (src/src/shard_index.rs, and the environment variable that               *)
(* src/src/env_params.rs parses).  The number is computed once, on first    *)
(* use, and is a power of two so that a bit mask can stand for a remainder. *)
(***************************************************************************)
EXTENDS Integers

CONSTANTS
  EnvCounts,    \* what RUST_SDARC_SHARD_COUNT may parse to, or NotSet, NotANumber
  Parallelisms, \* what available_parallelism may return, 0 standing for an error
  Cpus,         \* what sched_getcpu may return; -1 is an error
  UsizeCount    \* bound: how many values a usize has, 2^64 in the code

NotSet == -1
NotANumber == -2

ASSUME IndexAssumption ==
  /\ EnvCounts \subseteq Nat \cup {NotSet, NotANumber}
  /\ Parallelisms \subseteq Nat
  /\ Cpus \subseteq Int
  /\ UsizeCount \in Nat \ {0}

VARIABLES
  envCount,    \* the environment variable
  parallelism, \* the machine
  shardCount   \* SHARD_COUNT: a LazyLock

indexVars == <<envCount, parallelism, shardCount>>

\* The LazyLock before its first use, and after its initialiser has panicked.
Uninitialised == 0
Poisoned == -1

MaxShardCount == 256
MinExponent == 0
MaxExponent == 8

-----------------------------------------------------------------------------
\* usize::count_ones, trailing_zeros, ilog2 and &, bit by bit.
CountOnes[n \in Nat] == IF n = 0 THEN 0 ELSE (n % 2) + CountOnes[n \div 2]

TrailingZeros[n \in Nat \ {0}] == IF n % 2 = 1 THEN 0 ELSE 1 + TrailingZeros[n \div 2]

Ilog2[n \in Nat] == IF n <= 1 THEN 0 ELSE 1 + Ilog2[n \div 2]

BitAnd[p \in Nat \X Nat] ==
  IF p[1] = 0 \/ p[2] = 0
    THEN 0
    ELSE (p[1] % 2) * (p[2] % 2) + 2 * BitAnd[<<p[1] \div 2, p[2] \div 2>>]

Clamp(e) == IF e < MinExponent THEN MinExponent ELSE IF e > MaxExponent THEN MaxExponent ELSE e

FromExponentAdjusted(e) == 2 ^ Clamp(e)

\* Mutant: every count is rounded up as if it were not a power of two.
AlwaysNextPower(num) == FromExponentAdjusted(Ilog2[num] + 1)

FromUsizeAdjusted(num) ==
  FromExponentAdjusted(IF CountOnes[num] = 1 THEN TrailingZeros[num] ELSE Ilog2[num] + 1)

\* shard_count_from_env_var panics: not a number, too large, or zero.
EnvPanics == envCount = NotANumber \/ envCount > MaxShardCount \/ envCount = 0

\* The number of shards that is asked for: the variable if it is set, else
\* available_parallelism, or 1 if that is unknown.
Requested ==
  IF envCount # NotSet THEN envCount ELSE IF parallelism = 0 THEN 1 ELSE parallelism

\* init_shard_count, run by the first get_shard_count.
InitShardCount ==
  /\ shardCount = Uninitialised
  /\ shardCount' = IF EnvPanics THEN Poisoned ELSE FromUsizeAdjusted(Requested)
  /\ UNCHANGED <<envCount, parallelism>>

\* "num as usize" of a C int: -1 becomes the largest usize.
AsUsize(num) == num % UsizeCount

\* Mutant: the count itself is the mask.
CountAsMask(count, num) == BitAnd[<<num, count>>] % 256

\* ShardCount::modulo: num & mask, "as u8".
Modulo(count, num) == BitAnd[<<num, count - 1>>] % 256

\* curr_shard_index: the CPU that the calling thread runs on, which may be
\* another one at the next call.
CurrShardIndex(cpu) == Modulo(shardCount, AsUsize(cpu))

\* shard_indexes() and shard_indexes_until(i).
ShardIndexes == 0 .. shardCount - 1

-----------------------------------------------------------------------------
\* The machine is asked only if the variable is not set.
IndexInit ==
  /\ envCount \in EnvCounts
  /\ parallelism \in IF envCount = NotSet THEN Parallelisms ELSE {0}
  /\ shardCount = Uninitialised

\* from_usize_adjusted, clamping included, is the least power of two that is
\* not below the requested number, or 256 when that is larger.
ShardCountRoundsUp ==
  shardCount > 0 =>
    /\ \E e \in MinExponent .. MaxExponent : shardCount = 2 ^ e
    /\ Requested <= MaxShardCount => shardCount >= Requested /\ shardCount < 2 * Requested
    /\ Requested > MaxShardCount => shardCount = MaxShardCount

\* The mask is a remainder and the u8 loses nothing: every index that
\* curr_shard_index returns is one of shard_indexes(), even when the CPU is
\* unknown (-1), so the unchecked pointer arithmetic stays inside its array.
IndexesStayInRange ==
  shardCount > 0 =>
    \A cpu \in Cpus :
      CurrShardIndex(cpu) \in ShardIndexes /\ CurrShardIndex(cpu) = AsUsize(cpu) % shardCount
=============================================================================
