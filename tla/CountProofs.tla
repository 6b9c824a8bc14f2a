---------------------------- MODULE CountProofs ----------------------------
(***************************************************************************)
(* What one operation on one shard does to the sum of the shards, for any  *)
(* number of shards, and what a step does to the counters of an object and *)
(* to the number of its owners.                                            *)
(***************************************************************************)
EXTENDS SdarcProofs, ShardSum, WellFoundedInduction, FiniteSetTheorems

\* A non-empty set of naturals has a least element.
LEMMA LeastElement ==
  ASSUME NEW T \in SUBSET Nat, T # {}
  PROVE  \E m \in T : \A k \in T : m <= k
<1> DEFINE R == OpToRel(<, Nat)
<1>1. IsWellFoundedOn(R, Nat)
  BY NatLessThanWellFounded
<1>2. \E x \in T : \A y \in T : ~ (<<y, x>> \in R)
  <2> HIDE DEF R
  <2> QED BY <1>1, WFMin
<1>3. \A x, y \in T : ~ (<<y, x>> \in R) => x <= y
  BY DEF OpToRel
<1> QED BY <1>2, <1>3

\* A set of indices that holds 0 and every successor holds all of them.
LEMMA IndexInduction ==
  ASSUME NEW n \in Nat, NEW S \in SUBSET (0 .. n), 0 \in S,
         \A k \in 0 .. n - 1 : k \in S => k + 1 \in S
  PROVE  S = 0 .. n
<1> SUFFICES ASSUME S # 0 .. n PROVE FALSE
  OBVIOUS
<1> DEFINE T == (0 .. n) \ S
<1>1. T \in SUBSET Nat /\ T # {}
  <2>1. \E k \in 0 .. n : k \notin S
    OBVIOUS
  <2> QED BY <2>1
<1>2. PICK m \in T : \A k \in T : m <= k
  BY <1>1, LeastElement
<1>3. m # 0 /\ m \in 0 .. n
  OBVIOUS
<1>4. m - 1 \in 0 .. n - 1 /\ m - 1 \notin T
  BY <1>2, <1>3
<1> QED BY <1>3, <1>4

\* PrefixSum satisfies its recursive equation.
LEMMA SumDefined ==
  ASSUME NEW n \in Nat, NEW c \in [0 .. n - 1 -> Int]
  PROVE  /\ PrefixSum(c, n) \in [0 .. n -> Int]
         /\ PrefixSum(c, n)[0] = 0
         /\ \A k \in 0 .. n - 1 : PrefixSum(c, n)[k + 1] = PrefixSum(c, n)[k] + RefCount(c[k])
<1>0. \A k \in 0 .. n - 1 : RefCount(c[k]) \in Int
  BY DEF RefCount
<1> DEFINE Good(g, k) == /\ g \in [0 .. k -> Int]
                         /\ g[0] = 0
                         /\ \A i \in 0 .. k - 1 : g[i + 1] = g[i] + RefCount(c[i])
<1> DEFINE S == {k \in 0 .. n : \E g : Good(g, k)}
<1>1. 0 \in S
  <2>1. Good([i \in 0 .. 0 |-> 0], 0)
    OBVIOUS
  <2>2. 0 \in 0 .. n
    OBVIOUS
  <2> HIDE DEF Good
  <2> QED BY <2>1, <2>2
<1>2. ASSUME NEW k \in 0 .. n - 1, k \in S PROVE k + 1 \in S
  <2>1. PICK g : Good(g, k)
    BY <1>2
  <2> DEFINE h == [i \in 0 .. k + 1 |-> IF i = k + 1 THEN g[k] + RefCount(c[k]) ELSE g[i]]
  <2>2. Good(h, k + 1)
    BY <2>1, <1>0
  <2>3. k + 1 \in 0 .. n
    OBVIOUS
  <2> HIDE DEF Good, h
  <2> QED BY <2>2, <2>3
<1>3. S = 0 .. n
  <2> HIDE DEF S
  <2>1. S \in SUBSET (0 .. n)
    BY DEF S
  <2> QED BY <1>1, <1>2, <2>1, IndexInduction
<1>4. PICK g : Good(g, n)
  <2> HIDE DEF Good
  <2>1. n \in 0 .. n
    OBVIOUS
  <2>2. n \in S
    <3> HIDE DEF S
    <3> QED BY <1>3, <2>1
  <2> QED BY <2>2
<1> DEFINE E(f) == f = [k \in 0 .. n |-> IF k = 0 THEN 0 ELSE f[k - 1] + RefCount(c[k - 1])]
<1>5. E(g)
  BY <1>4
<1>6. E(PrefixSum(c, n))
  BY <1>5 DEF PrefixSum
<1> DEFINE p == PrefixSum(c, n)
<1>7. p[0] = 0 /\ DOMAIN p = 0 .. n /\ \A k \in 0 .. n - 1 : p[k + 1] = p[k] + RefCount(c[k])
  <2> HIDE DEF p
  <2>1. E(p)
    BY <1>6 DEF p
  <2> QED BY <2>1
<1> DEFINE U == {k \in 0 .. n : p[k] \in Int}
<1>8. U = 0 .. n
  <2>1. 0 \in U
    BY <1>7
  <2>2. ASSUME NEW k \in 0 .. n - 1, k \in U PROVE k + 1 \in U
    BY <1>0, <1>7, <2>2
  <2>3. U \in SUBSET (0 .. n)
    OBVIOUS
  <2> HIDE DEF U
  <2> QED BY <2>1, <2>2, <2>3, IndexInduction
<1> QED BY <1>6, <1>7, <1>8

\* Writing v to shard s moves every prefix that contains s by the difference of
\* the two counts, and no other.
LEMMA SumOfUpdate ==
  ASSUME NEW n \in Nat, NEW c \in [0 .. n - 1 -> Int], NEW s \in 0 .. n - 1, NEW v \in Int
  PROVE  LET d == [c EXCEPT ![s] = v]
         IN  \A k \in 0 .. n :
               PrefixSum(d, n)[k] =
                 PrefixSum(c, n)[k] + (IF s < k THEN RefCount(v) - RefCount(c[s]) ELSE 0)
<1> DEFINE d == [c EXCEPT ![s] = v]
           p == PrefixSum(c, n)
           q == PrefixSum(d, n)
           S == {k \in 0 .. n :
                   q[k] = p[k] + (IF s < k THEN RefCount(v) - RefCount(c[s]) ELSE 0)}
<1>1. d \in [0 .. n - 1 -> Int] /\ d[s] = v /\ \A i \in 0 .. n - 1 : i # s => d[i] = c[i]
  OBVIOUS
<1>2. /\ p \in [0 .. n -> Int] /\ p[0] = 0
      /\ \A k \in 0 .. n - 1 : p[k + 1] = p[k] + RefCount(c[k])
  BY SumDefined
<1>3. /\ q \in [0 .. n -> Int] /\ q[0] = 0
      /\ \A k \in 0 .. n - 1 : q[k + 1] = q[k] + RefCount(d[k])
  <2> HIDE DEF d
  <2> QED BY <1>1, SumDefined
<1>4. \A x \in Int : RefCount(x) \in Int
  BY DEF RefCount
<1> HIDE DEF d, p, q
<1>5. 0 \in S
  BY <1>2, <1>3
<1>6. ASSUME NEW k \in 0 .. n - 1, k \in S PROVE k + 1 \in S
  <2>1. RefCount(c[k]) \in Int /\ RefCount(d[k]) \in Int /\ RefCount(c[s]) \in Int /\ RefCount(v) \in Int
    BY <1>1, <1>4
  <2>2. CASE k = s
    BY <1>1, <1>2, <1>3, <1>6, <2>1, <2>2
  <2>3. CASE k # s
    <3>1. RefCount(d[k]) = RefCount(c[k]) /\ (s < k + 1 <=> s < k) /\ k + 1 \in 0 .. n
      BY <1>1, <2>3
    <3>2. p[k] \in Int /\ q[k] \in Int
      BY <1>2, <1>3
    <3>3. q[k + 1] = q[k] + RefCount(c[k]) /\ p[k + 1] = p[k] + RefCount(c[k])
      BY <1>2, <1>3, <3>1
    <3>4. CASE s < k
      BY <1>6, <2>1, <3>1, <3>2, <3>3, <3>4
    <3>5. CASE ~(s < k)
      BY <1>6, <2>1, <3>1, <3>2, <3>3, <3>5
    <3> QED BY <3>4, <3>5
  <2> QED BY <2>2, <2>3
<1>7. S = 0 .. n
  <2>1. S \in SUBSET (0 .. n)
    OBVIOUS
  <2> HIDE DEF S
  <2> QED BY <1>5, <1>6, <2>1, IndexInduction
<1> QED BY <1>7 DEF d, p, q

\* Counters that are all zero sum to zero.
LEMMA SumOfZero ==
  ASSUME NEW n \in Nat, NEW c \in [0 .. n - 1 -> Int], \A i \in 0 .. n - 1 : c[i] = 0
  PROVE  CountSum(c, n) = 0
<1> DEFINE p == PrefixSum(c, n)
           S == {k \in 0 .. n : p[k] = 0}
<1>1. /\ p \in [0 .. n -> Int] /\ p[0] = 0
      /\ \A k \in 0 .. n - 1 : p[k + 1] = p[k] + RefCount(c[k])
  BY SumDefined
<1>2. RefCount(0) = 0
  BY DEF RefCount
<1> HIDE DEF p
<1>3. 0 \in S
  BY <1>1
<1>4. ASSUME NEW k \in 0 .. n - 1, k \in S PROVE k + 1 \in S
  BY <1>1, <1>2, <1>4
<1>5. S = 0 .. n
  <2>1. S \in SUBSET (0 .. n)
    OBVIOUS
  <2> HIDE DEF S
  <2> QED BY <1>3, <1>4, <2>1, IndexInduction
<1> QED BY <1>5 DEF p, CountSum

-----------------------------------------------------------------------------
\* What the operations of tagged_counter.rs do to the count and to the tag.
LEMMA WordFacts ==
  ASSUME NEW v \in Int
  PROVE  /\ RefCount(v) \in Int
         /\ RefCount(IncrementRefCount(v)) = RefCount(v) + 1
         /\ Tag(IncrementRefCount(v)) <=> Tag(v)
         /\ RefCount(DecrementRefCountAndSetTag(v)) = RefCount(v) - 1
         /\ Tag(DecrementRefCountAndSetTag(v))
         /\ RefCount(ClearTag(v)) = RefCount(v)
BY DEF RefCount, Tag, IncrementRefCount, DecrementRefCountAndSetTag, SetTag, ClearTag

\* The counts of c from shard k on, and whether one of these shards has a tag.
SumFrom(c, k) == CountSum(c, ShardCount) - PrefixSum(c, ShardCount)[k]

TagFrom(c, k) == \E s \in Shards : s >= k /\ Tag(c[s])

\* The sums are integers; nothing is left to add after the last shard, one word
\* before it, and everything before the first.
LEMMA SumFacts ==
  ASSUME NEW c \in [Shards -> Int]
  PROVE  /\ CountSum(c, ShardCount) \in Int
         /\ \A k \in 0 .. ShardCount : SumFrom(c, k) \in Int
         /\ SumFrom(c, 0) = CountSum(c, ShardCount)
         /\ SumFrom(c, LastShard) = RefCount(c[LastShard])
         /\ \A k \in Shards : SumFrom(c, k) = RefCount(c[k]) + SumFrom(c, k + 1)
<1> DEFINE p == PrefixSum(c, ShardCount)
<1>1. ShardCount \in Nat \ {0} /\ Shards = 0 .. ShardCount - 1
  BY ShardCountAssumption DEF Shards
<1>2. /\ p \in [0 .. ShardCount -> Int] /\ p[0] = 0
      /\ \A k \in 0 .. ShardCount - 1 : p[k + 1] = p[k] + RefCount(c[k])
  BY <1>1, SumDefined
<1>3. \A k \in Shards : RefCount(c[k]) \in Int
  BY WordFacts
<1> HIDE DEF p
<1>4. /\ p[ShardCount] \in Int
      /\ \A k \in 0 .. ShardCount : p[ShardCount] - p[k] \in Int
      /\ p[ShardCount] - p[0] = p[ShardCount]
  BY <1>1, <1>2
<1>5. \A k \in Shards : p[ShardCount] - p[k] = RefCount(c[k]) + (p[ShardCount] - p[k + 1])
  <2> SUFFICES ASSUME NEW k \in Shards
               PROVE  p[ShardCount] - p[k] = RefCount(c[k]) + (p[ShardCount] - p[k + 1])
    OBVIOUS
  <2>1. p[k] \in Int /\ p[k + 1] \in Int /\ p[k + 1] = p[k] + RefCount(c[k])
    BY <1>1, <1>2
  <2>2. RefCount(c[k]) \in Int
    BY <1>3
  <2> QED BY <1>4, <2>1, <2>2
<1>6. p[ShardCount] - p[ShardCount - 1] = RefCount(c[ShardCount - 1])
  BY <1>1, <1>2, <1>3
<1> QED BY <1>4, <1>5, <1>6 DEF p, CountSum, SumFrom, LastShard

\* An increment adds one to the sum; what is still to be read grows by one or not
\* at all, and no tag changes.
LEMMA SumOfIncrement ==
  ASSUME NEW c \in [Shards -> Int], NEW s \in Shards, NEW k \in 0 .. ShardCount
  PROVE  LET d == [c EXCEPT ![s] = IncrementRefCount(@)]
         IN  /\ CountSum(d, ShardCount) = CountSum(c, ShardCount) + 1
             /\ SumFrom(d, k) \in {SumFrom(c, k), SumFrom(c, k) + 1}
             /\ \A r \in Shards : Tag(d[r]) <=> Tag(c[r])
<1> DEFINE v == IncrementRefCount(c[s])
           d == [c EXCEPT ![s] = v]
<1>1. ShardCount \in Nat \ {0} /\ Shards = 0 .. ShardCount - 1
  BY ShardCountAssumption DEF Shards
<1>2. v \in Int /\ RefCount(v) - RefCount(c[s]) = 1 /\ (Tag(v) <=> Tag(c[s]))
  BY CounterTypes, WordFacts
<1>3. \A i \in 0 .. ShardCount :
        PrefixSum(d, ShardCount)[i] = PrefixSum(c, ShardCount)[i] + (IF s < i THEN 1 ELSE 0)
  <2> HIDE DEF v
  <2>1. \A i \in 0 .. ShardCount :
          PrefixSum(d, ShardCount)[i] =
            PrefixSum(c, ShardCount)[i] + (IF s < i THEN RefCount(v) - RefCount(c[s]) ELSE 0)
    BY <1>1, <1>2, SumOfUpdate
  <2> QED BY <1>2, <2>1
<1>4. PrefixSum(c, ShardCount) \in [0 .. ShardCount -> Int]
  BY <1>1, SumDefined
<1>5. CountSum(d, ShardCount) = CountSum(c, ShardCount) + 1
  <2> HIDE DEF d
  <2> QED BY <1>1, <1>3, <1>4 DEF CountSum
<1>6. SumFrom(d, k) \in {SumFrom(c, k), SumFrom(c, k) + 1}
  <2> HIDE DEF d
  <2>1. PrefixSum(d, ShardCount)[k] \in {PrefixSum(c, ShardCount)[k], PrefixSum(c, ShardCount)[k] + 1}
    BY <1>3, <1>4
  <2>2. PrefixSum(c, ShardCount)[k] \in Int /\ CountSum(c, ShardCount) \in Int
    BY <1>4, SumFacts
  <2> QED BY <1>5, <2>1, <2>2 DEF SumFrom
<1>7. \A r \in Shards : Tag(d[r]) <=> Tag(c[r])
  <2> HIDE DEF v
  <2> QED BY <1>2
<1> QED BY <1>5, <1>6, <1>7

\* A decrement takes one from the sum and sets the tag of its shard: what is still
\* to be read is as before, or contains a tag.
LEMMA SumOfDecrement ==
  ASSUME NEW c \in [Shards -> Int], NEW s \in Shards, NEW k \in 0 .. ShardCount
  PROVE  LET d == [c EXCEPT ![s] = DecrementRefCountAndSetTag(@)]
         IN  /\ CountSum(d, ShardCount) = CountSum(c, ShardCount) - 1
             /\ SumFrom(d, k) = SumFrom(c, k) \/ TagFrom(d, k)
             /\ Tag(d[s])
             /\ \A r \in Shards : Tag(c[r]) => Tag(d[r])
<1> DEFINE v == DecrementRefCountAndSetTag(c[s])
           d == [c EXCEPT ![s] = v]
<1>1. ShardCount \in Nat \ {0} /\ Shards = 0 .. ShardCount - 1
  BY ShardCountAssumption DEF Shards
<1>2. v \in Int /\ RefCount(v) - RefCount(c[s]) = -1 /\ Tag(v)
  BY CounterTypes, WordFacts
<1>3. \A i \in 0 .. ShardCount :
        PrefixSum(d, ShardCount)[i] = PrefixSum(c, ShardCount)[i] + (IF s < i THEN -1 ELSE 0)
  <2> HIDE DEF v
  <2>1. \A i \in 0 .. ShardCount :
          PrefixSum(d, ShardCount)[i] =
            PrefixSum(c, ShardCount)[i] + (IF s < i THEN RefCount(v) - RefCount(c[s]) ELSE 0)
    BY <1>1, <1>2, SumOfUpdate
  <2> QED BY <1>2, <2>1
<1>4. PrefixSum(c, ShardCount) \in [0 .. ShardCount -> Int]
  BY <1>1, SumDefined
<1>5. CountSum(d, ShardCount) = CountSum(c, ShardCount) - 1
  <2> HIDE DEF d
  <2> QED BY <1>1, <1>3, <1>4 DEF CountSum
<1>6. d[s] = v /\ Tag(d[s]) /\ \A r \in Shards : Tag(c[r]) => Tag(d[r])
  <2> HIDE DEF v
  <2> QED BY <1>2
<1>7. SumFrom(d, k) = SumFrom(c, k) \/ TagFrom(d, k)
  <2> HIDE DEF d
  <2>1. CASE s < k
    <3>1. PrefixSum(d, ShardCount)[k] = PrefixSum(c, ShardCount)[k] - 1
      BY <1>3, <1>4, <2>1
    <3>2. PrefixSum(c, ShardCount)[k] \in Int /\ CountSum(c, ShardCount) \in Int
      BY <1>4, SumFacts
    <3> QED BY <1>5, <3>1, <3>2 DEF SumFrom
  <2>2. CASE ~(s < k)
    BY <1>1, <1>6, <2>2 DEF TagFrom
  <2> QED BY <2>1, <2>2
<1> QED BY <1>5, <1>6, <1>7

\* Clearing a tag leaves the sum alone.
LEMMA SumOfClear ==
  ASSUME NEW c \in [Shards -> Int], NEW s \in Shards
  PROVE  CountSum([c EXCEPT ![s] = ClearTag(@)], ShardCount) = CountSum(c, ShardCount)
<1> DEFINE v == ClearTag(c[s])
           d == [c EXCEPT ![s] = v]
<1>1. ShardCount \in Nat \ {0} /\ Shards = 0 .. ShardCount - 1
  BY ShardCountAssumption DEF Shards
<1>0. v \in Int
  BY CounterTypes
<1>2. RefCount(v) = RefCount(c[s]) /\ RefCount(v) \in Int
  BY WordFacts
<1> HIDE DEF v
<1>3. ShardCount \in 0 .. ShardCount /\ s < ShardCount
  BY <1>1
<1>4. CountSum(d, ShardCount)
        = CountSum(c, ShardCount) + (RefCount(v) - RefCount(c[s]))
  <2>1. \A i \in 0 .. ShardCount :
          PrefixSum(d, ShardCount)[i] =
            PrefixSum(c, ShardCount)[i] + (IF s < i THEN RefCount(v) - RefCount(c[s]) ELSE 0)
    BY <1>0, <1>1, SumOfUpdate
  <2> HIDE DEF d
  <2> QED BY <1>3, <2>1 DEF CountSum
<1> QED BY <1>2, <1>4, SumFacts DEF v

\* A new object has count 1 and no tag.
LEMMA SumOfFresh ==
  ASSUME NEW s \in Shards
  PROVE  CountSum(FreshCounters(s), ShardCount) = 1
<1> DEFINE z == [r \in Shards |-> NewCounter]
<1>1. ShardCount \in Nat \ {0} /\ Shards = 0 .. ShardCount - 1
  BY ShardCountAssumption DEF Shards
<1>2. z \in [Shards -> Int] /\ \A r \in Shards : z[r] = 0
  BY DEF NewCounter
<1>3. FreshCounters(s) = [z EXCEPT ![s] = IncrementRefCount(@)]
  BY DEF FreshCounters
<1> HIDE DEF z
<1>4. CountSum(z, ShardCount) = 0
  BY <1>1, <1>2, SumOfZero
<1>5. 0 \in 0 .. ShardCount
  BY <1>1
<1>6. CountSum([z EXCEPT ![s] = IncrementRefCount(@)], ShardCount) = CountSum(z, ShardCount) + 1
  BY <1>2, <1>5, SumOfIncrement
<1> QED BY <1>3, <1>4, <1>6

-----------------------------------------------------------------------------
\* An object has finitely many owners, before and after a step.
LEMMA HoldersFinite ==
  ASSUME NEW o \in Objects
  PROVE  /\ IsFiniteSet(Holders(o)) /\ IsFiniteSet(Holders(o)')
         /\ Cardinality(Holders(o)) \in Nat
         /\ Cardinality(Holders(o)) = 0 <=> Holders(o) = {}
<1>1. IsFiniteSet({"weak_inner_ref", "data"})
  <2>1. IsFiniteSet({"weak_inner_ref"} \cup {"data"})
    BY FS_Singleton, FS_AddElement
  <2>2. {"weak_inner_ref", "data"} = {"weak_inner_ref"} \cup {"data"}
    OBVIOUS
  <2> QED BY <2>1, <2>2
<1>2. IsFiniteSet(Fields)
  BY <1>1, FiniteAssumption, FS_Product DEF Fields
<1>3. IsFiniteSet(Places)
  BY <1>2, FiniteAssumption, FS_Union DEF Places
<1>4. Holders(o) \subseteq Places /\ Holders(o)' \subseteq Places
  BY DEF Holders
<1>5. IsFiniteSet(Holders(o)) /\ IsFiniteSet(Holders(o)')
  BY <1>3, <1>4, FS_Subset
<1> QED BY <1>5, FS_CardinalityType, FS_EmptySet

\* Replacing one member by another keeps the cardinality.
LEMMA CardinalityOfReplacement ==
  ASSUME NEW S, IsFiniteSet(S), NEW a \in S, NEW b, b \notin S
  PROVE  Cardinality((S \ {a}) \cup {b}) = Cardinality(S)
<1>1. IsFiniteSet(S \ {a}) /\ Cardinality(S \ {a}) = Cardinality(S) - 1
  BY FS_RemoveElement
<1>2. b \notin S \ {a}
  OBVIOUS
<1>3. Cardinality((S \ {a}) \cup {b}) = Cardinality(S \ {a}) + 1
  BY <1>1, <1>2, FS_AddElement
<1>4. Cardinality(S) \in Nat
  BY FS_CardinalityType
<1> QED BY <1>1, <1>3, <1>4

\* An empty place that comes to own x is one more owner of x.
LEMMA HoldersOfAdd ==
  ASSUME NEW p \in Places, NEW x \in Objects, holds \in [Places -> OptObject],
         holds[p] = NULL, holds' = [holds EXCEPT ![p] = x]
  PROVE  /\ Cardinality(Holders(x)') = Cardinality(Holders(x)) + 1
         /\ Holders(x)' # {}
         /\ \A o \in Objects : o # x => Holders(o)' = Holders(o)
<1>1. Holders(x)' = Holders(x) \cup {p} /\ p \notin Holders(x)
  BY PlaceFacts DEF Holders
<1>2. \A o \in Objects : o # x => Holders(o)' = Holders(o)
  BY PlaceFacts DEF Holders
<1>3. Cardinality(Holders(x) \cup {p}) = Cardinality(Holders(x)) + 1
  BY <1>1, HoldersFinite, FS_AddElement
<1> QED BY <1>1, <1>2, <1>3

\* A place that gives up what it owns is one owner less.
LEMMA HoldersOfRemove ==
  ASSUME NEW p \in Places, NEW x \in Objects, holds \in [Places -> OptObject],
         holds[p] = x, holds' = [holds EXCEPT ![p] = NULL]
  PROVE  /\ Cardinality(Holders(x)') = Cardinality(Holders(x)) - 1
         /\ \A o \in Objects : o # x => Holders(o)' = Holders(o)
         /\ \A o \in Objects : Holders(o)' \subseteq Holders(o)
<1>1. Holders(x)' = Holders(x) \ {p} /\ p \in Holders(x)
  BY PlaceFacts DEF Holders
<1>2. \A o \in Objects : o # x => Holders(o)' = Holders(o)
  BY PlaceFacts DEF Holders
<1>3. Cardinality(Holders(x) \ {p}) = Cardinality(Holders(x)) - 1
  BY <1>1, HoldersFinite, FS_RemoveElement
<1> QED BY <1>1, <1>2, <1>3

\* Exchanging what two places own changes no object's number of owners.
LEMMA HoldersOfExchange ==
  ASSUME NEW p \in Places, NEW q \in Places, p # q, holds \in [Places -> OptObject],
         NEW o \in Objects,
         holds' = [holds EXCEPT ![p] = holds[q], ![q] = holds[p]]
  PROVE  /\ Cardinality(Holders(o)') = Cardinality(Holders(o))
         /\ Holders(o)' = {} <=> Holders(o) = {}
<1>0. IsFiniteSet(Holders(o))
  BY HoldersFinite
<1>1. CASE p \in Holders(o) <=> q \in Holders(o)
  <2>1. Holders(o)' = Holders(o)
    BY <1>1 DEF Holders
  <2> QED BY <2>1
<1>2. CASE p \in Holders(o) /\ q \notin Holders(o)
  <2>1. Holders(o)' = (Holders(o) \ {p}) \cup {q}
    BY <1>2 DEF Holders
  <2> QED BY <1>0, <1>2, <2>1, CardinalityOfReplacement
<1>3. CASE p \notin Holders(o) /\ q \in Holders(o)
  <2>1. Holders(o)' = (Holders(o) \ {q}) \cup {p}
    BY <1>3 DEF Holders
  <2> QED BY <1>0, <1>3, <2>1, CardinalityOfReplacement
<1> QED BY <1>1, <1>2, <1>3

\* compare_and_set: the place c comes to own x, and the empty place d what c has
\* owned.  Only x has one more owner.
LEMMA HoldersOfInstall ==
  ASSUME NEW c \in Places, NEW d \in Places, c # d, NEW x \in Objects,
         holds \in [Places -> OptObject], holds[d] = NULL,
         holds' = [holds EXCEPT ![c] = x, ![d] = holds[c]]
  PROVE  /\ Cardinality(Holders(x)') = Cardinality(Holders(x)) + 1
         /\ \A o \in Objects : o # x =>
              /\ Cardinality(Holders(o)') = Cardinality(Holders(o))
              /\ Holders(o)' = {} <=> Holders(o) = {}
<1>0. \A o \in Objects : IsFiniteSet(Holders(o))
  BY HoldersFinite
<1>1. /\ holds'[c] = x /\ holds'[d] = holds[c]
      /\ \A q \in Places : q # c /\ q # d => holds'[q] = holds[q]
  OBVIOUS
<1>2. \A o \in Objects : d \notin Holders(o) /\ (c \in Holders(o) <=> holds[c] = o)
  BY PlaceFacts DEF Holders
<1>4. Cardinality(Holders(x)') = Cardinality(Holders(x)) + 1
  <2>1. CASE holds[c] = x
    <3>1. Holders(x)' = Holders(x) \cup {d}
      BY <1>1, <2>1 DEF Holders
    <3> QED BY <1>0, <1>2, <3>1, FS_AddElement
  <2>2. CASE holds[c] # x
    <3>1. Holders(x)' = Holders(x) \cup {c}
      BY <1>1, <1>2, <2>2 DEF Holders
    <3> QED BY <1>0, <1>2, <2>2, <3>1, FS_AddElement
  <2> QED BY <2>1, <2>2
<1>5. ASSUME NEW o \in Objects, o # x
      PROVE  /\ Cardinality(Holders(o)') = Cardinality(Holders(o))
             /\ Holders(o)' = {} <=> Holders(o) = {}
  <2>1. CASE holds[c] = o
    <3>1. Holders(o)' = (Holders(o) \ {c}) \cup {d}
      BY <1>1, <1>2, <1>5, <2>1 DEF Holders
    <3>2. Cardinality((Holders(o) \ {c}) \cup {d}) = Cardinality(Holders(o))
      BY <1>0, <1>2, <2>1, CardinalityOfReplacement
    <3> QED BY <1>2, <2>1, <3>1, <3>2
  <2>2. CASE holds[c] # o
    <3>1. Holders(o)' = Holders(o)
      BY <1>1, <1>2, <1>5, <2>2 DEF Holders
    <3> QED BY <3>1
  <2> QED BY <2>1, <2>2
<1> QED BY <1>4, <1>5
=============================================================================
