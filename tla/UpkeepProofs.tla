---------------------------- MODULE UpkeepProofs ----------------------------
(***************************************************************************)
(* The sharded allocator with its maintenance and its report, the          *)
(* collector's loop with its waiting callers, and update(), which runs the *)
(* one from the other, for any number of units, boxes, callers, shards and *)
(* slots per unit.                                                         *)
(***************************************************************************)
EXTENDS Upkeep, FiniteSetTheorems, TLAPS

GroupType == [units : Seq(Units), toCheck : Seq(Nat)]

\* The indexes of a group are those of units of the group, each listed once.
Valid(group) ==
  \A k \in DOMAIN group.toCheck :
    /\ group.toCheck[k] \in DOMAIN group.units
    /\ \A l \in DOMAIN group.toCheck \ {k} : group.toCheck[l] # group.toCheck[k]

-----------------------------------------------------------------------------
\* A sequence without its k-th element.
LEMMA RemoveAtFacts ==
  ASSUME NEW S, NEW q \in Seq(S), NEW k \in 1 .. Len(q)
  PROVE  \E c \in Seq(S) :
           /\ c = RemoveAt(q, k)
           /\ Len(c) = Len(q) - 1
           /\ \A i \in 1 .. Len(q) - 1 : c[i] = IF i < k THEN q[i] ELSE q[i + 1]
<1>0. Len(q) \in Nat
  OBVIOUS
<1>1. \E a \in Seq(S) : a = SubSeq(q, 1, k - 1) /\ Len(a) = k - 1 /\ \A i \in 1 .. k - 1 : a[i] = q[i]
  <2>1. SubSeq(q, 1, k - 1) \in Seq(S)
    OBVIOUS
  <2>2. Len(SubSeq(q, 1, k - 1)) = k - 1
    OBVIOUS
  <2>3. \A i \in 1 .. k - 1 : SubSeq(q, 1, k - 1)[i] = q[i]
    OBVIOUS
  <2> QED BY <2>1, <2>2, <2>3, Zenon
<1>2. \E b \in Seq(S) : /\ b = SubSeq(q, k + 1, Len(q)) /\ Len(b) = Len(q) - k
                        /\ \A i \in 1 .. Len(q) - k : b[i] = q[k + i]
  <2>1. SubSeq(q, k + 1, Len(q)) \in Seq(S)
    OBVIOUS
  <2>2. Len(SubSeq(q, k + 1, Len(q))) = Len(q) - k
    OBVIOUS
  <2>3. \A i \in 1 .. Len(q) - k : SubSeq(q, k + 1, Len(q))[i] = q[k + i]
    OBVIOUS
  <2> QED BY <2>1, <2>2, <2>3, Zenon
<1>3. PICK a \in Seq(S) : a = SubSeq(q, 1, k - 1) /\ Len(a) = k - 1 /\ \A i \in 1 .. k - 1 : a[i] = q[i]
  BY <1>1, Zenon
<1>4. PICK b \in Seq(S) : /\ b = SubSeq(q, k + 1, Len(q)) /\ Len(b) = Len(q) - k
                          /\ \A i \in 1 .. Len(q) - k : b[i] = q[k + i]
  BY <1>2, Zenon
<1>5. PICK c \in Seq(S) :
        /\ c = a \o b
        /\ Len(c) = Len(a) + Len(b)
        /\ \A i \in 1 .. Len(a) + Len(b) : c[i] = IF i <= Len(a) THEN a[i] ELSE b[i - Len(a)]
  <2>1. a \o b \in Seq(S)
    OBVIOUS
  <2>2. Len(a \o b) = Len(a) + Len(b)
    OBVIOUS
  <2>3. \A i \in 1 .. Len(a) + Len(b) : (a \o b)[i] = IF i <= Len(a) THEN a[i] ELSE b[i - Len(a)]
    OBVIOUS
  <2> QED BY <2>1, <2>2, <2>3, Zenon
<1>6. c = RemoveAt(q, k)
  BY <1>3, <1>4, <1>5, Zenon DEF RemoveAt
<1>7. Len(a) = k - 1 /\ \A i \in 1 .. k - 1 : a[i] = q[i]
  BY <1>3, Zenon
<1>8. Len(b) = Len(q) - k /\ \A i \in 1 .. Len(q) - k : b[i] = q[k + i]
  BY <1>4, Zenon
<1>9. /\ Len(c) = Len(a) + Len(b)
      /\ \A i \in 1 .. Len(a) + Len(b) : c[i] = IF i <= Len(a) THEN a[i] ELSE b[i - Len(a)]
  BY <1>5, Zenon
<1>10. Len(c) = Len(q) - 1
  BY <1>0, <1>7, <1>8, <1>9
<1>11. ASSUME NEW i \in 1 .. Len(q) - 1
       PROVE  c[i] = IF i < k THEN q[i] ELSE q[i + 1]
  <2>0. i \in 1 .. Len(a) + Len(b)
    BY <1>0, <1>7, <1>8
  <2>1. CASE i < k
    <3>1. i <= Len(a) /\ a[i] = q[i]
      BY <1>0, <1>7, <2>1
    <3> QED BY <1>9, <2>0, <2>1, <3>1
  <2>2. CASE ~(i < k)
    <3>1. i - Len(a) \in 1 .. Len(q) - k /\ k + (i - Len(a)) = i + 1 /\ ~(i <= Len(a))
      BY <1>0, <1>7, <2>2
    <3>2. b[i - Len(a)] = q[i + 1]
      BY <1>8, <3>1
    <3> QED BY <1>9, <2>0, <2>2, <3>1, <3>2
  <2> QED BY <2>1, <2>2
<1> QED BY <1>6, <1>10, <1>11, Zenon

\* swap_remove(0) leaves the elements after the first.
LEMMA SwapRemoveFacts ==
  ASSUME NEW S, NEW q \in Seq(S), q # <<>>
  PROVE  \E c \in Seq(S) :
           /\ c = SwapRemoveFirst(q)
           /\ Len(c) = Len(q) - 1
           /\ \A i \in 1 .. Len(q) - 1 : c[i] = IF i = 1 THEN q[Len(q)] ELSE q[i]
<1>0. Len(q) \in Nat \ {0} /\ q[Len(q)] \in S
  OBVIOUS
<1>1. CASE Len(q) = 1
  <2>1. <<>> \in Seq(S) /\ Len(<<>>) = Len(q) - 1 /\ SwapRemoveFirst(q) = <<>>
    BY <1>1 DEF SwapRemoveFirst
  <2>2. \A i \in 1 .. Len(q) - 1 : FALSE
    BY <1>1
  <2> QED BY <2>1, <2>2, Zenon
<1>2. CASE Len(q) # 1
  <2>1. PICK a \in Seq(S) : a = <<q[Len(q)]>> /\ Len(a) = 1 /\ a[1] = q[Len(q)]
    <3>1. <<q[Len(q)]>> \in Seq(S)
      BY <1>0
    <3>2. Len(<<q[Len(q)]>>) = 1 /\ <<q[Len(q)]>>[1] = q[Len(q)]
      OBVIOUS
    <3> QED BY <3>1, <3>2, Zenon
  <2>2. PICK b \in Seq(S) : /\ b = SubSeq(q, 2, Len(q) - 1) /\ Len(b) = Len(q) - 2
                            /\ \A i \in 1 .. Len(q) - 2 : b[i] = q[i + 1]
    <3>a. \A n \in Nat \ {0} : n # 1 => n \in Nat /\ (n - 1) + 1 >= 2 /\ n - 1 \in Nat /\ (n - 1) - 2 + 1 = n - 2
      OBVIOUS
    <3>0. /\ Len(q) \in Nat /\ (Len(q) - 1) + 1 >= 2 /\ Len(q) - 1 \in Nat
          /\ (Len(q) - 1) - 2 + 1 = Len(q) - 2
      BY <1>0, <1>2, <3>a, Zenon
    <3>1. SubSeq(q, 2, Len(q) - 1) \in Seq(S)
      BY <1>0, <1>2
    <3>2. Len(SubSeq(q, 2, Len(q) - 1)) = Len(q) - 2
      <4>1. \A m, n \in Nat : n + 1 >= m => Len(SubSeq(q, m, n)) = n - m + 1
        OBVIOUS
      <4> QED BY <3>0, <4>1
    <3>3. \A i \in 1 .. Len(q) - 2 : SubSeq(q, 2, Len(q) - 1)[i] = q[i + 1]
      BY <1>0, <1>2
    <3> QED BY <3>1, <3>2, <3>3, Zenon
  <2>3. PICK c \in Seq(S) :
          /\ c = a \o b
          /\ Len(c) = Len(a) + Len(b)
          /\ \A i \in 1 .. Len(a) + Len(b) : c[i] = IF i <= Len(a) THEN a[i] ELSE b[i - Len(a)]
    <3>1. a \o b \in Seq(S)
      OBVIOUS
    <3>2. Len(a \o b) = Len(a) + Len(b)
      OBVIOUS
    <3>3. \A i \in 1 .. Len(a) + Len(b) :
            (a \o b)[i] = IF i <= Len(a) THEN a[i] ELSE b[i - Len(a)]
      OBVIOUS
    <3> QED BY <3>1, <3>2, <3>3, Zenon
  <2>4. c = SwapRemoveFirst(q)
    BY <1>2, <2>1, <2>2, <2>3, Zenon DEF SwapRemoveFirst
  <2>5. Len(a) = 1 /\ a[1] = q[Len(q)]
    BY <2>1, Zenon
  <2>6. Len(b) = Len(q) - 2 /\ \A i \in 1 .. Len(q) - 2 : b[i] = q[i + 1]
    BY <2>2, Zenon
  <2>7. /\ Len(c) = Len(a) + Len(b)
        /\ \A i \in 1 .. Len(a) + Len(b) : c[i] = IF i <= Len(a) THEN a[i] ELSE b[i - Len(a)]
    BY <2>3, Zenon
  <2>8. Len(c) = Len(q) - 1
    BY <1>0, <2>5, <2>6, <2>7
  <2>9. ASSUME NEW i \in 1 .. Len(q) - 1
        PROVE  c[i] = IF i = 1 THEN q[Len(q)] ELSE q[i]
    <3>0. i \in 1 .. Len(a) + Len(b)
      BY <1>0, <2>5, <2>6
    <3>1. CASE i = 1
      BY <2>5, <2>7, <3>0, <3>1
    <3>2. CASE i # 1
      <4>1. i - Len(a) \in 1 .. Len(q) - 2 /\ (i - Len(a)) + 1 = i /\ ~(i <= Len(a))
        BY <1>0, <2>5, <3>2
      <4>2. b[i - Len(a)] = q[i]
        BY <2>6, <4>1
      <4> QED BY <2>7, <3>0, <3>2, <4>1, <4>2
    <3> QED BY <3>1, <3>2
  <2> QED BY <2>4, <2>8, <2>9, Zenon
<1> QED BY <1>1, <1>2

\* A longer sequence: c is q with e at its end.
Extends(c, q, e) ==
  /\ c = Append(q, e)
  /\ Len(c) = Len(q) + 1
  /\ \A i \in 1 .. Len(q) : c[i] = q[i]
  /\ c[Len(q) + 1] = e

LEMMA AppendFacts ==
  ASSUME NEW S, NEW q \in Seq(S), NEW e \in S
  PROVE  \E c \in Seq(S) : Extends(c, q, e)
<1>1. Append(q, e) \in Seq(S)
  OBVIOUS
<1>2. Len(Append(q, e)) = Len(q) + 1
  OBVIOUS
<1>3. \A i \in 1 .. Len(q) : Append(q, e)[i] = q[i]
  OBVIOUS
<1>4. Append(q, e)[Len(q) + 1] = e
  OBVIOUS
<1> QED BY <1>1, <1>2, <1>3, <1>4, Zenon DEF Extends

\* A sequence is a function on its indexes.
LEMMA SeqFacts ==
  ASSUME NEW S, NEW q \in Seq(S)
  PROVE  /\ DOMAIN q = 1 .. Len(q) /\ Len(q) \in Nat
         /\ \A k \in DOMAIN q : q[k] \in S
         /\ q # <<>> => Len(q) >= 1 /\ 1 \in DOMAIN q
<1>1. DOMAIN q = 1 .. Len(q) /\ Len(q) \in Nat
  OBVIOUS
<1>2. \A k \in 1 .. Len(q) : q[k] \in S
  OBVIOUS
<1>3. q # <<>> => Len(q) >= 1
  OBVIOUS
<1> QED BY <1>1, <1>2, <1>3

\* Multiples of n are n apart.
LEMMA Multiples ==
  \A n, a, b \in Nat : a < b => n * a + n <= n * b
<1> SUFFICES ASSUME NEW n \in Nat, NEW a \in Nat, NEW b \in Nat, a < b
             PROVE  n * a + n <= n * b
  OBVIOUS
<1>1. PICK d \in Nat : b = a + 1 + d
  <2>1. b - a - 1 \in Nat /\ b = a + 1 + (b - a - 1)
    OBVIOUS
  <2> QED BY <2>1
<1>2. n * b = n * a + n + n * d
  BY <1>1
<1>3. n * d \in Nat /\ n * a \in Nat
  OBVIOUS
<1> QED BY <1>2, <1>3

\* The words of a unit: usage flags and the words of its slots are all different.
LEMMA UnitWords ==
  /\ \A i \in Slots : UsageFlag(i) \in Words
  /\ \A i \in Slots, s \in Shards : PtrAtShard(i, s) \in Words
  /\ \A i, j \in Slots, s \in Shards : UsageFlag(i) # PtrAtShard(j, s)
  /\ \A i, j \in Slots, s, r \in Shards : PtrAtShard(i, s) = PtrAtShard(j, r) => i = j /\ s = r
<1> DEFINE N == SlotCount
           C == ShardCount
<1>0. N \in Nat \ {0} /\ C \in Nat \ {0} /\ Slots = 0 .. N - 1 /\ Shards = 0 .. C - 1
  BY AllocAssumption DEF Slots, Shards
<1>1. N * 0 = 0 /\ N * 1 = N /\ \A a \in Nat : N * a \in Nat
  BY <1>0
<1>2. \A a, b \in Nat : a < b => N * a + N <= N * b
  BY <1>0, Multiples
<1>w. Words = 0 .. N * (1 + C) - 1
  BY DEF Words
<1>3. N <= N * (1 + C) /\ N * (1 + C) \in Nat
  <2>1. 1 + C \in Nat /\ 0 < 1 + C /\ 0 \in Nat
    BY <1>0
  <2>2. N * 0 + N <= N * (1 + C)
    BY <1>2, <2>1
  <2> QED BY <1>0, <1>1, <2>1, <2>2
<1>4. \A s \in Shards : /\ s + 1 \in Nat /\ N * (s + 1) \in Nat /\ N <= N * (s + 1)
                        /\ N * (s + 1) + N <= N * (1 + C)
  <2> SUFFICES ASSUME NEW s \in Shards
               PROVE  /\ s + 1 \in Nat /\ N * (s + 1) \in Nat /\ N <= N * (s + 1)
                      /\ N * (s + 1) + N <= N * (1 + C)
    OBVIOUS
  <2>1. s + 1 \in Nat /\ 0 < s + 1 /\ s + 1 < 1 + C /\ 1 + C \in Nat /\ 0 \in Nat
    BY <1>0
  <2>2. N * 0 + N <= N * (s + 1) /\ N * (s + 1) + N <= N * (1 + C)
    BY <1>2, <2>1
  <2>3. N * (s + 1) \in Nat
    BY <1>1, <2>1
  <2> QED BY <1>0, <1>1, <2>1, <2>2, <2>3
<1>5. \A s, r \in Shards : s < r => N * (s + 1) + N <= N * (r + 1)
  <2> SUFFICES ASSUME NEW s \in Shards, NEW r \in Shards, s < r
               PROVE  N * (s + 1) + N <= N * (r + 1)
    OBVIOUS
  <2>1. s + 1 \in Nat /\ r + 1 \in Nat /\ s + 1 < r + 1
    BY <1>0
  <2> QED BY <1>2, <2>1
<1> HIDE DEF N, C
<1>6. \A i \in Slots : UsageFlag(i) \in Words
  <2> SUFFICES ASSUME NEW i \in Slots
               PROVE  i \in 0 .. N * (1 + C) - 1
    BY <1>w DEF UsageFlag
  <2> QED BY <1>0, <1>3
<1>7. \A i \in Slots, s \in Shards : PtrAtShard(i, s) = i + N * (s + 1)
  BY DEF PtrAtShard, N
<1>8. \A i \in Slots, s \in Shards : PtrAtShard(i, s) \in Words
  <2> SUFFICES ASSUME NEW i \in Slots, NEW s \in Shards
               PROVE  i + N * (s + 1) \in 0 .. N * (1 + C) - 1
    BY <1>7, <1>w
  <2>1. N * (s + 1) \in Nat /\ N * (s + 1) + N <= N * (1 + C) /\ i \in Nat /\ i < N
    BY <1>0, <1>4
  <2> QED BY <1>0, <1>3, <2>1
<1>9. \A i, j \in Slots, s \in Shards : UsageFlag(i) # PtrAtShard(j, s)
  <2> SUFFICES ASSUME NEW i \in Slots, NEW j \in Slots, NEW s \in Shards
               PROVE  i # j + N * (s + 1)
    BY <1>7 DEF UsageFlag
  <2>1. N * (s + 1) \in Nat /\ N <= N * (s + 1) /\ i \in Nat /\ i < N /\ j \in Nat
    BY <1>0, <1>4
  <2> QED BY <1>0, <2>1
<1>10. ASSUME NEW i \in Slots, NEW j \in Slots, NEW s \in Shards, NEW r \in Shards,
              PtrAtShard(i, s) = PtrAtShard(j, r)
       PROVE  i = j /\ s = r
  <2>1. i + N * (s + 1) = j + N * (r + 1)
    BY <1>7, <1>10
  <2>2. s \in Nat /\ r \in Nat /\ N * (s + 1) \in Nat /\ N * (r + 1) \in Nat
    BY <1>0, <1>4
  <2>3. ~(s < r) /\ ~(r < s)
    BY <1>0, <1>5, <2>1, <2>2
  <2>4. s = r
    BY <2>2, <2>3
  <2> QED BY <1>0, <2>1, <2>2, <2>4
<1> QED BY <1>6, <1>8, <1>9, <1>10

-----------------------------------------------------------------------------
(***************************************************************************)
(* The inductive invariant of the allocator.  Its parts need each other:   *)
(* that slots are exclusive rests on units being listed once, that rests   *)
(* on the order of maintenance, and all of it on the locks.                *)
(***************************************************************************)
HoldsLock(b) == call[b].pc \in {"pick", "claim", "init"}

\* Who holds which lock.
LocksMatch ==
  /\ \A b \in Boxes, g \in Groups : lock[g] = b <=> HoldsLock(b) /\ call[b].shard = g
  /\ \A g \in Groups : lock[g] = "collector" <=> g = Temp /\ upkeep.pc # "idle"
  /\ \A n \in 0 .. ShardCount : lock[NthLock(n)] = "report" <=> n < report.locks

Lists(g, u) == \E k \in DOMAIN groups[g].units : groups[g].units[k] = u

\* No unit is in two places of the groups.
ListedOnce ==
  \A g, h \in Groups : \A k \in DOMAIN groups[g].units, l \in DOMAIN groups[h].units :
    groups[g].units[k] = groups[h].units[l] => g = h /\ k = l

\* What is in a group is allocated, what is allocated is in a group or new.
ListedAreAllocated ==
  /\ \A g \in Groups : \A k \in DOMAIN groups[g].units : groups[g].units[k] \in allocated
  /\ \A u \in allocated :
       (\E g \in Groups : Lists(g, u)) \/ (\E b \in Boxes : call[b].fresh /\ call[b].unit = u)

\* A new unit is the business of its call only.
FreshIsApart ==
  \A b \in Boxes : call[b].fresh =>
    /\ call[b].pc \in {"claim", "init"}
    /\ call[b].unit \in allocated
    /\ \A g \in Groups : ~Lists(g, call[b].unit)
    /\ call[b].pc = "claim" => call[b].slot = 0
    /\ \A c \in Boxes \ {b} : call[c].fresh \/ HasSlot(c) => call[c].unit # call[b].unit

\* A call that looks for a slot is in the first unit to check of its group.
CallsInPlace ==
  \A b \in Boxes : call[b].pc \in {"claim", "init"} /\ ~call[b].fresh =>
    /\ groups[call[b].shard].toCheck # <<>>
    /\ call[b].unit = groups[call[b].shard].units[groups[call[b].shard].toCheck[1]]

\* IndexesAreValid, group by group.
GroupsAreValid ==
  \A g \in Groups : ~(g = Temp /\ upkeep.pc = "retain") => Valid(groups[g])

\* What maintenance knows about the unit it looks at and those before.
MaintenanceInOrder ==
  /\ upkeep.pc \in {"out", "in"} => upkeep.shard \in Shards
  /\ upkeep.unit >= 1
  /\ upkeep.pc = "in" => upkeep.unit = 1 /\ upkeep.slot = 0
  /\ upkeep.pc \in {"retain", "index"} /\ upkeep.unit > Len(groups[Temp].units) => upkeep.slot = 0
  /\ upkeep.pc = "retain" /\ upkeep.unit <= Len(groups[Temp].units) =>
       \A i \in Slots : i < upkeep.slot => mem[groups[Temp].units[upkeep.unit]][UsageFlag(i)] = 0
  /\ upkeep.pc = "index" =>
       \A k \in DOMAIN groups[Temp].toCheck : groups[Temp].toCheck[k] < upkeep.unit

At(b, u, i) == call[b].unit = u /\ call[b].slot = i

\* A flag that is set belongs to a box.
FlagsAreOwned ==
  \A u \in Units, i \in Slots :
    /\ mem[u][UsageFlag(i)] \in {0, 1}
    /\ mem[u][UsageFlag(i)] = 1 => \E b \in Boxes : HasSlot(b) /\ At(b, u, i)

AllocInv ==
  /\ AllocTypeOK
  /\ LocksMatch
  /\ ListedOnce
  /\ ListedAreAllocated
  /\ FreshIsApart
  /\ CallsInPlace
  /\ GroupsAreValid
  /\ MaintenanceInOrder
  /\ SlotsAreExclusive
  /\ FlagsAreOwned

-----------------------------------------------------------------------------
\* Writing a usage flag.
LEMMA SetFlagFacts ==
  ASSUME NEW m \in [Units -> [Words -> Int]], NEW u \in Units, NEW i \in Slots, NEW v \in Int,
         NEW m2, m2 = SetFlag(m, u, i, v)
  PROVE  /\ m2 \in [Units -> [Words -> Int]]
         /\ m2[u][UsageFlag(i)] = v
         /\ \A w \in Units, j \in Slots : ~(w = u /\ j = i) =>
              m2[w][UsageFlag(j)] = m[w][UsageFlag(j)]
         /\ \A w \in Units, j \in Slots, s \in Shards :
              m2[w][PtrAtShard(j, s)] = m[w][PtrAtShard(j, s)]
<1>1. /\ \A j \in Slots : UsageFlag(j) \in Words
      /\ \A j \in Slots, s \in Shards : PtrAtShard(j, s) \in Words /\ PtrAtShard(j, s) # UsageFlag(i)
      /\ \A j \in Slots : UsageFlag(j) = UsageFlag(i) => j = i
  BY UnitWords DEF UsageFlag
<1>2. m2 \in [Units -> [Words -> Int]]
  BY <1>1 DEF SetFlag
<1>3. ASSUME NEW w \in Units, NEW x \in Words
      PROVE  m2[w][x] = IF w = u /\ x = UsageFlag(i) THEN v ELSE m[w][x]
  BY <1>1 DEF SetFlag
<1> QED BY <1>1, <1>2, <1>3

\* Adding to the words of a slot: the usage flags stay, and only the words of the
\* given shards change.
LEMMA AdjustFacts ==
  ASSUME NEW m \in [Units -> [Words -> Int]], NEW u \in Units, NEW i \in Slots,
         NEW shards, NEW n \in Int, NEW m2, m2 = Adjust(m, u, i, shards, n),
         shards \subseteq Shards
  PROVE  /\ m2 \in [Units -> [Words -> Int]]
         /\ \A w \in Units, j \in Slots : m2[w][UsageFlag(j)] = m[w][UsageFlag(j)]
         /\ \A w \in Units, j \in Slots, s \in Shards :
              /\ w = u /\ j = i /\ s \in shards => m2[w][PtrAtShard(j, s)] = m[w][PtrAtShard(j, s)] + n
              /\ ~(w = u /\ j = i /\ s \in shards) => m2[w][PtrAtShard(j, s)] = m[w][PtrAtShard(j, s)]
<1>2. m2 \in [Units -> [Words -> Int]]
  BY DEF Adjust
<1>3. ASSUME NEW w \in Units, NEW x \in Words
      PROVE  m2[w][x] =
               IF w = u /\ \E s \in shards : x = PtrAtShard(i, s) THEN m[w][x] + n ELSE m[w][x]
  BY DEF Adjust
<1>4. ASSUME NEW w \in Units, NEW j \in Slots
      PROVE  m2[w][UsageFlag(j)] = m[w][UsageFlag(j)]
  <2>1. UsageFlag(j) \in Words /\ \A s \in shards : UsageFlag(j) # PtrAtShard(i, s)
    BY UnitWords
  <2> QED BY <1>3, <2>1
<1>5. ASSUME NEW w \in Units, NEW j \in Slots, NEW s \in Shards
      PROVE  /\ w = u /\ j = i /\ s \in shards => m2[w][PtrAtShard(j, s)] = m[w][PtrAtShard(j, s)] + n
             /\ ~(w = u /\ j = i /\ s \in shards) => m2[w][PtrAtShard(j, s)] = m[w][PtrAtShard(j, s)]
  <2>1. /\ PtrAtShard(j, s) \in Words
        /\ (\E r \in shards : PtrAtShard(j, s) = PtrAtShard(i, r)) <=> j = i /\ s \in shards
    BY UnitWords
  <2> QED BY <1>3, <2>1
<1> QED BY <1>2, <1>4, <1>5

\* The shards and the temporary group.
LEMMA GroupNames ==
  /\ Temp \in Groups /\ Temp \notin Shards /\ Shards \subseteq Groups
  /\ \A g \in Groups : g = Temp \/ g \in Shards
  /\ \A n \in 0 .. ShardCount : NthLock(n) \in Groups
  /\ \A g \in Groups : \E n \in 0 .. ShardCount : NthLock(n) = g
  /\ \A m, n \in 0 .. ShardCount : NthLock(m) = NthLock(n) => m = n
<1>1. ShardCount \in Nat \ {0}
  BY AllocAssumption
<1>2. /\ Temp \in Groups /\ Temp \notin Shards /\ Shards \subseteq Groups
      /\ \A g \in Groups : g = Temp \/ g \in Shards
  BY <1>1 DEF Temp, Groups, Shards
<1>3. \A n \in 0 .. ShardCount : NthLock(n) \in Groups
  BY <1>1 DEF NthLock, Temp, Groups
<1>4. ASSUME NEW g \in Groups
      PROVE  \E n \in 0 .. ShardCount : NthLock(n) = g
  <2>1. CASE g = ShardCount
    BY <1>1, <2>1 DEF NthLock, Temp
  <2>2. CASE g # ShardCount
    <3>1. g + 1 \in 0 .. ShardCount /\ g + 1 # 0 /\ g + 1 - 1 = g
      BY <1>1, <2>2 DEF Groups
    <3>2. NthLock(g + 1) = (g + 1) - 1
      BY <3>1 DEF NthLock
    <3>3. NthLock(g + 1) = g
      BY <1>1, <3>2 DEF Groups
    <3> QED BY <3>1, <3>3, Zenon
  <2> QED BY <2>1, <2>2
<1>5. \A m, n \in 0 .. ShardCount : NthLock(m) = NthLock(n) => m = n
  BY <1>1 DEF NthLock, Temp
<1> QED BY <1>2, <1>3, <1>4, <1>5

\* The owners of locks are told apart.
LEMMA Owners ==
  /\ \A b \in Boxes : b # "collector" /\ b # "report" /\ b # NULL
  /\ NULL # "collector" /\ NULL # "report"
BY AllocAssumption

\* A group is a record of two sequences.
LEMMA GroupFacts ==
  ASSUME AllocTypeOK, NEW g \in Groups
  PROVE  /\ groups[g] \in GroupType
         /\ groups[g].units \in Seq(Units)
         /\ groups[g].toCheck \in Seq(Nat)
         /\ DOMAIN groups[g].units = 1 .. Len(groups[g].units) /\ Len(groups[g].units) \in Nat
         /\ \A k \in DOMAIN groups[g].units : groups[g].units[k] \in Units
         /\ DOMAIN groups[g].toCheck = 1 .. Len(groups[g].toCheck) /\ Len(groups[g].toCheck) \in Nat
         /\ \A k \in DOMAIN groups[g].toCheck : groups[g].toCheck[k] \in Nat
         /\ groups[g].toCheck # <<>> => 1 \in DOMAIN groups[g].toCheck
<1>1. groups[g] \in GroupType
  BY DEF AllocTypeOK, GroupType
<1>2. groups[g].units \in Seq(Units) /\ groups[g].toCheck \in Seq(Nat)
  BY <1>1 DEF GroupType
<1> QED BY <1>1, <1>2, SeqFacts

\* Where a call works, and that its unit is a unit.
LEMMA CallFacts ==
  ASSUME AllocInv, NEW b \in Boxes
  PROVE  /\ call[b].shard \in Shards /\ call[b].slot \in Slots
         /\ HasSlot(b) => call[b].unit \in allocated
         /\ call[b].pc \in {"claim", "init"} =>
              /\ call[b].unit \in allocated
              /\ \A g \in Groups : Lists(g, call[b].unit) => ~call[b].fresh /\ g = call[b].shard
              /\ ~call[b].fresh => Lists(call[b].shard, call[b].unit)
         /\ allocated \subseteq Units
<1> USE DEF AllocInv
<1>1. call[b].shard \in Shards /\ call[b].slot \in Slots /\ allocated \subseteq Units
  BY DEF AllocTypeOK
<1>2. HasSlot(b) => call[b].unit \in allocated
  BY DEF SlotsAreExclusive
<1>3. ASSUME call[b].pc \in {"claim", "init"}, call[b].fresh
      PROVE  call[b].unit \in allocated /\ \A g \in Groups : ~Lists(g, call[b].unit)
  BY <1>3 DEF FreshIsApart
<1>4. ASSUME call[b].pc \in {"claim", "init"}, ~call[b].fresh
      PROVE  /\ call[b].unit \in allocated
             /\ \A g \in Groups : Lists(g, call[b].unit) => g = call[b].shard
             /\ Lists(call[b].shard, call[b].unit)
  <2> DEFINE s == call[b].shard
  <2>1. s \in Groups /\ s # Temp
    BY <1>1, GroupNames
  <2>2. groups[s].toCheck # <<>> /\ call[b].unit = groups[s].units[groups[s].toCheck[1]]
    BY <1>4 DEF CallsInPlace
  <2>3. 1 \in DOMAIN groups[s].toCheck
    BY <2>1, <2>2, GroupFacts
  <2>4. groups[s].toCheck[1] \in DOMAIN groups[s].units
    BY <2>1, <2>3 DEF GroupsAreValid, Valid
  <2> HIDE DEF s
  <2>5. call[b].unit \in allocated
    BY <2>1, <2>2, <2>4 DEF ListedAreAllocated
  <2>6. \A g \in Groups : Lists(g, call[b].unit) => g = s
    BY <2>1, <2>2, <2>4 DEF ListedOnce, Lists
  <2>7. Lists(s, call[b].unit)
    BY <2>2, <2>4 DEF Lists
  <2> QED BY <2>5, <2>6, <2>7 DEF s
<1> QED BY <1>1, <1>2, <1>3, <1>4

-----------------------------------------------------------------------------
(***************************************************************************)
(* Every step keeps the invariant: one lemma per action, one step per      *)
(* conjunct that the action can disturb.                                   *)
(***************************************************************************)
CallType == [pc : {"none", "lock", "pick", "claim", "init", "own", "dealloc"},
             shard : Shards, unit : Units \cup {NULL}, slot : Slots, fresh : BOOLEAN]

LEMMA FirstSlot ==
  /\ 0 \in Slots
  /\ 0 \in Shards
  /\ NoCall \in CallType
  /\ NoCall.pc = "none" /\ ~NoCall.fresh
<1>1. 0 \in Slots /\ 0 \in Shards
  BY AllocAssumption DEF Slots, Shards
<1> QED BY <1>1 DEF NoCall, CallType

LEMMA CallTyped ==
  AllocTypeOK => call \in [Boxes -> CallType]
BY DEF AllocTypeOK, CallType

LEMMA LockTyped ==
  AllocTypeOK => lock \in [Groups -> Boxes \cup {"collector", "report", NULL}]
BY DEF AllocTypeOK

LEMMA AllocateKeeps ==
  ASSUME AllocInv, NEW b \in Boxes, NEW s \in Shards, Allocate(b, s)
  PROVE  AllocInv'
<1> USE DEF AllocInv
<1>1. /\ call[b].pc = "none"
      /\ UNCHANGED <<allocated, mem, groups, lock, upkeep, report>>
  BY DEF Allocate
<1>2. /\ call' \in [Boxes -> CallType]
      /\ call'[b].pc = "lock" /\ ~call'[b].fresh
      /\ \A c \in Boxes \ {b} : call'[c] = call[c]
  <2>1. call' = [call EXCEPT ![b] = [NoCall EXCEPT !.pc = "lock", !.shard = s]]
    BY DEF Allocate
  <2>2. call \in [Boxes -> CallType]
    BY DEF AllocTypeOK, CallType
  <2> QED BY <2>1, <2>2, FirstSlot DEF CallType, NoCall
<1>3. AllocTypeOK'
  BY <1>1, <1>2 DEF AllocTypeOK, CallType
<1>4. ~call[b].fresh
  BY <1>1 DEF FreshIsApart
<1>5. LocksMatch'
  BY <1>1, <1>2 DEF LocksMatch, HoldsLock
<1>6. ListedOnce' /\ GroupsAreValid' /\ MaintenanceInOrder'
  BY <1>1 DEF ListedOnce, GroupsAreValid, MaintenanceInOrder
<1>7. ListedAreAllocated'
  BY <1>1, <1>2, <1>4 DEF ListedAreAllocated, Lists
<1>8. FreshIsApart'
  BY <1>1, <1>2 DEF FreshIsApart, Lists, HasSlot
<1>9. CallsInPlace'
  BY <1>1, <1>2 DEF CallsInPlace
<1>10. SlotsAreExclusive'
  BY <1>1, <1>2 DEF SlotsAreExclusive, HasSlot
<1>11. FlagsAreOwned'
  BY <1>1, <1>2 DEF FlagsAreOwned, HasSlot, At
<1> QED BY <1>3, <1>5, <1>6, <1>7, <1>8, <1>9, <1>10, <1>11

LEMMA LockShardKeeps ==
  ASSUME AllocInv, NEW b \in Boxes, LockShard(b)
  PROVE  AllocInv'
<1> USE DEF AllocInv
<1>1. /\ call[b].pc = "lock"
      /\ lock[call[b].shard] = NULL
      /\ lock' = [lock EXCEPT ![call[b].shard] = b]
      /\ UNCHANGED <<allocated, mem, groups, upkeep, report>>
  BY DEF LockShard
<1>2. /\ call' \in [Boxes -> CallType]
      /\ call'[b].pc = "pick" /\ call'[b].fresh = call[b].fresh
      /\ call'[b].shard = call[b].shard
      /\ \A c \in Boxes \ {b} : call'[c] = call[c]
  BY CallTyped DEF LockShard, CallType
<1>3. AllocTypeOK'
  BY <1>1, <1>2 DEF AllocTypeOK, CallType
<1>4. ~call[b].fresh /\ call[b].shard \in Groups /\ call[b].shard # Temp
  BY <1>1, CallFacts, GroupNames DEF FreshIsApart
<1>5. LocksMatch'
  <2>1. \A c \in Boxes, g \in Groups : (lock[g] = c <=> HoldsLock(c) /\ call[c].shard = g)'
    BY <1>1, <1>2, <1>4, Owners, LockTyped DEF LocksMatch, HoldsLock
  <2>2. \A g \in Groups : (lock[g] = "collector" <=> g = Temp /\ upkeep.pc # "idle")'
    BY <1>1, <1>4, Owners, LockTyped DEF LocksMatch
  <2>3. \A n \in 0 .. ShardCount : (lock[NthLock(n)] = "report" <=> n < report.locks)'
    BY <1>1, <1>4, Owners, LockTyped, GroupNames DEF LocksMatch
  <2> QED BY <2>1, <2>2, <2>3 DEF LocksMatch
<1>6. ListedOnce' /\ GroupsAreValid' /\ MaintenanceInOrder'
  BY <1>1 DEF ListedOnce, GroupsAreValid, MaintenanceInOrder
<1>7. ListedAreAllocated'
  BY <1>1, <1>2, <1>4 DEF ListedAreAllocated, Lists
<1>8. FreshIsApart'
  BY <1>1, <1>2, <1>4 DEF FreshIsApart, Lists, HasSlot
<1>9. CallsInPlace'
  BY <1>1, <1>2 DEF CallsInPlace
<1>10. SlotsAreExclusive'
  BY <1>1, <1>2 DEF SlotsAreExclusive, HasSlot
<1>11. FlagsAreOwned'
  BY <1>1, <1>2 DEF FlagsAreOwned, HasSlot, At
<1> QED BY <1>3, <1>5, <1>6, <1>7, <1>8, <1>9, <1>10, <1>11

\* A call that holds its lock before and after a step that leaves the locks alone.
LEMMA LockKept ==
  ASSUME AllocInv, NEW b \in Boxes, UNCHANGED <<lock, upkeep, report>>,
         HoldsLock(b)' <=> HoldsLock(b), call'[b].shard = call[b].shard,
         \A c \in Boxes \ {b} : call'[c] = call[c]
  PROVE  LocksMatch'
BY DEF AllocInv, LocksMatch, HoldsLock

\* A call that releases its lock.
LEMMA LockReleased ==
  ASSUME AllocInv, NEW b \in Boxes, HoldsLock(b), UNCHANGED <<upkeep, report>>,
         lock' = [lock EXCEPT ![call[b].shard] = NULL], ~HoldsLock(b)',
         \A c \in Boxes \ {b} : call'[c] = call[c]
  PROVE  LocksMatch'
<1> USE DEF AllocInv
<1>1. call[b].shard \in Groups /\ call[b].shard # Temp /\ lock[call[b].shard] = b
  BY CallFacts, GroupNames DEF LocksMatch
<1>2. \A c \in Boxes, g \in Groups : (lock[g] = c <=> HoldsLock(c) /\ call[c].shard = g)'
  BY <1>1, Owners, LockTyped DEF LocksMatch, HoldsLock
<1>3. \A g \in Groups : (lock[g] = "collector" <=> g = Temp /\ upkeep.pc # "idle")'
  BY <1>1, Owners, LockTyped DEF LocksMatch
<1>4. \A n \in 0 .. ShardCount : (lock[NthLock(n)] = "report" <=> n < report.locks)'
  BY <1>1, Owners, LockTyped, GroupNames DEF LocksMatch
<1> QED BY <1>2, <1>3, <1>4 DEF LocksMatch

\* Two calls never hold the lock of the same group.
LEMMA OneCallPerGroup ==
  ASSUME AllocInv, NEW b \in Boxes, NEW c \in Boxes, HoldsLock(b), HoldsLock(c),
         call[b].shard = call[c].shard
  PROVE  b = c
BY CallFacts, GroupNames DEF AllocInv, LocksMatch

\* A call that has a unit to look at begins with its first slot.
BeginsClaim(b, u, f) ==
  call' = [call EXCEPT ![b].pc = "claim", ![b].unit = u, ![b].slot = 0, ![b].fresh = f]

LEMMA ClaimBegins ==
  ASSUME AllocTypeOK, NEW b \in Boxes, NEW u \in Units, NEW f \in BOOLEAN,
         BeginsClaim(b, u, f)
  PROVE  /\ call' \in [Boxes -> CallType]
         /\ call'[b].pc = "claim" /\ call'[b].fresh = f /\ call'[b].unit = u
         /\ call'[b].slot = 0 /\ call'[b].shard = call[b].shard
         /\ \A c \in Boxes \ {b} : call'[c] = call[c]
<1>1. call \in [Boxes -> CallType] /\ call[b] \in CallType
  BY CallTyped
<1> DEFINE new == [call[b] EXCEPT !.pc = "claim", !.unit = u, !.slot = 0, !.fresh = f]
<1>2. call' = [call EXCEPT ![b] = new]
  BY DEF BeginsClaim
<1>3. /\ new \in CallType
      /\ new.pc = "claim" /\ new.fresh = f /\ new.unit = u /\ new.slot = 0
      /\ new.shard = call[b].shard
  BY <1>1, FirstSlot DEF CallType
<1> HIDE DEF new
<1> QED BY <1>1, <1>2, <1>3

LEMMA NewUnitKeeps ==
  ASSUME AllocInv, NEW b \in Boxes, NEW u \in Units, NewUnit(b, u)
  PROVE  AllocInv'
<1> USE DEF AllocInv
<1>1. /\ call[b].pc = "pick"
      /\ u \notin allocated
      /\ allocated' = allocated \cup {u}
      /\ UNCHANGED <<groups, lock, upkeep, report>>
  BY DEF NewUnit
<1>2. /\ call' \in [Boxes -> CallType]
      /\ call'[b].pc = "claim" /\ call'[b].fresh /\ call'[b].unit = u /\ call'[b].slot = 0
      /\ call'[b].shard = call[b].shard
      /\ \A c \in Boxes \ {b} : call'[c] = call[c]
  <2>1. BeginsClaim(b, u, TRUE)
    BY DEF NewUnit, BeginsClaim
  <2> QED BY <2>1, ClaimBegins
<1>3. /\ mem' \in [Units -> [Words -> Int]]
      /\ \A i \in Slots : mem'[u][UsageFlag(i)] = 0
      /\ \A v \in Units \ {u} : mem'[v] = mem[v]
  <2>1. mem' = [mem EXCEPT ![u] = [x \in Words |-> 0]] /\ mem \in [Units -> [Words -> Int]]
    BY DEF NewUnit, AllocTypeOK
  <2> QED BY <2>1, UnitWords
<1>4. AllocTypeOK'
  BY <1>1, <1>2, <1>3 DEF AllocTypeOK, CallType
<1>5. ~call[b].fresh
  BY <1>1 DEF FreshIsApart
<1>6. LocksMatch'
  BY <1>1, <1>2, LockKept DEF HoldsLock
<1>7. ListedOnce' /\ GroupsAreValid'
  BY <1>1 DEF ListedOnce, GroupsAreValid
<1>8. ListedAreAllocated'
  BY <1>1, <1>2, <1>5 DEF ListedAreAllocated, Lists
<1>9. FreshIsApart'
  <2>1. \A g \in Groups : ~Lists(g, u)
    BY <1>1 DEF ListedAreAllocated, Lists
  <2>2. \A c \in Boxes \ {b} : call[c].fresh \/ HasSlot(c) => call[c].unit # u
    BY <1>1 DEF FreshIsApart, SlotsAreExclusive
  <2> QED BY <1>1, <1>2, <2>1, <2>2 DEF FreshIsApart, Lists, HasSlot
<1>10. CallsInPlace'
  BY <1>1, <1>2 DEF CallsInPlace
<1>11. MaintenanceInOrder'
  <2>1. upkeep.pc = "retain" /\ upkeep.unit <= Len(groups[Temp].units) =>
          groups[Temp].units[upkeep.unit] \in Units \ {u}
    <3> SUFFICES ASSUME upkeep.pc = "retain", upkeep.unit <= Len(groups[Temp].units)
                 PROVE  groups[Temp].units[upkeep.unit] \in Units \ {u}
      OBVIOUS
    <3>1. upkeep.unit \in Nat /\ upkeep.unit >= 1
      BY DEF MaintenanceInOrder, AllocTypeOK
    <3>2. /\ Temp \in Groups
          /\ DOMAIN groups[Temp].units = 1 .. Len(groups[Temp].units)
          /\ Len(groups[Temp].units) \in Nat
      BY GroupFacts, GroupNames
    <3>3. upkeep.unit \in DOMAIN groups[Temp].units
      BY <3>1, <3>2
    <3>4. /\ groups[Temp].units[upkeep.unit] \in Units
          /\ groups[Temp].units[upkeep.unit] \in allocated
      BY <3>2, <3>3, GroupFacts DEF ListedAreAllocated
    <3> QED BY <1>1, <3>4
  <2> QED BY <1>1, <1>3, <2>1 DEF MaintenanceInOrder
<1>12. SlotsAreExclusive'
  BY <1>1, <1>2, <1>3, CallFacts DEF SlotsAreExclusive, HasSlot
<1>13. FlagsAreOwned'
  BY <1>1, <1>2, <1>3 DEF FlagsAreOwned, HasSlot, At
<1> QED BY <1>4, <1>6, <1>7, <1>8, <1>9, <1>10, <1>11, <1>12, <1>13

LEMMA OutOfMemoryKeeps ==
  ASSUME AllocInv, NEW b \in Boxes, OutOfMemory(b)
  PROVE  AllocInv'
<1> USE DEF AllocInv
<1>1. /\ call[b].pc = "pick"
      /\ lock' = [lock EXCEPT ![call[b].shard] = NULL]
      /\ UNCHANGED <<allocated, mem, groups, upkeep, report>>
  BY DEF OutOfMemory
<1>2. /\ call' \in [Boxes -> CallType]
      /\ call'[b].pc = "none" /\ ~call'[b].fresh
      /\ \A c \in Boxes \ {b} : call'[c] = call[c]
  BY CallTyped, FirstSlot DEF OutOfMemory
<1>3. AllocTypeOK'
  BY <1>1, <1>2 DEF AllocTypeOK, CallType
<1>4. ~call[b].fresh
  BY <1>1 DEF FreshIsApart
<1>5. LocksMatch'
  BY <1>1, <1>2, LockReleased DEF HoldsLock
<1>6. ListedOnce' /\ GroupsAreValid' /\ MaintenanceInOrder'
  BY <1>1 DEF ListedOnce, GroupsAreValid, MaintenanceInOrder
<1>7. ListedAreAllocated'
  BY <1>1, <1>2, <1>4 DEF ListedAreAllocated, Lists
<1>8. FreshIsApart'
  BY <1>1, <1>2 DEF FreshIsApart, Lists, HasSlot
<1>9. CallsInPlace'
  BY <1>1, <1>2 DEF CallsInPlace
<1>10. SlotsAreExclusive'
  BY <1>1, <1>2 DEF SlotsAreExclusive, HasSlot
<1>11. FlagsAreOwned'
  BY <1>1, <1>2 DEF FlagsAreOwned, HasSlot, At
<1> QED BY <1>3, <1>5, <1>6, <1>7, <1>8, <1>9, <1>10, <1>11

LEMMA TryUnitKeeps ==
  ASSUME AllocInv, NEW b \in Boxes, TryUnit(b)
  PROVE  AllocInv'
<1> USE DEF AllocInv
<1> DEFINE s == call[b].shard
           v == groups[s].units[groups[s].toCheck[1]]
<1>1. /\ call[b].pc = "pick" /\ groups[s].toCheck # <<>>
      /\ UNCHANGED <<allocated, mem, groups, lock, upkeep, report>>
  BY DEF TryUnit
<1>2. v \in allocated /\ v \in Units
  <2>1. s \in Groups /\ s # Temp
    BY CallFacts, GroupNames
  <2>2. 1 \in DOMAIN groups[s].toCheck
    BY <1>1, <2>1, GroupFacts
  <2>3. groups[s].toCheck[1] \in DOMAIN groups[s].units
    BY <2>1, <2>2 DEF GroupsAreValid, Valid
  <2>4. v \in allocated
    BY <2>1, <2>3 DEF ListedAreAllocated
  <2> QED BY <2>4, CallFacts
<1>3. /\ call' \in [Boxes -> CallType]
      /\ call'[b].pc = "claim" /\ ~call'[b].fresh /\ call'[b].unit = v /\ call'[b].shard = s
      /\ \A c \in Boxes \ {b} : call'[c] = call[c]
  <2>1. BeginsClaim(b, v, FALSE)
    BY DEF TryUnit, BeginsClaim
  <2> HIDE DEF v
  <2> QED BY <1>2, <2>1, ClaimBegins
<1> HIDE DEF v
<1>4. AllocTypeOK'
  BY <1>1, <1>3 DEF AllocTypeOK, CallType
<1>5. ~call[b].fresh
  BY <1>1 DEF FreshIsApart
<1>6. LocksMatch'
  BY <1>1, <1>3, LockKept DEF HoldsLock
<1>7. ListedOnce' /\ GroupsAreValid' /\ MaintenanceInOrder'
  BY <1>1 DEF ListedOnce, GroupsAreValid, MaintenanceInOrder
<1>8. ListedAreAllocated'
  BY <1>1, <1>3, <1>5 DEF ListedAreAllocated, Lists
<1>9. FreshIsApart'
  BY <1>1, <1>3 DEF FreshIsApart, Lists, HasSlot
<1>10. CallsInPlace'
  <2> SUFFICES ASSUME NEW c \in Boxes, call'[c].pc \in {"claim", "init"}, ~call'[c].fresh
               PROVE  /\ groups[call'[c].shard].toCheck # <<>>
                      /\ call'[c].unit =
                           groups[call'[c].shard].units[groups[call'[c].shard].toCheck[1]]
    BY <1>1 DEF CallsInPlace
  <2>1. CASE c = b
    BY <1>1, <1>3, <2>1 DEF v
  <2>2. CASE c # b
    <3>1. call'[c] = call[c]
      BY <1>3, <2>2
    <3> QED BY <3>1 DEF CallsInPlace
  <2> QED BY <2>1, <2>2
<1>11. SlotsAreExclusive'
  BY <1>1, <1>3 DEF SlotsAreExclusive, HasSlot
<1>12. FlagsAreOwned'
  BY <1>1, <1>3 DEF FlagsAreOwned, HasSlot, At
<1> QED BY <1>4, <1>6, <1>7, <1>8, <1>9, <1>10, <1>11, <1>12

\* The units to check without the first stay valid.
LEMMA SwapRemoveValid ==
  ASSUME NEW q \in Seq(Nat), NEW r, NEW D,
         q # <<>>,
         r = SwapRemoveFirst(q),
         \A k \in DOMAIN q : q[k] \in D /\ \A l \in DOMAIN q \ {k} : q[l] # q[k]
  PROVE  /\ r \in Seq(Nat)
         /\ \A k \in DOMAIN r : r[k] \in D /\ \A l \in DOMAIN r \ {k} : r[l] # r[k]
<1>1. PICK c \in Seq(Nat) :
        /\ c = SwapRemoveFirst(q)
        /\ Len(c) = Len(q) - 1
        /\ \A i \in 1 .. Len(q) - 1 : c[i] = IF i = 1 THEN q[Len(q)] ELSE q[i]
  BY SwapRemoveFacts
<1>2. c = r
  BY <1>1, Zenon
<1>3. /\ Len(c) = Len(q) - 1
      /\ \A i \in 1 .. Len(q) - 1 : c[i] = IF i = 1 THEN q[Len(q)] ELSE q[i]
  BY <1>1, Zenon
<1>4. DOMAIN c = 1 .. Len(q) - 1 /\ DOMAIN q = 1 .. Len(q) /\ Len(q) \in Nat
  BY <1>3, SeqFacts
<1>5. ASSUME NEW k \in DOMAIN c
      PROVE  c[k] \in D /\ \A l \in DOMAIN c \ {k} : c[l] # c[k]
  <2> DEFINE from(i) == IF i = 1 THEN Len(q) ELSE i
  <2>1. ASSUME NEW i \in DOMAIN c
        PROVE  c[i] = q[from(i)] /\ from(i) \in DOMAIN q
    <3>1. i \in 1 .. Len(q) - 1 /\ i \in DOMAIN q /\ Len(q) \in DOMAIN q
      BY <1>4
    <3>2. CASE i = 1
      BY <1>3, <3>1, <3>2
    <3>3. CASE i # 1
      BY <1>3, <3>1, <3>3
    <3> QED BY <3>2, <3>3
  <2>2. \A l \in DOMAIN c \ {k} : from(l) \in DOMAIN q \ {from(k)}
    BY <1>4
  <2> HIDE DEF from
  <2> QED BY <2>1, <2>2
<1> QED BY <1>2, <1>5, Zenon

\* The slots stay exclusive when one box gets one that no other has, and the
\* others keep theirs.
LEMMA SlotsKept ==
  ASSUME AllocInv, NEW b \in Boxes,
         \A c \in Boxes \ {b} : call'[c] = call[c],
         \A c \in Boxes \ {b} : HasSlot(c) =>
           call[c].unit \in allocated' /\ mem'[call[c].unit][UsageFlag(call[c].slot)] = 1,
         HasSlot(b)' =>
           /\ call'[b].unit \in allocated'
           /\ mem'[call'[b].unit][UsageFlag(call'[b].slot)] = 1
           /\ \A c \in Boxes \ {b} : HasSlot(c) =>
                ~(call[c].unit = call'[b].unit /\ call[c].slot = call'[b].slot)
  PROVE  SlotsAreExclusive'
BY DEF AllocInv, SlotsAreExclusive, HasSlot

\* The flags stay owned when one box changes.
LEMMA FlagsKept ==
  ASSUME NEW b \in Boxes,
         \A c \in Boxes \ {b} : call'[c] = call[c],
         \A u \in Units, i \in Slots :
           /\ mem'[u][UsageFlag(i)] \in {0, 1}
           /\ mem'[u][UsageFlag(i)] = 1 =>
                \/ HasSlot(b)' /\ call'[b].unit = u /\ call'[b].slot = i
                \/ \E c \in Boxes \ {b} : HasSlot(c) /\ At(c, u, i)
  PROVE  FlagsAreOwned'
BY DEF FlagsAreOwned, HasSlot, At

\* A claim looks at one flag.
LEMMA ClaimFlags ==
  ASSUME AllocInv, NEW b \in Boxes, Claim(b)
  PROVE  /\ call[b].unit \in allocated /\ call[b].unit \in Units /\ call[b].slot \in Slots
         /\ mem' \in [Units -> [Words -> Int]]
         /\ mem'[call[b].unit][UsageFlag(call[b].slot)] = 1
         /\ \A w \in Units, j \in Slots : ~At(b, w, j) =>
              mem'[w][UsageFlag(j)] = mem[w][UsageFlag(j)]
         /\ \A w \in Units, j \in Slots, r \in Shards :
              mem'[w][PtrAtShard(j, r)] = mem[w][PtrAtShard(j, r)]
         /\ upkeep.pc = "retain" /\ upkeep.unit <= Len(groups[Temp].units) =>
              /\ groups[Temp].units[upkeep.unit] \in Units
              /\ groups[Temp].units[upkeep.unit] # call[b].unit
         /\ mem[call[b].unit][UsageFlag(call[b].slot)] = 1 => ~call[b].fresh
<1> USE DEF AllocInv
<1>1. /\ call[b].unit \in allocated /\ call[b].unit \in Units /\ call[b].slot \in Slots
      /\ ~Lists(Temp, call[b].unit) /\ call[b].pc = "claim"
  BY CallFacts, GroupNames DEF Claim
<1>2. mem \in [Units -> [Words -> Int]] /\ mem' = SetFlag(mem, call[b].unit, call[b].slot, 1)
  BY DEF Claim, AllocTypeOK
<1>3. /\ mem' \in [Units -> [Words -> Int]]
      /\ mem'[call[b].unit][UsageFlag(call[b].slot)] = 1
      /\ \A w \in Units, j \in Slots : ~At(b, w, j) =>
           mem'[w][UsageFlag(j)] = mem[w][UsageFlag(j)]
      /\ \A w \in Units, j \in Slots, r \in Shards :
           mem'[w][PtrAtShard(j, r)] = mem[w][PtrAtShard(j, r)]
  <2> DEFINE u == call[b].unit
             i == call[b].slot
  <2>1. mem \in [Units -> [Words -> Int]] /\ u \in Units /\ i \in Slots /\ 1 \in Int
    BY <1>1, <1>2
  <2>2. mem' = SetFlag(mem, u, i, 1)
    BY <1>2
  <2>3. \A w, j : At(b, w, j) <=> w = u /\ j = i
    BY DEF At
  <2> HIDE DEF u, i
  <2>4. /\ mem' \in [Units -> [Words -> Int]]
        /\ mem'[u][UsageFlag(i)] = 1
        /\ \A w \in Units, j \in Slots : ~(w = u /\ j = i) =>
             mem'[w][UsageFlag(j)] = mem[w][UsageFlag(j)]
        /\ \A w \in Units, j \in Slots, r \in Shards :
             mem'[w][PtrAtShard(j, r)] = mem[w][PtrAtShard(j, r)]
    BY <2>1, <2>2, SetFlagFacts
  <2> QED BY <2>3, <2>4 DEF u, i
<1>4. upkeep.pc = "retain" /\ upkeep.unit <= Len(groups[Temp].units) =>
        /\ groups[Temp].units[upkeep.unit] \in Units
        /\ groups[Temp].units[upkeep.unit] # call[b].unit
  BY <1>1, GroupFacts, GroupNames DEF MaintenanceInOrder, AllocTypeOK, Lists
<1>5. mem[call[b].unit][UsageFlag(call[b].slot)] = 1 => ~call[b].fresh
  BY <1>1 DEF FlagsAreOwned, FreshIsApart, HasSlot, At
<1> QED BY <1>1, <1>3, <1>4, <1>5

LEMMA ClaimKeeps ==
  ASSUME AllocInv, NEW b \in Boxes, Claim(b)
  PROVE  AllocInv'
<1> USE DEF AllocInv
<1> DEFINE s == call[b].shard
           u == call[b].unit
           i == call[b].slot
<1>1. call[b].pc = "claim" /\ UNCHANGED <<allocated, lock, upkeep, report>>
  BY DEF Claim
<1>2. /\ u \in allocated /\ u \in Units /\ i \in Slots
      /\ mem' \in [Units -> [Words -> Int]]
      /\ mem'[u][UsageFlag(i)] = 1
      /\ \A w \in Units, j \in Slots : ~(w = u /\ j = i) =>
           mem'[w][UsageFlag(j)] = mem[w][UsageFlag(j)]
      /\ upkeep.pc = "retain" /\ upkeep.unit <= Len(groups[Temp].units) =>
           groups[Temp].units[upkeep.unit] \in Units /\ groups[Temp].units[upkeep.unit] # u
      /\ mem[u][UsageFlag(i)] = 1 => ~call[b].fresh
  BY ClaimFlags DEF At
<1>3. s \in Shards /\ s \in Groups /\ s # Temp
  BY CallFacts, GroupNames
<1>4. CASE mem[u][UsageFlag(i)] = 0
  <2>1. /\ UNCHANGED groups
        /\ call' \in [Boxes -> CallType]
        /\ call'[b].pc = "init" /\ call'[b].fresh = call[b].fresh
        /\ call'[b].unit = u /\ call'[b].slot = i /\ call'[b].shard = s
        /\ \A c \in Boxes \ {b} : call'[c] = call[c]
    BY <1>4, CallTyped DEF Claim, CallType
  <2> HIDE DEF s, u, i
  <2>2. AllocTypeOK'
    BY <1>1, <1>2, <2>1 DEF AllocTypeOK, CallType
  <2>3. LocksMatch'
    BY <1>1, <2>1, LockKept DEF HoldsLock, s
  <2>4. ListedOnce' /\ GroupsAreValid'
    BY <1>1, <2>1 DEF ListedOnce, GroupsAreValid
  <2>5. ListedAreAllocated'
    BY <1>1, <2>1 DEF ListedAreAllocated, Lists, u
  <2>6. FreshIsApart'
    <3>1. \A c \in Boxes \ {b} : call[c].fresh => call[c].unit # u
      <4>1. CASE call[b].fresh
        BY <4>1 DEF FreshIsApart, u
      <4>2. CASE ~call[b].fresh
        BY <1>1, <1>3, <4>2, CallFacts DEF FreshIsApart, u, s
      <4> QED BY <4>1, <4>2
    <3> QED BY <1>1, <2>1, <3>1 DEF FreshIsApart, Lists, HasSlot, u
  <2>7. CallsInPlace'
    BY <1>1, <2>1 DEF CallsInPlace, u, s
  <2>8. MaintenanceInOrder'
    BY <1>1, <1>2, <2>1 DEF MaintenanceInOrder
  <2>9. SlotsAreExclusive'
    <3>1. \A c \in Boxes \ {b} : HasSlot(c) => ~(call[c].unit = u /\ call[c].slot = i)
      BY <1>4 DEF SlotsAreExclusive
    <3>2. \A c \in Boxes : HasSlot(c) => call[c].unit \in Units /\ call[c].slot \in Slots
      BY CallFacts
    <3>3. \A c \in Boxes \ {b} : HasSlot(c) =>
            call[c].unit \in allocated' /\ mem'[call[c].unit][UsageFlag(call[c].slot)] = 1
      BY <1>1, <1>2, <3>1, <3>2 DEF SlotsAreExclusive
    <3> QED BY <1>1, <1>2, <2>1, <3>1, <3>3, SlotsKept
  <2>10. FlagsAreOwned'
    <3> SUFFICES ASSUME NEW w \in Units, NEW j \in Slots
                 PROVE  /\ mem'[w][UsageFlag(j)] \in {0, 1}
                        /\ mem'[w][UsageFlag(j)] = 1 =>
                             \/ HasSlot(b)' /\ call'[b].unit = w /\ call'[b].slot = j
                             \/ \E c \in Boxes \ {b} : HasSlot(c) /\ At(c, w, j)
      BY <2>1, FlagsKept
    <3>1. CASE w = u /\ j = i
      BY <1>2, <2>1, <3>1 DEF HasSlot
    <3>2. CASE ~(w = u /\ j = i)
      BY <1>1, <1>2, <3>2 DEF FlagsAreOwned, HasSlot
    <3> QED BY <3>1, <3>2
  <2> QED BY <2>2, <2>3, <2>4, <2>5, <2>6, <2>7, <2>8, <2>9, <2>10
<1>5. CASE mem[u][UsageFlag(i)] = 1 /\ i < SlotCount - 1
  <2>1. /\ UNCHANGED groups
        /\ call' \in [Boxes -> CallType]
        /\ call'[b].pc = "claim" /\ call'[b].fresh = call[b].fresh
        /\ call'[b].unit = u /\ call'[b].shard = s
        /\ \A c \in Boxes \ {b} : call'[c] = call[c]
    <3>1. UNCHANGED groups /\ call' = [call EXCEPT ![b].slot = @ + 1]
      BY <1>2, <1>5 DEF Claim, Slots
    <3>2. i + 1 \in Slots
      BY <1>2, <1>5, AllocAssumption DEF Slots
    <3> QED BY <1>1, <3>1, <3>2, CallTyped DEF CallType
  <2> HIDE DEF s, u, i
  <2>2. AllocTypeOK'
    BY <1>1, <1>2, <2>1 DEF AllocTypeOK, CallType
  <2>3. LocksMatch'
    BY <1>1, <2>1, LockKept DEF HoldsLock, s
  <2>4. ListedOnce' /\ GroupsAreValid'
    BY <1>1, <2>1 DEF ListedOnce, GroupsAreValid
  <2>5. ListedAreAllocated'
    BY <1>1, <2>1 DEF ListedAreAllocated, Lists, u
  <2>6. FreshIsApart'
    BY <1>1, <1>2, <1>5, <2>1 DEF FreshIsApart, Lists, HasSlot, u
  <2>7. CallsInPlace'
    BY <1>1, <2>1 DEF CallsInPlace, u, s
  <2>8. MaintenanceInOrder'
    BY <1>1, <1>2, <2>1 DEF MaintenanceInOrder
  <2>9. SlotsAreExclusive'
    <3>1. \A c \in Boxes : HasSlot(c) => call[c].unit \in Units /\ call[c].slot \in Slots
      BY CallFacts
    <3>2. \A c \in Boxes \ {b} : HasSlot(c) =>
            call[c].unit \in allocated' /\ mem'[call[c].unit][UsageFlag(call[c].slot)] = 1
      BY <1>1, <1>2, <3>1 DEF SlotsAreExclusive
    <3>3. ~HasSlot(b)'
      BY <2>1 DEF HasSlot
    <3> QED BY <2>1, <3>2, <3>3, SlotsKept
  <2>10. FlagsAreOwned'
    <3> SUFFICES ASSUME NEW w \in Units, NEW j \in Slots
                 PROVE  /\ mem'[w][UsageFlag(j)] \in {0, 1}
                        /\ mem'[w][UsageFlag(j)] = 1 =>
                             \E c \in Boxes \ {b} : HasSlot(c) /\ At(c, w, j)
      BY <2>1, FlagsKept
    <3>1. mem'[w][UsageFlag(j)] = mem[w][UsageFlag(j)]
      BY <1>2, <1>5
    <3> QED BY <1>1, <3>1 DEF FlagsAreOwned, HasSlot
  <2> QED BY <2>2, <2>3, <2>4, <2>5, <2>6, <2>7, <2>8, <2>9, <2>10
<1>6. CASE mem[u][UsageFlag(i)] = 1 /\ ~(i < SlotCount - 1)
  <2>1. /\ groups' = [groups EXCEPT ![s].toCheck = SwapRemoveFirst(@)]
        /\ call' \in [Boxes -> CallType]
        /\ call'[b].pc = "pick" /\ call'[b].fresh = call[b].fresh
        /\ call'[b].unit = u /\ call'[b].shard = s
        /\ \A c \in Boxes \ {b} : call'[c] = call[c]
    BY <1>6, CallTyped DEF Claim, CallType
  <2>2. ~call[b].fresh /\ groups[s].toCheck # <<>>
    BY <1>1, <1>2, <1>6 DEF CallsInPlace
  <2> HIDE DEF s, u, i
  <2>3. groups[s].toCheck \in Seq(Nat) /\ groups \in [Groups -> GroupType]
    BY <1>3, GroupFacts DEF AllocTypeOK, GroupType
  <2>4. PICK r : r = SwapRemoveFirst(groups[s].toCheck)
    OBVIOUS
  <2>5. Valid(groups[s])
    BY <1>3 DEF GroupsAreValid
  <2>6. /\ r \in Seq(Nat)
        /\ \A k \in DOMAIN r : /\ r[k] \in DOMAIN groups[s].units
                               /\ \A l \in DOMAIN r \ {k} : r[l] # r[k]
    <3>1. PICK q \in Seq(Nat) : q = groups[s].toCheck
      BY <2>3
    <3>2. \A k \in DOMAIN q : /\ q[k] \in DOMAIN groups[s].units
                              /\ \A l \in DOMAIN q \ {k} : q[l] # q[k]
      BY <2>5, <3>1, Zenon DEF Valid
    <3>3. q # <<>> /\ r = SwapRemoveFirst(q)
      BY <2>2, <2>4, <3>1, Zenon
    <3>4. PICK D : D = DOMAIN groups[s].units
      OBVIOUS
    <3>5. \A k \in DOMAIN q : q[k] \in D /\ \A l \in DOMAIN q \ {k} : q[l] # q[k]
      BY <3>2, <3>4, Zenon
    <3>6. /\ r \in Seq(Nat)
          /\ \A k \in DOMAIN r : r[k] \in D /\ \A l \in DOMAIN r \ {k} : r[l] # r[k]
      BY <3>3, <3>5, SwapRemoveValid
    <3> QED BY <3>4, <3>6, Zenon
  <2>7. /\ groups' \in [Groups -> GroupType]
        /\ groups'[s].units = groups[s].units /\ groups'[s].toCheck = r
        /\ \A g \in Groups \ {s} : groups'[g] = groups[g]
    <3>1. groups' = [groups EXCEPT ![s] = [groups[s] EXCEPT !.toCheck = r]]
      BY <2>1, <2>4
    <3> QED BY <1>3, <2>3, <2>6, <3>1 DEF GroupType
  <2>8. AllocTypeOK'
    BY <1>1, <1>2, <2>1, <2>7 DEF AllocTypeOK, CallType, GroupType
  <2>9. LocksMatch'
    BY <1>1, <2>1, LockKept DEF HoldsLock, s
  <2>10. \A g \in Groups : groups'[g].units = groups[g].units
    BY <2>7
  <2>11. ListedOnce' /\ ListedAreAllocated'
    BY <1>1, <2>1, <2>2, <2>10 DEF ListedOnce, ListedAreAllocated, Lists
  <2>12. GroupsAreValid'
    BY <1>1, <2>6, <2>7 DEF GroupsAreValid, Valid
  <2>13. FreshIsApart'
    BY <1>1, <2>1, <2>2, <2>10 DEF FreshIsApart, Lists, HasSlot
  <2>14. CallsInPlace'
    <3>1. \A c \in Boxes \ {b} : call[c].pc \in {"claim", "init"} =>
            call[c].shard # s /\ call[c].shard \in Groups
      <4> SUFFICES ASSUME NEW c \in Boxes \ {b}, call[c].pc \in {"claim", "init"}
                   PROVE  call[c].shard # s /\ call[c].shard \in Groups
        OBVIOUS
      <4>1. call[c].shard \in Groups
        BY CallFacts, GroupNames
      <4>2. HoldsLock(b) /\ HoldsLock(c)
        BY <1>1 DEF HoldsLock
      <4> QED BY <4>1, <4>2, OneCallPerGroup DEF s
    <3>2. ASSUME NEW c \in Boxes, call'[c].pc \in {"claim", "init"}, ~call'[c].fresh
          PROVE  /\ groups'[call'[c].shard].toCheck # <<>>
                 /\ call'[c].unit =
                      groups'[call'[c].shard].units[groups'[call'[c].shard].toCheck[1]]
      <4>1. c # b
        BY <2>1, <3>2
      <4>2. call'[c] = call[c]
        BY <2>1, <4>1
      <4>3. groups'[call[c].shard] = groups[call[c].shard]
        BY <2>7, <3>1, <3>2, <4>1, <4>2
      <4> QED BY <3>2, <4>2, <4>3 DEF CallsInPlace
    <3> QED BY <3>2 DEF CallsInPlace
  <2>15. MaintenanceInOrder'
    <3>1. groups'[Temp] = groups[Temp]
      BY <1>3, <2>7, GroupNames
    <3> QED BY <1>1, <1>2, <3>1 DEF MaintenanceInOrder
  <2>16. SlotsAreExclusive'
    <3>1. \A c \in Boxes : HasSlot(c) => call[c].unit \in Units /\ call[c].slot \in Slots
      BY CallFacts
    <3>2. \A c \in Boxes \ {b} : HasSlot(c) =>
            call[c].unit \in allocated' /\ mem'[call[c].unit][UsageFlag(call[c].slot)] = 1
      BY <1>1, <1>2, <3>1 DEF SlotsAreExclusive
    <3>3. ~HasSlot(b)'
      BY <2>1 DEF HasSlot
    <3> QED BY <2>1, <3>2, <3>3, SlotsKept
  <2>17. FlagsAreOwned'
    <3> SUFFICES ASSUME NEW w \in Units, NEW j \in Slots
                 PROVE  /\ mem'[w][UsageFlag(j)] \in {0, 1}
                        /\ mem'[w][UsageFlag(j)] = 1 =>
                             \E c \in Boxes \ {b} : HasSlot(c) /\ At(c, w, j)
      BY <2>1, FlagsKept
    <3>1. mem'[w][UsageFlag(j)] = mem[w][UsageFlag(j)]
      BY <1>2, <1>6
    <3> QED BY <1>1, <3>1 DEF FlagsAreOwned, HasSlot
  <2> QED BY <2>8, <2>9, <2>11, <2>12, <2>13, <2>14, <2>15, <2>16, <2>17
<1> QED BY <1>2, <1>4, <1>5, <1>6 DEF FlagsAreOwned

\* A group with one more unit, which is to be checked.
LEMMA AppendValid ==
  ASSUME NEW group \in GroupType, NEW u \in Units, Valid(group)
  PROVE  \E G \in GroupType :
           /\ G = [units |-> Append(group.units, u),
                   toCheck |-> Append(group.toCheck, Len(group.units) + 1)]
           /\ Valid(G)
           /\ DOMAIN G.units = 1 .. Len(group.units) + 1
           /\ \A k \in 1 .. Len(group.units) : G.units[k] = group.units[k]
           /\ G.units[Len(group.units) + 1] = u
<1>1. group.units \in Seq(Units) /\ group.toCheck \in Seq(Nat)
  BY DEF GroupType
<1>2. PICK q \in Seq(Units), r \in Seq(Nat) : q = group.units /\ r = group.toCheck
  BY <1>1
<1>3. /\ DOMAIN q = 1 .. Len(q) /\ Len(q) \in Nat
      /\ DOMAIN r = 1 .. Len(r) /\ Len(r) \in Nat /\ Len(q) + 1 \in Nat
      /\ \A k \in DOMAIN r : r[k] \in Nat
  BY SeqFacts
<1>4. \A k \in DOMAIN r : r[k] \in DOMAIN q /\ \A l \in DOMAIN r \ {k} : r[l] # r[k]
  BY <1>2, Zenon DEF Valid
<1>5. PICK q2 \in Seq(Units) : Extends(q2, q, u)
  BY AppendFacts, Zenon
<1>6. PICK r2 \in Seq(Nat) : Extends(r2, r, Len(q) + 1)
  <2>1. Len(q) + 1 \in Nat
    BY <1>3
  <2> QED BY <2>1, AppendFacts, Zenon
<1>7. /\ q2 = Append(q, u)
      /\ Len(q2) = Len(q) + 1 /\ \A i \in 1 .. Len(q) : q2[i] = q[i]
      /\ q2[Len(q) + 1] = u
  BY <1>5, Zenon DEF Extends
<1>8. /\ r2 = Append(r, Len(q) + 1)
      /\ Len(r2) = Len(r) + 1 /\ \A i \in 1 .. Len(r) : r2[i] = r[i]
      /\ r2[Len(r) + 1] = Len(q) + 1
  BY <1>6, Zenon DEF Extends
<1>9. DOMAIN q2 = 1 .. Len(q) + 1 /\ DOMAIN r2 = 1 .. Len(r) + 1
  BY <1>7, <1>8, SeqFacts
<1>10. \A k \in DOMAIN r2 : r2[k] \in DOMAIN q2 /\ \A l \in DOMAIN r2 \ {k} : r2[l] # r2[k]
  <2> SUFFICES ASSUME NEW k \in DOMAIN r2, NEW l \in DOMAIN r2 \ {k}
               PROVE  r2[k] \in DOMAIN q2 /\ r2[l] # r2[k]
    <3>1. ASSUME NEW k \in DOMAIN r2, DOMAIN r2 \ {k} = {}
          PROVE  r2[k] \in DOMAIN q2
      BY <1>3, <1>4, <1>8, <1>9
    <3> QED BY <3>1
  <2>1. \A i \in 1 .. Len(r) : r2[i] \in 1 .. Len(q)
    BY <1>3, <1>4, <1>8
  <2>2. CASE k = Len(r) + 1
    <3>1. l \in 1 .. Len(r)
      BY <1>3, <1>9, <2>2
    <3> QED BY <1>3, <1>8, <1>9, <2>1, <2>2, <3>1
  <2>3. CASE l = Len(r) + 1
    <3>1. k \in 1 .. Len(r)
      BY <1>3, <1>9, <2>3
    <3> QED BY <1>3, <1>8, <1>9, <2>1, <2>3, <3>1
  <2>4. CASE k # Len(r) + 1 /\ l # Len(r) + 1
    <3>1. k \in 1 .. Len(r) /\ l \in 1 .. Len(r) /\ k # l
      BY <1>3, <1>9, <2>4
    <3> QED BY <1>3, <1>4, <1>8, <1>9, <2>1, <3>1
  <2> QED BY <2>2, <2>3, <2>4
<1>11. PICK G : G = [units |-> q2, toCheck |-> r2]
  OBVIOUS
<1>12. G \in GroupType /\ G.units = q2 /\ G.toCheck = r2
  BY <1>11 DEF GroupType
<1>13. Valid(G)
  BY <1>10, <1>12, Zenon DEF Valid
<1>14. G = [units |-> Append(group.units, u),
            toCheck |-> Append(group.toCheck, Len(group.units) + 1)]
  BY <1>2, <1>7, <1>8, <1>11, Zenon
<1> QED BY <1>2, <1>7, <1>9, <1>12, <1>13, <1>14, Zenon

\* What a step leaves of MaintenanceInOrder when it keeps the temporary group and
\* sets no flag of its units.
LEMMA OrderKept ==
  ASSUME AllocInv, UNCHANGED upkeep, groups'[Temp] = groups[Temp],
         \A k \in DOMAIN groups[Temp].units, i \in Slots :
           mem[groups[Temp].units[k]][UsageFlag(i)] = 0 =>
             mem'[groups[Temp].units[k]][UsageFlag(i)] = 0
  PROVE  MaintenanceInOrder'
<1>1. upkeep.pc = "retain" /\ upkeep.unit <= Len(groups[Temp].units) =>
        upkeep.unit \in DOMAIN groups[Temp].units
  BY GroupFacts, GroupNames DEF AllocInv, MaintenanceInOrder, AllocTypeOK
<1> QED BY <1>1 DEF AllocInv, MaintenanceInOrder

LEMMA InitialiseKeeps ==
  ASSUME AllocInv, NEW b \in Boxes, Initialise(b)
  PROVE  AllocInv'
<1> USE DEF AllocInv
<1> DEFINE s == call[b].shard
           u == call[b].unit
           i == call[b].slot
<1>1. /\ call[b].pc = "init"
      /\ lock' = [lock EXCEPT ![s] = NULL]
      /\ UNCHANGED <<allocated, upkeep, report>>
  BY DEF Initialise
<1>2. /\ call' \in [Boxes -> CallType]
      /\ call'[b].pc = "own" /\ ~call'[b].fresh
      /\ call'[b].unit = u /\ call'[b].slot = i /\ call'[b].shard = s
      /\ \A c \in Boxes \ {b} : call'[c] = call[c]
  BY CallTyped DEF Initialise, CallType
<1>3. /\ s \in Groups /\ s # Temp /\ i \in Slots /\ u \in allocated /\ u \in Units
      /\ HasSlot(b) /\ HoldsLock(b)
  BY <1>1, CallFacts, GroupNames DEF HasSlot, HoldsLock
<1>4. /\ mem' \in [Units -> [Words -> Int]]
      /\ \A w \in Units, j \in Slots : mem'[w][UsageFlag(j)] = mem[w][UsageFlag(j)]
  <2>1. mem \in [Units -> [Words -> Int]] /\ 1 \in Int /\ Shards \subseteq Shards
    BY DEF AllocTypeOK
  <2>2. mem' = Adjust(mem, u, i, Shards, 1)
    BY DEF Initialise
  <2>3. u \in Units /\ i \in Slots
    BY <1>3
  <2> HIDE DEF u, i
  <2> QED BY <2>1, <2>2, <2>3, AdjustFacts
<1>5. /\ groups \in [Groups -> GroupType] /\ groups[s] \in GroupType /\ Valid(groups[s])
      /\ groups' = [groups EXCEPT ![s] = WithUnit(groups[s], call[b])]
  BY <1>3, GroupFacts DEF Initialise, AllocTypeOK, GroupType, GroupsAreValid
<1>6. PICK G \in GroupType :
        /\ G = WithUnit(groups[s], call[b])
        /\ Valid(G)
        /\ \A k \in DOMAIN groups[s].units : k \in DOMAIN G.units /\ G.units[k] = groups[s].units[k]
        /\ \A k \in DOMAIN G.units \ DOMAIN groups[s].units : G.units[k] = u /\ call[b].fresh
        /\ \A k, l \in DOMAIN G.units \ DOMAIN groups[s].units : k = l
        /\ call[b].fresh => \E k \in DOMAIN G.units \ DOMAIN groups[s].units : TRUE
  <2>1. CASE call[b].fresh
    <3>1. PICK G \in GroupType :
            /\ G = [units |-> Append(groups[s].units, u),
                    toCheck |-> Append(groups[s].toCheck, Len(groups[s].units) + 1)]
            /\ Valid(G)
            /\ DOMAIN G.units = 1 .. Len(groups[s].units) + 1
            /\ \A k \in 1 .. Len(groups[s].units) : G.units[k] = groups[s].units[k]
            /\ G.units[Len(groups[s].units) + 1] = u
      BY <1>3, <1>5, AppendValid
    <3>2. G = WithUnit(groups[s], call[b]) /\ Valid(G)
      BY <2>1, <3>1, Zenon DEF WithUnit
    <3>3. /\ DOMAIN G.units = 1 .. Len(groups[s].units) + 1
          /\ \A k \in 1 .. Len(groups[s].units) : G.units[k] = groups[s].units[k]
          /\ G.units[Len(groups[s].units) + 1] = u
      BY <3>1, Zenon
    <3>4. DOMAIN groups[s].units = 1 .. Len(groups[s].units) /\ Len(groups[s].units) \in Nat
      BY <1>3, GroupFacts
    <3>5. /\ \A k \in DOMAIN groups[s].units : k \in DOMAIN G.units /\ G.units[k] = groups[s].units[k]
          /\ \A k \in DOMAIN G.units \ DOMAIN groups[s].units : k = Len(groups[s].units) + 1
          /\ Len(groups[s].units) + 1 \in DOMAIN G.units \ DOMAIN groups[s].units
      <4>1. PICK n \in Nat : n = Len(groups[s].units)
        BY <3>4
      <4>2. \A k \in 1 .. n : k \in 1 .. n + 1
        BY <4>1
      <4>3. (1 .. n + 1) \ (1 .. n) = {n + 1}
        BY <4>1
      <4> QED BY <3>3, <3>4, <4>1, <4>2, <4>3, Zenon
    <3> QED BY <2>1, <3>2, <3>3, <3>5, Zenon
  <2>2. CASE ~call[b].fresh
    <3>1. WithUnit(groups[s], call[b]) = groups[s]
      BY <2>2 DEF WithUnit
    <3> QED BY <1>5, <2>2, <3>1, Zenon
  <2> QED BY <2>1, <2>2
<1>7. /\ groups' \in [Groups -> GroupType] /\ groups'[s] = G
      /\ \A g \in Groups \ {s} : groups'[g] = groups[g]
  BY <1>3, <1>5, <1>6
<1> HIDE DEF s, u, i
<1>8. AllocTypeOK'
  <2>1. lock' \in [Groups -> Boxes \cup {"collector", "report", NULL}]
    BY <1>1, LockTyped
  <2> QED BY <1>1, <1>2, <1>4, <1>7, <2>1 DEF AllocTypeOK, CallType, GroupType
<1>9. LocksMatch'
  BY <1>1, <1>2, <1>3, LockReleased DEF HoldsLock, s
<1>10. \A g \in Groups : ~Lists(g, u) \/ ~call[b].fresh
  BY DEF FreshIsApart, u
<1>11. \A g \in Groups : \A k \in DOMAIN groups'[g].units :
         \/ k \in DOMAIN groups[g].units /\ groups'[g].units[k] = groups[g].units[k]
         \/ g = s /\ k \notin DOMAIN groups[g].units /\ groups'[g].units[k] = u /\ call[b].fresh
  BY <1>6, <1>7
<1>12. \A g \in Groups : \A k \in DOMAIN groups[g].units :
         k \in DOMAIN groups'[g].units /\ groups'[g].units[k] = groups[g].units[k]
  BY <1>6, <1>7
<1>13. ListedOnce'
  <2> SUFFICES ASSUME NEW g \in Groups, NEW h \in Groups,
                      NEW k \in DOMAIN groups'[g].units, NEW l \in DOMAIN groups'[h].units,
                      groups'[g].units[k] = groups'[h].units[l]
               PROVE  g = h /\ k = l
    BY DEF ListedOnce
  <2>1. CASE k \in DOMAIN groups[g].units /\ l \in DOMAIN groups[h].units
    BY <1>11, <2>1 DEF ListedOnce
  <2>2. CASE k \in DOMAIN groups[g].units /\ l \notin DOMAIN groups[h].units
    BY <1>10, <1>11, <2>2 DEF Lists
  <2>3. CASE k \notin DOMAIN groups[g].units /\ l \in DOMAIN groups[h].units
    BY <1>10, <1>11, <2>3 DEF Lists
  <2>4. CASE k \notin DOMAIN groups[g].units /\ l \notin DOMAIN groups[h].units
    BY <1>6, <1>7, <1>11, <2>4
  <2> QED BY <2>1, <2>2, <2>3, <2>4
<1>14. ListedAreAllocated'
  <2>1. \A g \in Groups : \A k \in DOMAIN groups'[g].units : groups'[g].units[k] \in allocated'
    BY <1>1, <1>3, <1>11 DEF ListedAreAllocated
  <2>2. ASSUME NEW w \in allocated'
        PROVE  (\E g \in Groups : Lists(g, w)) ' \/ (\E c \in Boxes : call[c].fresh /\ call[c].unit = w)'
    <3>1. w \in allocated
      BY <1>1
    <3>2. CASE \E g \in Groups : Lists(g, w)
      BY <1>12, <3>2 DEF Lists
    <3>3. CASE call[b].fresh /\ u = w
      BY <1>3, <1>6, <1>7, <3>3 DEF Lists
    <3>4. CASE \E c \in Boxes \ {b} : call[c].fresh /\ call[c].unit = w
      BY <1>2, <3>4
    <3> QED BY <3>1, <3>2, <3>3, <3>4 DEF ListedAreAllocated, u
  <2> QED BY <2>1, <2>2 DEF ListedAreAllocated
<1>15. FreshIsApart'
  <2>1. ASSUME NEW c \in Boxes \ {b}, call[c].fresh
        PROVE  call[c].unit # u /\ \A g \in Groups : ~Lists(g, call[c].unit)'
    <3>1. call[c].unit # u
      BY <1>3, <2>1 DEF FreshIsApart, u
    <3>2. \A g \in Groups : ~Lists(g, call[c].unit)
      BY <2>1 DEF FreshIsApart
    <3> QED BY <1>2, <1>11, <3>1, <3>2 DEF Lists
  <2> QED BY <1>1, <1>2, <2>1 DEF FreshIsApart, HasSlot
<1>16. CallsInPlace'
  <2>1. \A c \in Boxes \ {b} : call[c].pc \in {"claim", "init"} =>
          call[c].shard # s /\ call[c].shard \in Groups
    BY <1>3, OneCallPerGroup, CallFacts, GroupNames DEF HoldsLock, s
  <2> QED BY <1>2, <1>7, <2>1 DEF CallsInPlace
<1>17. GroupsAreValid'
  BY <1>1, <1>6, <1>7 DEF GroupsAreValid
<1>18. MaintenanceInOrder'
  <2>1. groups'[Temp] = groups[Temp] /\ \A k \in DOMAIN groups[Temp].units : groups[Temp].units[k] \in Units
    BY <1>3, <1>7, GroupNames, GroupFacts
  <2> QED BY <1>1, <1>4, <2>1, OrderKept
<1>19. SlotsAreExclusive'
  <2>1. \A c \in Boxes : HasSlot(c) =>
          /\ call[c].unit \in allocated'
          /\ mem'[call[c].unit][UsageFlag(call[c].slot)] = 1
    BY <1>1, <1>4, CallFacts DEF SlotsAreExclusive
  <2>2. \A c \in Boxes \ {b} : HasSlot(c) => ~(call[c].unit = u /\ call[c].slot = i)
    BY <1>3 DEF SlotsAreExclusive, u, i
  <2>3. u \in allocated' /\ mem'[u][UsageFlag(i)] = 1
    BY <1>3, <2>1 DEF u, i
  <2> QED BY <1>2, <2>1, <2>2, <2>3, SlotsKept
<1>20. FlagsAreOwned'
  <2> SUFFICES ASSUME NEW w \in Units, NEW j \in Slots
               PROVE  /\ mem'[w][UsageFlag(j)] \in {0, 1}
                      /\ mem'[w][UsageFlag(j)] = 1 =>
                           \/ HasSlot(b)' /\ call'[b].unit = w /\ call'[b].slot = j
                           \/ \E c \in Boxes \ {b} : HasSlot(c) /\ At(c, w, j)
    BY <1>2, FlagsKept
  <2>1. HasSlot(b)'
    BY <1>2 DEF HasSlot
  <2> QED BY <1>2, <1>4, <2>1 DEF FlagsAreOwned, At, u, i
<1> QED BY <1>8, <1>9, <1>13, <1>14, <1>15, <1>16, <1>17, <1>18, <1>19, <1>20

\* What a panicking init_func leaves in memory: the flag is cleared, and all else
\* is as before.
LEMMA PanicMemory ==
  ASSUME AllocInv, NEW b \in Boxes, NEW p \in Shards, InitPanics(b, p)
  PROVE  /\ mem' \in [Units -> [Words -> Int]]
         /\ mem'[call[b].unit][UsageFlag(call[b].slot)] = 0
         /\ \A w \in Units, j \in Slots : ~(w = call[b].unit /\ j = call[b].slot) =>
              mem'[w][UsageFlag(j)] = mem[w][UsageFlag(j)]
         /\ \A w \in Units, j \in Slots, r \in Shards :
              mem'[w][PtrAtShard(j, r)] = mem[w][PtrAtShard(j, r)]
<1> USE DEF AllocInv
<1> DEFINE u == call[b].unit
           i == call[b].slot
           S == ShardIndexesUntil(p)
<1>1. /\ mem \in [Units -> [Words -> Int]] /\ u \in Units /\ i \in Slots
      /\ 0 \in Int /\ 1 \in Int /\ -1 \in Int /\ S \subseteq Shards
  BY CallFacts DEF InitPanics, AllocTypeOK, ShardIndexesUntil
<1>2. PICK m1 : m1 = Adjust(mem, u, i, S, 1)
  OBVIOUS
<1>3. PICK m2 : m2 = Adjust(m1, u, i, S, -1)
  OBVIOUS
<1>4. mem' = SetFlag(m2, u, i, 0)
  BY <1>2, <1>3, Zenon DEF InitPanics, DroppedOnUnwind
<1> HIDE DEF u, i, S
<1>5. /\ m1 \in [Units -> [Words -> Int]]
      /\ \A w \in Units, j \in Slots : m1[w][UsageFlag(j)] = mem[w][UsageFlag(j)]
      /\ \A w \in Units, j \in Slots, s \in Shards :
           /\ w = u /\ j = i /\ s \in S => m1[w][PtrAtShard(j, s)] = mem[w][PtrAtShard(j, s)] + 1
           /\ ~(w = u /\ j = i /\ s \in S) => m1[w][PtrAtShard(j, s)] = mem[w][PtrAtShard(j, s)]
  BY <1>1, <1>2, AdjustFacts
<1>6. /\ m2 \in [Units -> [Words -> Int]]
      /\ \A w \in Units, j \in Slots : m2[w][UsageFlag(j)] = m1[w][UsageFlag(j)]
      /\ \A w \in Units, j \in Slots, s \in Shards :
           /\ w = u /\ j = i /\ s \in S => m2[w][PtrAtShard(j, s)] = m1[w][PtrAtShard(j, s)] + (-1)
           /\ ~(w = u /\ j = i /\ s \in S) => m2[w][PtrAtShard(j, s)] = m1[w][PtrAtShard(j, s)]
  BY <1>1, <1>3, <1>5, AdjustFacts
<1>7. /\ mem' \in [Units -> [Words -> Int]]
      /\ mem'[u][UsageFlag(i)] = 0
      /\ \A w \in Units, j \in Slots : ~(w = u /\ j = i) =>
           mem'[w][UsageFlag(j)] = m2[w][UsageFlag(j)]
      /\ \A w \in Units, j \in Slots, s \in Shards :
           mem'[w][PtrAtShard(j, s)] = m2[w][PtrAtShard(j, s)]
  <2>1. m2 \in [Units -> [Words -> Int]]
    BY <1>6
  <2>2. u \in Units /\ i \in Slots /\ 0 \in Int
    BY <1>1
  <2>3. PICK v \in Units, j \in Slots : v = u /\ j = i
    BY <2>2
  <2>4. mem' = SetFlag(m2, v, j, 0)
    BY <1>4, <2>3
  <2>5. /\ mem' \in [Units -> [Words -> Int]]
        /\ mem'[v][UsageFlag(j)] = 0
        /\ \A w \in Units, k \in Slots : ~(w = v /\ k = j) =>
             mem'[w][UsageFlag(k)] = m2[w][UsageFlag(k)]
        /\ \A w \in Units, k \in Slots, s \in Shards :
             mem'[w][PtrAtShard(k, s)] = m2[w][PtrAtShard(k, s)]
    BY <2>1, <2>4, SetFlagFacts
  <2> QED BY <2>3, <2>5
<1>8. ASSUME NEW w \in Units, NEW j \in Slots, NEW r \in Shards
      PROVE  mem'[w][PtrAtShard(j, r)] = mem[w][PtrAtShard(j, r)]
  <2>1. mem[w][PtrAtShard(j, r)] \in Int
    BY <1>1, UnitWords
  <2> QED BY <1>5, <1>6, <1>7, <2>1
<1> QED BY <1>5, <1>6, <1>7, <1>8 DEF u, i

LEMMA InitPanicsKeeps ==
  ASSUME AllocInv, NEW b \in Boxes, NEW p \in Shards, InitPanics(b, p)
  PROVE  AllocInv'
<1> USE DEF AllocInv
<1> DEFINE u == call[b].unit
           i == call[b].slot
<1>1. /\ call[b].pc = "init"
      /\ lock' = [lock EXCEPT ![call[b].shard] = NULL]
      /\ allocated' = IF call[b].fresh THEN allocated \ {u} ELSE allocated
      /\ UNCHANGED <<groups, upkeep, report>>
  BY DEF InitPanics
<1>2. /\ call' \in [Boxes -> CallType]
      /\ call'[b].pc = "none" /\ ~call'[b].fresh
      /\ \A c \in Boxes \ {b} : call'[c] = call[c]
  BY CallTyped, FirstSlot DEF InitPanics
<1>3. /\ i \in Slots /\ u \in Units /\ HasSlot(b) /\ HoldsLock(b)
      /\ \A g \in Groups : Lists(g, u) => ~call[b].fresh /\ g # Temp
  BY <1>1, CallFacts, GroupNames DEF HasSlot, HoldsLock
<1>4. /\ mem' \in [Units -> [Words -> Int]]
      /\ mem'[u][UsageFlag(i)] = 0
      /\ \A w \in Units, j \in Slots : ~(w = u /\ j = i) =>
           mem'[w][UsageFlag(j)] = mem[w][UsageFlag(j)]
  BY PanicMemory
<1> HIDE DEF u, i
<1>5. AllocTypeOK'
  <2>1. lock' \in [Groups -> Boxes \cup {"collector", "report", NULL}]
    BY <1>1, LockTyped
  <2> QED BY <1>1, <1>2, <1>4, <2>1 DEF AllocTypeOK, CallType
<1>6. LocksMatch'
  BY <1>1, <1>2, <1>3, LockReleased DEF HoldsLock
<1>7. ListedOnce' /\ GroupsAreValid' /\ CallsInPlace'
  BY <1>1, <1>2 DEF ListedOnce, GroupsAreValid, CallsInPlace
<1>8. ListedAreAllocated'
  <2>1. \A g \in Groups : \A k \in DOMAIN groups[g].units : groups[g].units[k] \in allocated'
    BY <1>1, <1>3 DEF ListedAreAllocated, Lists
  <2>2. ASSUME NEW w \in allocated'
        PROVE  (\E g \in Groups : Lists(g, w)) \/ (\E c \in Boxes \ {b} : call[c].fresh /\ call[c].unit = w)
    BY <1>1, <2>2 DEF ListedAreAllocated, u
  <2> QED BY <1>1, <1>2, <2>1, <2>2 DEF ListedAreAllocated, Lists
<1>9. FreshIsApart'
  <2>1. ASSUME NEW c \in Boxes \ {b}, call[c].fresh
        PROVE  call[c].unit \in allocated'
    BY <1>1, <2>1 DEF FreshIsApart, u
  <2> QED BY <1>1, <1>2, <2>1 DEF FreshIsApart, Lists, HasSlot
<1>10. MaintenanceInOrder'
  <2>1. \A k \in DOMAIN groups[Temp].units : groups[Temp].units[k] \in Units /\ groups[Temp].units[k] # u
    BY <1>3, GroupNames, GroupFacts DEF Lists
  <2> QED BY <1>1, <1>4, <2>1, OrderKept
<1>11. \A c \in Boxes \ {b} : HasSlot(c) =>
         /\ ~(call[c].unit = u /\ call[c].slot = i)
         /\ call[b].fresh => call[c].unit # u
  BY <1>3 DEF SlotsAreExclusive, FreshIsApart, u, i
<1>12. SlotsAreExclusive'
  <2>1. \A c \in Boxes \ {b} : HasSlot(c) =>
          /\ call[c].unit \in allocated'
          /\ mem'[call[c].unit][UsageFlag(call[c].slot)] = 1
    BY <1>1, <1>4, <1>11, CallFacts DEF SlotsAreExclusive
  <2>2. ~HasSlot(b)'
    BY <1>2 DEF HasSlot
  <2> QED BY <1>2, <2>1, <2>2, SlotsKept
<1>13. FlagsAreOwned'
  <2> SUFFICES ASSUME NEW w \in Units, NEW j \in Slots
               PROVE  /\ mem'[w][UsageFlag(j)] \in {0, 1}
                      /\ mem'[w][UsageFlag(j)] = 1 =>
                           \E c \in Boxes \ {b} : HasSlot(c) /\ At(c, w, j)
    BY <1>2, FlagsKept
  <2>1. CASE w = u /\ j = i
    BY <1>4, <2>1
  <2>2. CASE ~(w = u /\ j = i)
    BY <1>4, <2>2 DEF FlagsAreOwned, At, u, i
  <2> QED BY <2>1, <2>2
<1> QED BY <1>5, <1>6, <1>7, <1>8, <1>9, <1>10, <1>12, <1>13

LEMMA DropValuesKeeps ==
  ASSUME AllocInv, NEW b \in Boxes, DropValues(b)
  PROVE  AllocInv'
<1> USE DEF AllocInv
<1> DEFINE u == call[b].unit
           i == call[b].slot
<1>1. call[b].pc = "own" /\ UNCHANGED <<allocated, groups, lock, upkeep, report>>
  BY DEF DropValues
<1>2. /\ call' \in [Boxes -> CallType]
      /\ call'[b].pc = "dealloc" /\ call'[b].fresh = call[b].fresh
      /\ call'[b].unit = u /\ call'[b].slot = i /\ call'[b].shard = call[b].shard
      /\ \A c \in Boxes \ {b} : call'[c] = call[c]
  BY CallTyped DEF DropValues, CallType
<1>3. i \in Slots /\ u \in Units /\ HasSlot(b) /\ ~call[b].fresh
  BY <1>1, CallFacts DEF HasSlot, FreshIsApart
<1>4. /\ mem' \in [Units -> [Words -> Int]]
      /\ \A w \in Units, j \in Slots : mem'[w][UsageFlag(j)] = mem[w][UsageFlag(j)]
  <2>1. mem \in [Units -> [Words -> Int]] /\ -1 \in Int /\ Shards \subseteq Shards
    BY DEF AllocTypeOK
  <2>2. mem' = Adjust(mem, u, i, Shards, -1) /\ u \in Units /\ i \in Slots
    BY <1>3 DEF DropValues
  <2> HIDE DEF u, i
  <2> QED BY <2>1, <2>2, AdjustFacts
<1> HIDE DEF u, i
<1>5. AllocTypeOK'
  BY <1>1, <1>2, <1>4 DEF AllocTypeOK, CallType
<1>6. LocksMatch'
  BY <1>1, <1>2, LockKept DEF HoldsLock
<1>7. ListedOnce' /\ GroupsAreValid' /\ CallsInPlace'
  BY <1>1, <1>2 DEF ListedOnce, GroupsAreValid, CallsInPlace
<1>8. ListedAreAllocated'
  BY <1>1, <1>2, <1>3 DEF ListedAreAllocated, Lists
<1>9. FreshIsApart'
  BY <1>1, <1>2, <1>3 DEF FreshIsApart, Lists, HasSlot, u
<1>10. MaintenanceInOrder'
  <2>1. \A k \in DOMAIN groups[Temp].units : groups[Temp].units[k] \in Units
    BY GroupNames, GroupFacts
  <2> QED BY <1>1, <1>4, <2>1, OrderKept
<1>11. SlotsAreExclusive'
  <2>1. \A c \in Boxes : HasSlot(c) =>
          /\ call[c].unit \in allocated'
          /\ mem'[call[c].unit][UsageFlag(call[c].slot)] = 1
    BY <1>1, <1>4, CallFacts DEF SlotsAreExclusive
  <2>2. \A c \in Boxes \ {b} : HasSlot(c) => ~(call[c].unit = u /\ call[c].slot = i)
    BY <1>3 DEF SlotsAreExclusive, u, i
  <2>3. u \in allocated' /\ mem'[u][UsageFlag(i)] = 1
    BY <1>3, <2>1 DEF u, i
  <2> QED BY <1>2, <2>1, <2>2, <2>3, SlotsKept
<1>12. FlagsAreOwned'
  <2> SUFFICES ASSUME NEW w \in Units, NEW j \in Slots
               PROVE  /\ mem'[w][UsageFlag(j)] \in {0, 1}
                      /\ mem'[w][UsageFlag(j)] = 1 =>
                           \/ HasSlot(b)' /\ call'[b].unit = w /\ call'[b].slot = j
                           \/ \E c \in Boxes \ {b} : HasSlot(c) /\ At(c, w, j)
    BY <1>2, FlagsKept
  <2>1. HasSlot(b)'
    BY <1>2 DEF HasSlot
  <2> QED BY <1>2, <1>4, <2>1 DEF FlagsAreOwned, At, u, i
<1> QED BY <1>5, <1>6, <1>7, <1>8, <1>9, <1>10, <1>11, <1>12

LEMMA DeallocateKeeps ==
  ASSUME AllocInv, NEW b \in Boxes, Deallocate(b)
  PROVE  AllocInv'
<1> USE DEF AllocInv
<1> DEFINE u == call[b].unit
           i == call[b].slot
<1>1. call[b].pc = "dealloc" /\ UNCHANGED <<allocated, groups, lock, upkeep, report>>
  BY DEF Deallocate
<1>2. /\ call' \in [Boxes -> CallType]
      /\ call'[b].pc = "none" /\ ~call'[b].fresh
      /\ \A c \in Boxes \ {b} : call'[c] = call[c]
  BY CallTyped, FirstSlot DEF Deallocate
<1>3. i \in Slots /\ u \in Units /\ HasSlot(b) /\ ~call[b].fresh
  BY <1>1, CallFacts DEF HasSlot, FreshIsApart
<1>4. /\ mem' \in [Units -> [Words -> Int]]
      /\ mem'[u][UsageFlag(i)] = 0
      /\ \A w \in Units, j \in Slots : ~(w = u /\ j = i) =>
           mem'[w][UsageFlag(j)] = mem[w][UsageFlag(j)]
  <2>1. mem \in [Units -> [Words -> Int]] /\ 0 \in Int
    BY DEF AllocTypeOK
  <2>2. mem' = SetFlag(mem, u, i, 0) /\ u \in Units /\ i \in Slots
    BY <1>3 DEF Deallocate
  <2> HIDE DEF u, i
  <2> QED BY <2>1, <2>2, SetFlagFacts
<1> HIDE DEF u, i
<1>5. AllocTypeOK'
  BY <1>1, <1>2, <1>4 DEF AllocTypeOK, CallType
<1>6. LocksMatch'
  BY <1>1, <1>2 DEF LocksMatch, HoldsLock
<1>7. ListedOnce' /\ GroupsAreValid' /\ CallsInPlace'
  BY <1>1, <1>2 DEF ListedOnce, GroupsAreValid, CallsInPlace
<1>8. ListedAreAllocated'
  BY <1>1, <1>2, <1>3 DEF ListedAreAllocated, Lists
<1>9. FreshIsApart'
  BY <1>1, <1>2, <1>3 DEF FreshIsApart, Lists, HasSlot
<1>10. MaintenanceInOrder'
  <2>1. \A k \in DOMAIN groups[Temp].units : groups[Temp].units[k] \in Units
    BY GroupNames, GroupFacts
  <2> QED BY <1>1, <1>4, <2>1, OrderKept
<1>11. SlotsAreExclusive'
  <2>1. \A c \in Boxes \ {b} : HasSlot(c) =>
          /\ call[c].unit \in allocated'
          /\ mem'[call[c].unit][UsageFlag(call[c].slot)] = 1
    <3>1. \A c \in Boxes \ {b} : HasSlot(c) => ~(call[c].unit = u /\ call[c].slot = i)
      BY <1>3 DEF SlotsAreExclusive, u, i
    <3> QED BY <1>1, <1>4, <3>1, CallFacts DEF SlotsAreExclusive
  <2>2. ~HasSlot(b)'
    BY <1>2 DEF HasSlot
  <2> QED BY <1>2, <2>1, <2>2, SlotsKept
<1>12. FlagsAreOwned'
  <2> SUFFICES ASSUME NEW w \in Units, NEW j \in Slots
               PROVE  /\ mem'[w][UsageFlag(j)] \in {0, 1}
                      /\ mem'[w][UsageFlag(j)] = 1 =>
                           \E c \in Boxes \ {b} : HasSlot(c) /\ At(c, w, j)
    BY <1>2, FlagsKept
  <2>1. CASE w = u /\ j = i
    BY <1>4, <2>1
  <2>2. CASE ~(w = u /\ j = i)
    BY <1>4, <2>2 DEF FlagsAreOwned, At, u, i
  <2> QED BY <2>1, <2>2
<1> QED BY <1>5, <1>6, <1>7, <1>8, <1>9, <1>10, <1>11, <1>12

\* Steps of the report and of maintenance that leave memory, groups and calls
\* alone disturb the locks and the order of maintenance only.
LEMMA QuietKeeps ==
  ASSUME AllocInv, UNCHANGED <<allocated, mem, groups, call>>,
         (upkeep.pc = "retain")' => upkeep.pc = "retain"
  PROVE  /\ ListedOnce' /\ ListedAreAllocated' /\ FreshIsApart' /\ CallsInPlace'
         /\ GroupsAreValid' \/ (upkeep.pc = "retain" /\ upkeep'.pc # "retain")
         /\ SlotsAreExclusive' /\ FlagsAreOwned'
<1> USE DEF AllocInv
<1>1. ListedOnce'
  BY DEF ListedOnce
<1>2. ListedAreAllocated'
  BY DEF ListedAreAllocated, Lists
<1>3. FreshIsApart'
  BY DEF FreshIsApart, Lists, HasSlot
<1>4. CallsInPlace'
  BY DEF CallsInPlace
<1>5. GroupsAreValid' \/ (upkeep.pc = "retain" /\ upkeep'.pc # "retain")
  BY DEF GroupsAreValid
<1>6. SlotsAreExclusive'
  BY DEF SlotsAreExclusive, HasSlot
<1>7. FlagsAreOwned'
  BY DEF FlagsAreOwned, HasSlot, At
<1> QED BY <1>1, <1>2, <1>3, <1>4, <1>5, <1>6, <1>7

UpkeepType == [pc : {"idle", "out", "retain", "index", "in"}, shard : Groups,
               unit : Nat, slot : Slots]

ReportType == [locks : 0 .. ShardCount + 1, counted : 0 .. ShardCount + 1,
               unit : Nat, slot : Slots, used : Nat, atMost : Nat]

LEMMA UpkeepTyped ==
  AllocTypeOK => upkeep \in UpkeepType /\ report \in ReportType
BY DEF AllocTypeOK, UpkeepType, ReportType

LEMMA BeginMaintenanceKeeps ==
  ASSUME AllocInv, BeginMaintenance
  PROVE  AllocInv'
<1> USE DEF AllocInv
<1>1. /\ upkeep.pc = "idle" /\ lock[Temp] = NULL
      /\ lock' = [lock EXCEPT ![Temp] = "collector"]
      /\ UNCHANGED <<allocated, mem, groups, call, report>>
  BY DEF BeginMaintenance
<1>2. /\ upkeep' \in UpkeepType /\ upkeep'.pc = "out" /\ upkeep'.shard = 0
      /\ upkeep'.unit = upkeep.unit /\ upkeep'.slot = upkeep.slot
  BY UpkeepTyped, FirstSlot, GroupNames DEF BeginMaintenance, UpkeepType
<1>3. AllocTypeOK'
  <2>1. lock' \in [Groups -> Boxes \cup {"collector", "report", NULL}]
    BY <1>1, LockTyped
  <2> QED BY <1>1, <1>2, <2>1 DEF AllocTypeOK, UpkeepType
<1>4. LocksMatch'
  <2>1. \A c \in Boxes, g \in Groups : (lock[g] = c <=> HoldsLock(c) /\ call[c].shard = g)'
    BY <1>1, Owners, LockTyped, GroupNames DEF LocksMatch, HoldsLock
  <2>2. \A g \in Groups : (lock[g] = "collector" <=> g = Temp /\ upkeep.pc # "idle")'
    BY <1>1, <1>2, LockTyped, GroupNames DEF LocksMatch
  <2>3. \A n \in 0 .. ShardCount : (lock[NthLock(n)] = "report" <=> n < report.locks)'
    BY <1>1, Owners, LockTyped, GroupNames DEF LocksMatch
  <2> QED BY <2>1, <2>2, <2>3 DEF LocksMatch
<1>5. MaintenanceInOrder'
  BY <1>1, <1>2, FirstSlot DEF MaintenanceInOrder
<1> QED BY <1>1, <1>2, <1>3, <1>4, <1>5, QuietKeeps

LEMMA ReportLockKeeps ==
  ASSUME AllocInv, ReportLock
  PROVE  AllocInv'
<1> USE DEF AllocInv
<1> DEFINE n == report.locks
<1>1. /\ n <= ShardCount /\ lock[NthLock(n)] = NULL
      /\ lock' = [lock EXCEPT ![NthLock(n)] = "report"]
      /\ UNCHANGED <<allocated, mem, groups, call, upkeep>>
  BY DEF ReportLock
<1>2. n \in 0 .. ShardCount /\ NthLock(n) \in Groups
  BY <1>1, UpkeepTyped, GroupNames, AllocAssumption DEF ReportType
<1>3. report' \in ReportType /\ report'.locks = n + 1
  <2>1. Cardinality({b \in Boxes : HasSlot(b)}) \in Nat
    <3>1. IsFiniteSet({b \in Boxes : HasSlot(b)})
      BY AllocAssumption, FS_Subset
    <3> QED BY <3>1, FS_CardinalityType
  <2>2. n + 1 \in 0 .. ShardCount + 1
    BY <1>2, AllocAssumption
  <2> QED BY <2>1, <2>2, UpkeepTyped DEF ReportLock, ReportType
<1> HIDE DEF n
<1>4. AllocTypeOK'
  <2>1. lock' \in [Groups -> Boxes \cup {"collector", "report", NULL}]
    BY <1>1, LockTyped
  <2> QED BY <1>1, <1>3, <2>1 DEF AllocTypeOK, ReportType
<1>5. LocksMatch'
  <2>1. \A c \in Boxes, g \in Groups : (lock[g] = c <=> HoldsLock(c) /\ call[c].shard = g)'
    BY <1>1, <1>2, Owners, LockTyped DEF LocksMatch, HoldsLock
  <2>2. \A g \in Groups : (lock[g] = "collector" <=> g = Temp /\ upkeep.pc # "idle")'
    BY <1>1, <1>2, Owners, LockTyped DEF LocksMatch
  <2>3. ASSUME NEW k \in 0 .. ShardCount
        PROVE  (lock[NthLock(k)] = "report" <=> k < report.locks)'
    <3>1. NthLock(k) \in Groups /\ (NthLock(k) = NthLock(n) => k = n)
      BY <1>2, GroupNames
    <3>2. lock[NthLock(k)] = "report" <=> k < n
      BY DEF LocksMatch, n
    <3>3. k \in Nat /\ n \in Nat
      BY <1>2, AllocAssumption
    <3>4. CASE k = n
      BY <1>1, <1>2, <1>3, <3>3, <3>4, LockTyped
    <3>5. CASE k # n
      <4>1. lock'[NthLock(k)] = lock[NthLock(k)]
        BY <1>1, <1>2, <3>1, <3>5, LockTyped
      <4>2. k < n + 1 <=> k < n
        BY <3>3, <3>5
      <4> QED BY <1>3, <3>2, <4>1, <4>2
    <3> QED BY <3>4, <3>5
  <2> QED BY <2>1, <2>2, <2>3 DEF LocksMatch
<1>6. MaintenanceInOrder' /\ GroupsAreValid'
  BY <1>1 DEF MaintenanceInOrder, GroupsAreValid
<1> QED BY <1>1, <1>4, <1>5, <1>6, QuietKeeps

LEMMA ReportReads ==
  ASSUME AllocInv, ReportFlag \/ ReportGroup
  PROVE  AllocInv'
<1> USE DEF AllocInv
<1>1. UNCHANGED <<allocated, mem, groups, lock, call, upkeep>>
  BY DEF ReportFlag, ReportGroup
<1>2. report' \in ReportType /\ report'.locks = report.locks
  <2>1. report \in ReportType /\ ShardCount \in Nat
    BY UpkeepTyped, AllocAssumption
  <2>2. CASE ReportFlag
    <3> DEFINE last == IsLastSlot(report.slot)
               i == IF last THEN 0 ELSE report.slot + 1
               k == IF last THEN report.unit + 1 ELSE report.unit
    <3>1. PICK n \in {report.used, report.used + 1} :
            report' = [report EXCEPT !.used = n, !.unit = k, !.slot = i]
      BY <2>2 DEF ReportFlag
    <3>2. i \in Slots /\ k \in Nat /\ n \in Nat
      BY <2>1, AllocAssumption DEF ReportType, IsLastSlot, Slots
    <3> HIDE DEF i, k
    <3> QED BY <2>1, <3>1, <3>2 DEF ReportType
  <2>3. CASE ReportGroup
    <3>1. report.counted + 1 \in 0 .. ShardCount + 1
      BY <2>1, <2>3 DEF ReportGroup, ReportType
    <3> QED BY <2>1, <2>3, <3>1 DEF ReportGroup, ReportType
  <2> QED BY <2>2, <2>3
<1>3. AllocTypeOK'
  BY <1>1, <1>2 DEF AllocTypeOK, ReportType
<1>4. LocksMatch'
  BY <1>1, <1>2 DEF LocksMatch, HoldsLock
<1>5. MaintenanceInOrder' /\ GroupsAreValid'
  BY <1>1 DEF MaintenanceInOrder, GroupsAreValid
<1> QED BY <1>1, <1>3, <1>4, <1>5, QuietKeeps

LEMMA ReportDoneKeeps ==
  ASSUME AllocInv, ReportDone
  PROVE  AllocInv'
<1> USE DEF AllocInv
<1>1. /\ UNCHANGED <<allocated, mem, groups, call, upkeep>>
      /\ lock' = [g \in Groups |-> IF lock[g] = "report" THEN NULL ELSE lock[g]]
  BY DEF ReportDone
<1>2. report' \in ReportType /\ report'.locks = 0
  BY AllocAssumption, FirstSlot DEF ReportDone, NoReport, ReportType
<1>3. AllocTypeOK'
  <2>1. lock' \in [Groups -> Boxes \cup {"collector", "report", NULL}]
    BY <1>1, LockTyped
  <2> QED BY <1>1, <1>2, <2>1 DEF AllocTypeOK, ReportType
<1>4. LocksMatch'
  <2>1. \A c \in Boxes, g \in Groups : (lock[g] = c <=> HoldsLock(c) /\ call[c].shard = g)'
    BY <1>1, Owners DEF LocksMatch, HoldsLock
  <2>2. \A g \in Groups : (lock[g] = "collector" <=> g = Temp /\ upkeep.pc # "idle")'
    BY <1>1, Owners DEF LocksMatch
  <2>3. \A k \in 0 .. ShardCount : lock'[NthLock(k)] # "report" /\ ~(k < 0)
    BY <1>1, GroupNames, Owners, AllocAssumption
  <2> QED BY <1>2, <2>1, <2>2, <2>3 DEF LocksMatch
<1>5. MaintenanceInOrder' /\ GroupsAreValid'
  BY <1>1 DEF MaintenanceInOrder, GroupsAreValid
<1> QED BY <1>1, <1>3, <1>4, <1>5, QuietKeeps

LEMMA EndIndexKeeps ==
  ASSUME AllocInv, EndIndex
  PROVE  AllocInv'
<1> USE DEF AllocInv
<1>1. /\ upkeep.pc = "index" /\ upkeep.shard < ShardCount
      /\ upkeep.unit > Len(groups[Temp].units)
      /\ UNCHANGED <<allocated, mem, groups, lock, call, report>>
  BY DEF EndIndex
<1>2. /\ upkeep' \in UpkeepType /\ upkeep'.pc = "in" /\ upkeep'.shard = upkeep.shard
      /\ upkeep'.unit = 1 /\ upkeep'.slot = upkeep.slot
  BY UpkeepTyped DEF EndIndex, UpkeepType
<1>3. AllocTypeOK'
  BY <1>1, <1>2 DEF AllocTypeOK, UpkeepType
<1>4. LocksMatch'
  BY <1>1, <1>2 DEF LocksMatch, HoldsLock
<1>5. MaintenanceInOrder'
  <2>1. upkeep.shard \in Shards
    BY <1>1, UpkeepTyped, AllocAssumption DEF UpkeepType, Groups, Shards
  <2>2. upkeep.slot = 0
    BY <1>1 DEF MaintenanceInOrder
  <2> QED BY <1>1, <1>2, <2>1, <2>2 DEF MaintenanceInOrder
<1>6. GroupsAreValid'
  BY <1>1, <1>2 DEF GroupsAreValid
<1> QED BY <1>1, <1>2, <1>3, <1>4, <1>5, <1>6, QuietKeeps

LEMMA EndMaintenanceKeeps ==
  ASSUME AllocInv, EndMaintenance
  PROVE  AllocInv'
<1> USE DEF AllocInv
<1>1. /\ upkeep.pc = "index"
      /\ lock' = [lock EXCEPT ![Temp] = NULL]
      /\ UNCHANGED <<allocated, mem, groups, call, report>>
  BY DEF EndMaintenance
<1>2. upkeep' \in UpkeepType /\ upkeep'.pc = "idle" /\ upkeep'.unit = 1
  BY UpkeepTyped, FirstSlot, GroupNames DEF EndMaintenance, UpkeepType
<1>3. AllocTypeOK'
  <2>1. lock' \in [Groups -> Boxes \cup {"collector", "report", NULL}]
    BY <1>1, LockTyped
  <2> QED BY <1>1, <1>2, <2>1 DEF AllocTypeOK, UpkeepType
<1>4. LocksMatch'
  <2>0. lock[Temp] = "collector" /\ Temp \in Groups
    BY <1>1, GroupNames DEF LocksMatch
  <2>1. \A c \in Boxes, g \in Groups : (lock[g] = c <=> HoldsLock(c) /\ call[c].shard = g)'
    BY <1>1, <2>0, Owners, LockTyped, GroupNames DEF LocksMatch, HoldsLock
  <2>2. \A g \in Groups : (lock[g] = "collector" <=> g = Temp /\ upkeep.pc # "idle")'
    BY <1>1, <1>2, Owners, LockTyped, GroupNames DEF LocksMatch
  <2>3. \A n \in 0 .. ShardCount : (lock[NthLock(n)] = "report" <=> n < report.locks)'
    BY <1>1, <2>0, Owners, LockTyped, GroupNames DEF LocksMatch
  <2> QED BY <2>1, <2>2, <2>3 DEF LocksMatch
<1>5. MaintenanceInOrder' /\ GroupsAreValid'
  BY <1>1, <1>2 DEF MaintenanceInOrder, GroupsAreValid
<1> QED BY <1>1, <1>2, <1>3, <1>4, <1>5, QuietKeeps

\* The group of shard s changes places with the temporary one.
LEMMA ExchangeFacts ==
  ASSUME AllocInv, NEW s \in Shards, lock[s] = NULL, upkeep.pc # "retain", Exchange(s),
         UNCHANGED <<allocated, mem, call>>
  PROVE  /\ groups' \in [Groups -> GroupType]
         /\ \A g \in Groups : Valid(groups'[g])
         /\ ListedOnce' /\ ListedAreAllocated' /\ FreshIsApart' /\ CallsInPlace'
         /\ SlotsAreExclusive' /\ FlagsAreOwned'
<1> USE DEF AllocInv
<1> DEFINE other(g) == IF g = s THEN Temp ELSE IF g = Temp THEN s ELSE g
<1>1. s \in Groups /\ Temp \in Groups /\ s # Temp
  BY GroupNames
<1>2. groups \in [Groups -> GroupType] /\ \A g \in Groups : Valid(groups[g])
  BY DEF AllocTypeOK, GroupType, GroupsAreValid
<1>3. /\ groups' \in [Groups -> GroupType]
      /\ \A g \in Groups : groups'[g] = groups[other(g)]
  BY <1>1, <1>2 DEF Exchange
<1>4. /\ \A g \in Groups : other(g) \in Groups /\ other(other(g)) = g
      /\ \A g, h \in Groups : other(g) = other(h) => g = h
  BY <1>1
<1>5. \A g \in Groups \ {s, Temp} : other(g) = g
  OBVIOUS
<1> HIDE DEF other
<1>6. \A g \in Groups : Valid(groups'[g])
  BY <1>2, <1>3, <1>4
<1>7. \A g \in Groups : \A u : Lists(g, u)' <=> Lists(other(g), u)
  BY <1>3 DEF Lists
<1>8. ListedOnce'
  BY <1>3, <1>4 DEF ListedOnce
<1>9. ListedAreAllocated'
  <2>1. \A g \in Groups : \A k \in DOMAIN groups'[g].units : groups'[g].units[k] \in allocated'
    BY <1>3, <1>4 DEF ListedAreAllocated
  <2>2. ASSUME NEW u \in allocated, \E g \in Groups : Lists(g, u)
        PROVE  \E g \in Groups : \E k \in DOMAIN groups'[g].units : groups'[g].units[k] = u
    <3>1. PICK g \in Groups : Lists(g, u)
      BY <2>2
    <3>2. PICK k \in DOMAIN groups[g].units : groups[g].units[k] = u
      BY <3>1 DEF Lists
    <3>3. other(g) \in Groups /\ groups'[other(g)] = groups[g]
      BY <1>3, <1>4
    <3> QED BY <3>2, <3>3
  <2> QED BY <2>1, <2>2 DEF ListedAreAllocated, Lists
<1>10. FreshIsApart'
  <2>1. ASSUME NEW b \in Boxes, call[b].fresh, NEW g \in Groups,
               NEW k \in DOMAIN groups'[g].units
        PROVE  groups'[g].units[k] # call[b].unit
    <3>1. ~Lists(other(g), call[b].unit)
      BY <1>4, <2>1 DEF FreshIsApart
    <3> QED BY <1>3, <3>1 DEF Lists
  <2> QED BY <2>1 DEF FreshIsApart, HasSlot, Lists
<1>11. CallsInPlace'
  <2>1. \A b \in Boxes : call[b].pc \in {"claim", "init"} => groups'[call[b].shard] = groups[call[b].shard]
    <3> SUFFICES ASSUME NEW b \in Boxes, call[b].pc \in {"claim", "init"}
                 PROVE  groups'[call[b].shard] = groups[call[b].shard]
      OBVIOUS
    <3>1. call[b].shard \in Groups /\ call[b].shard # Temp /\ HoldsLock(b)
      BY CallFacts, GroupNames DEF HoldsLock
    <3>2. call[b].shard # s
      BY <3>1, Owners DEF LocksMatch
    <3> QED BY <1>3, <1>5, <3>1, <3>2
  <2> QED BY <2>1 DEF CallsInPlace
<1>12. SlotsAreExclusive'
  BY DEF SlotsAreExclusive, HasSlot
<1>13. FlagsAreOwned'
  BY DEF FlagsAreOwned, HasSlot, At
<1> QED BY <1>3, <1>6, <1>8, <1>9, <1>10, <1>11, <1>12, <1>13

LEMMA SwapOutKeeps ==
  ASSUME AllocInv, SwapOut
  PROVE  AllocInv'
<1> USE DEF AllocInv
<1>1. PICK s \in Shards : s = upkeep.shard
  BY DEF SwapOut, MaintenanceInOrder
<1>2. /\ upkeep.pc = "out" /\ lock[s] = NULL /\ Exchange(s)
      /\ UNCHANGED <<allocated, mem, lock, call, report>>
  BY <1>1 DEF SwapOut, Exchange
<1>3. /\ upkeep' \in UpkeepType /\ upkeep'.pc = "retain" /\ upkeep'.unit = 1 /\ upkeep'.slot = 0
  BY UpkeepTyped, FirstSlot DEF SwapOut, UpkeepType
<1>4. /\ groups' \in [Groups -> GroupType]
      /\ \A g \in Groups : Valid(groups'[g])
      /\ ListedOnce' /\ ListedAreAllocated' /\ FreshIsApart' /\ CallsInPlace'
      /\ SlotsAreExclusive' /\ FlagsAreOwned'
  BY <1>2, ExchangeFacts
<1>5. AllocTypeOK'
  BY <1>2, <1>3, <1>4 DEF AllocTypeOK, UpkeepType, GroupType
<1>6. LocksMatch'
  BY <1>2, <1>3 DEF LocksMatch, HoldsLock
<1>7. GroupsAreValid'
  BY <1>4 DEF GroupsAreValid
<1>8. MaintenanceInOrder'
  BY <1>3 DEF MaintenanceInOrder, Slots
<1> QED BY <1>4, <1>5, <1>6, <1>7, <1>8

LEMMA SwapInKeeps ==
  ASSUME AllocInv, SwapIn
  PROVE  AllocInv'
<1> USE DEF AllocInv
<1>1. PICK s \in Shards : s = upkeep.shard
  BY DEF SwapIn, MaintenanceInOrder
<1>2. /\ upkeep.pc = "in" /\ lock[s] = NULL /\ Exchange(s)
      /\ UNCHANGED <<allocated, mem, lock, call, report>>
      /\ upkeep.unit = 1 /\ upkeep.slot = 0
  BY <1>1 DEF SwapIn, Exchange, MaintenanceInOrder
<1>3. /\ upkeep' \in UpkeepType /\ upkeep'.pc = AfterShard(s) /\ upkeep'.shard = s + 1
      /\ upkeep'.unit = 1 /\ upkeep'.slot = 0
      /\ AfterShard(s) \in {"retain", "out"} /\ (AfterShard(s) = "out" => s + 1 \in Shards)
  <2>1. s + 1 \in Groups /\ (s # ShardCount - 1 => s + 1 \in Shards)
    BY AllocAssumption DEF Groups, Shards
  <2>2. AfterShard(s) \in {"retain", "out"} /\ (AfterShard(s) = "out" => s + 1 \in Shards)
    BY <2>1 DEF AfterShard
  <2> QED BY <1>1, <1>2, <2>1, <2>2, UpkeepTyped DEF SwapIn, UpkeepType
<1>4. /\ groups' \in [Groups -> GroupType]
      /\ \A g \in Groups : Valid(groups'[g])
      /\ ListedOnce' /\ ListedAreAllocated' /\ FreshIsApart' /\ CallsInPlace'
      /\ SlotsAreExclusive' /\ FlagsAreOwned'
  BY <1>2, ExchangeFacts
<1>5. AllocTypeOK'
  BY <1>2, <1>3, <1>4 DEF AllocTypeOK, UpkeepType, GroupType
<1>6. LocksMatch'
  BY <1>2, <1>3 DEF LocksMatch, HoldsLock
<1>7. GroupsAreValid'
  BY <1>4 DEF GroupsAreValid
<1>8. MaintenanceInOrder'
  BY <1>3 DEF MaintenanceInOrder, Slots
<1> QED BY <1>4, <1>5, <1>6, <1>7, <1>8

LEMMA EndRetainKeeps ==
  ASSUME AllocInv, EndRetain
  PROVE  AllocInv'
<1> USE DEF AllocInv
<1>1. /\ upkeep.pc = "retain" /\ upkeep.unit > Len(groups[Temp].units)
      /\ UNCHANGED <<allocated, mem, lock, call, report>>
  BY DEF EndRetain
<1>2. /\ upkeep' \in UpkeepType /\ upkeep'.pc = "index" /\ upkeep'.unit = 1
      /\ upkeep'.slot = upkeep.slot /\ upkeep'.shard = upkeep.shard
  BY UpkeepTyped DEF EndRetain, UpkeepType
<1>3. /\ groups' \in [Groups -> GroupType]
      /\ groups'[Temp].units = groups[Temp].units /\ groups'[Temp].toCheck = <<>>
      /\ \A g \in Groups \ {Temp} : groups'[g] = groups[g]
  <2>1. groups \in [Groups -> GroupType] /\ Temp \in Groups
    BY GroupNames DEF AllocTypeOK, GroupType
  <2>2. groups' = [groups EXCEPT ![Temp] = [groups[Temp] EXCEPT !.toCheck = <<>>]]
    BY DEF EndRetain, ClearIndexes
  <2>3. PICK e \in Seq(Nat) : e = <<>>
    <3>1. <<>> \in Seq(Nat)
      OBVIOUS
    <3> QED BY <3>1, Zenon
  <2>4. groups' = [groups EXCEPT ![Temp] = [groups[Temp] EXCEPT !.toCheck = e]]
    BY <2>2, <2>3, Zenon
  <2>5. /\ groups' \in [Groups -> GroupType]
        /\ groups'[Temp].units = groups[Temp].units /\ groups'[Temp].toCheck = e
        /\ \A g \in Groups \ {Temp} : groups'[g] = groups[g]
    BY <2>1, <2>4 DEF GroupType
  <2> QED BY <2>3, <2>5, Zenon
<1>4. AllocTypeOK'
  BY <1>1, <1>2, <1>3 DEF AllocTypeOK, UpkeepType, GroupType
<1>5. LocksMatch'
  BY <1>1, <1>2 DEF LocksMatch, HoldsLock
<1>6. \A g \in Groups : groups'[g].units = groups[g].units
  BY <1>3
<1>7. ListedOnce' /\ ListedAreAllocated' /\ FreshIsApart'
  BY <1>1, <1>6 DEF ListedOnce, ListedAreAllocated, FreshIsApart, Lists, HasSlot
<1>8. CallsInPlace'
  <2>1. \A c \in Boxes : groups'[call[c].shard] = groups[call[c].shard]
    BY <1>3, CallFacts, GroupNames
  <2> QED BY <1>1, <2>1 DEF CallsInPlace
<1>9. DOMAIN groups'[Temp].toCheck = {}
  BY <1>3
<1>10. GroupsAreValid'
  BY <1>1, <1>2, <1>3, <1>9 DEF GroupsAreValid, Valid
<1>11. MaintenanceInOrder'
  BY <1>1, <1>2, <1>9 DEF MaintenanceInOrder
<1>12. SlotsAreExclusive' /\ FlagsAreOwned'
  BY <1>1 DEF SlotsAreExclusive, FlagsAreOwned, HasSlot, At
<1> QED BY <1>4, <1>5, <1>7, <1>8, <1>10, <1>11, <1>12

LEMMA IndexUnitKeeps ==
  ASSUME AllocInv, IndexUnit
  PROVE  AllocInv'
<1> USE DEF AllocInv
<1> DEFINE k == upkeep.unit
           q == groups[Temp].toCheck
           free == mem[groups[Temp].units[k]][UsageFlag(upkeep.slot)] = 0
<1>1. /\ upkeep.pc = "index" /\ k <= Len(groups[Temp].units)
      /\ UNCHANGED <<allocated, mem, lock, call, report>>
  BY DEF IndexUnit
<1>2. /\ k \in DOMAIN groups[Temp].units /\ k \in Nat /\ Temp \in Groups
      /\ q \in Seq(Nat) /\ Valid(groups[Temp]) /\ \A l \in DOMAIN q : q[l] < k /\ q[l] \in Nat
      /\ groups \in [Groups -> GroupType]
  <2>1. k \in Nat /\ k >= 1 /\ Temp \in Groups
    BY UpkeepTyped, GroupNames DEF UpkeepType, MaintenanceInOrder
  <2>2. k \in DOMAIN groups[Temp].units /\ q \in Seq(Nat) /\ \A l \in DOMAIN q : q[l] \in Nat
    BY <1>1, <2>1, GroupFacts
  <2>3. Valid(groups[Temp]) /\ \A l \in DOMAIN q : q[l] < k
    BY <1>1, <2>1 DEF GroupsAreValid, MaintenanceInOrder
  <2>4. groups \in [Groups -> GroupType]
    BY DEF AllocTypeOK, GroupType
  <2> QED BY <2>1, <2>2, <2>3, <2>4
<1>3. /\ upkeep' \in UpkeepType /\ upkeep'.pc = "index" /\ upkeep'.shard = upkeep.shard
      /\ \/ upkeep'.unit = k + 1 /\ upkeep'.slot = 0
         \/ upkeep'.unit = k /\ ~free
  <2>1. CASE free \/ upkeep.slot = SlotCount - 1
    <3>1. upkeep' = [upkeep EXCEPT !.unit = k + 1, !.slot = 0]
      BY <2>1 DEF IndexUnit
    <3>2. k + 1 \in Nat
      BY <1>2
    <3> QED BY <1>1, <3>1, <3>2, UpkeepTyped, FirstSlot DEF UpkeepType
  <2>2. CASE ~(free \/ upkeep.slot = SlotCount - 1)
    <3>1. upkeep' = [upkeep EXCEPT !.slot = upkeep.slot + 1]
      BY <2>2 DEF IndexUnit
    <3>2. upkeep.slot + 1 \in Slots
      BY <2>2, UpkeepTyped, AllocAssumption DEF UpkeepType, Slots
    <3> QED BY <1>1, <2>2, <3>1, <3>2, UpkeepTyped DEF UpkeepType
  <2> QED BY <2>1, <2>2
<1>4. PICK r \in Seq(Nat) :
        /\ groups' = [groups EXCEPT ![Temp] = [groups[Temp] EXCEPT !.toCheck = r]]
        /\ \A l \in DOMAIN r : r[l] \in DOMAIN groups[Temp].units /\ \A m \in DOMAIN r \ {l} : r[m] # r[l]
        /\ \A l \in DOMAIN r : r[l] < k \/ (r[l] = k /\ free)
  <2>1. CASE free
    <3>1. PICK r \in Seq(Nat) : Extends(r, q, k)
      <4> HIDE DEF q, k
      <4>1. q \in Seq(Nat) /\ k \in Nat
        BY <1>2
      <4> QED BY <4>1, AppendFacts, Zenon
    <3>2. groups' = [groups EXCEPT ![Temp] = [groups[Temp] EXCEPT !.toCheck = r]]
      BY <2>1, <3>1, Zenon DEF IndexUnit, Extends
    <3>3. Len(r) = Len(q) + 1 /\ (\A i \in 1 .. Len(q) : r[i] = q[i]) /\ r[Len(q) + 1] = k
      BY <3>1, Zenon DEF Extends
    <3>4. /\ DOMAIN q = 1 .. Len(q) /\ Len(q) \in Nat
          /\ DOMAIN r = 1 .. Len(q) + 1
      <4>1. q \in Seq(Nat)
        BY <1>2
      <4> HIDE DEF q
      <4> QED BY <3>3, <4>1, SeqFacts
    <3>5. /\ \A l \in DOMAIN q : /\ q[l] \in DOMAIN groups[Temp].units
                                 /\ \A m \in DOMAIN q \ {l} : q[m] # q[l]
                                 /\ q[l] < k /\ q[l] \in Nat
          /\ k \in Nat
      BY <1>2 DEF Valid
    <3>6. \A l \in DOMAIN r : r[l] = k \/ (l \in DOMAIN q /\ r[l] = q[l])
      <4> HIDE DEF q, k
      <4> QED BY <3>3, <3>4
    <3>7. \A l, m \in DOMAIN r : l \notin DOMAIN q /\ m \notin DOMAIN q => l = m
      <4> HIDE DEF q, k
      <4> QED BY <3>4
    <3>8. \A l \in DOMAIN r : l \notin DOMAIN q => r[l] = k
      BY <3>6
    <3> HIDE DEF q, k, free
    <3>9. \A l \in DOMAIN r : r[l] \in DOMAIN groups[Temp].units /\ (r[l] < k \/ r[l] = k)
      BY <1>2, <3>5, <3>6
    <3>10. ASSUME NEW l \in DOMAIN r, NEW m \in DOMAIN r \ {l}
           PROVE  r[m] # r[l]
      <4>1. \A j \in DOMAIN q : r[j] = q[j]
        BY <3>3, <3>4
      <4>2. CASE l \in DOMAIN q /\ m \in DOMAIN q
        BY <3>5, <4>1, <4>2
      <4>3. CASE l \in DOMAIN q /\ m \notin DOMAIN q
        BY <3>5, <3>8, <4>1, <4>3
      <4>4. CASE l \notin DOMAIN q /\ m \in DOMAIN q
        BY <3>5, <3>8, <4>1, <4>4
      <4>5. CASE l \notin DOMAIN q /\ m \notin DOMAIN q
        BY <3>7, <4>5
      <4> QED BY <4>2, <4>3, <4>4, <4>5
    <3> QED BY <2>1, <3>2, <3>9, <3>10, Zenon
  <2>2. CASE ~free
    <3>1. groups' = groups
      BY <2>2 DEF IndexUnit
    <3>2. groups = [groups EXCEPT ![Temp] = [groups[Temp] EXCEPT !.toCheck = q]]
      BY <1>2 DEF GroupType
    <3>3. \A l \in DOMAIN q : q[l] \in DOMAIN groups[Temp].units /\ \A m \in DOMAIN q \ {l} : q[m] # q[l]
      BY <1>2 DEF Valid
    <3> QED BY <1>2, <3>1, <3>2, <3>3, Zenon
  <2> QED BY <2>1, <2>2
<1> HIDE DEF k, q, free
<1>5. /\ groups' \in [Groups -> GroupType]
      /\ groups'[Temp].units = groups[Temp].units /\ groups'[Temp].toCheck = r
      /\ \A g \in Groups \ {Temp} : groups'[g] = groups[g]
  BY <1>2, <1>4 DEF GroupType
<1>6. AllocTypeOK'
  BY <1>1, <1>3, <1>5 DEF AllocTypeOK, UpkeepType, GroupType
<1>7. LocksMatch'
  BY <1>1, <1>3 DEF LocksMatch, HoldsLock
<1>8. \A g \in Groups : groups'[g].units = groups[g].units
  BY <1>5
<1>9. ListedOnce' /\ ListedAreAllocated' /\ FreshIsApart'
  BY <1>1, <1>8 DEF ListedOnce, ListedAreAllocated, FreshIsApart, Lists, HasSlot
<1>10. CallsInPlace'
  <2>1. \A c \in Boxes : groups'[call[c].shard] = groups[call[c].shard]
    BY <1>5, CallFacts, GroupNames
  <2> QED BY <1>1, <2>1 DEF CallsInPlace
<1>11. GroupsAreValid'
  BY <1>1, <1>4, <1>5 DEF GroupsAreValid, Valid
<1>12. MaintenanceInOrder'
  <2>1. \A l \in DOMAIN groups'[Temp].toCheck : groups'[Temp].toCheck[l] < upkeep'.unit
    <3>1. \A l \in DOMAIN r : r[l] \in Nat
      BY SeqFacts
    <3> QED BY <1>2, <1>3, <1>4, <1>5, <3>1
  <2>2. upkeep'.unit >= 1
    BY <1>2, <1>3 DEF MaintenanceInOrder, k
  <2>3. upkeep'.unit > Len(groups'[Temp].units) => upkeep'.slot = 0
    <3>1. Len(groups[Temp].units) \in Nat
      BY <1>2, GroupFacts
    <3> QED BY <1>1, <1>2, <1>3, <1>5, <3>1
  <2> QED BY <1>3, <2>1, <2>2, <2>3 DEF MaintenanceInOrder
<1>13. SlotsAreExclusive' /\ FlagsAreOwned'
  BY <1>1 DEF SlotsAreExclusive, FlagsAreOwned, HasSlot, At
<1> QED BY <1>6, <1>7, <1>9, <1>10, <1>11, <1>12, <1>13

\* A unit that is dropped has no used slot.
LEMMA DroppedIsEmpty ==
  ASSUME AllocInv, upkeep.pc = "retain", upkeep.unit <= Len(groups[Temp].units),
         mem[groups[Temp].units[upkeep.unit]][UsageFlag(upkeep.slot)] # 1,
         IsLastSlot(upkeep.slot)
  PROVE  \A i \in Slots : mem[groups[Temp].units[upkeep.unit]][UsageFlag(i)] = 0
<1> USE DEF AllocInv
<1>1. /\ upkeep.slot \in Slots /\ upkeep.unit \in DOMAIN groups[Temp].units
      /\ groups[Temp].units[upkeep.unit] \in Units
  BY UpkeepTyped, GroupNames, GroupFacts DEF UpkeepType, MaintenanceInOrder
<1>2. \A i \in Slots : i < upkeep.slot \/ i = upkeep.slot
  BY <1>1, AllocAssumption DEF IsLastSlot, Slots
<1> QED BY <1>1, <1>2 DEF MaintenanceInOrder, FlagsAreOwned

LEMMA RetainKeeps ==
  ASSUME AllocInv, Retain
  PROVE  AllocInv'
<1> USE DEF AllocInv
<1> DEFINE q == groups[Temp].units
           k == upkeep.unit
           u == q[k]
           used == mem[u][UsageFlag(upkeep.slot)] = 1
<1>1. /\ upkeep.pc = "retain" /\ k <= Len(q)
      /\ UNCHANGED <<mem, lock, call, report>>
  BY DEF Retain
<1>2. /\ k \in DOMAIN q /\ k \in 1 .. Len(q) /\ k \in Nat /\ Temp \in Groups /\ u \in Units
      /\ q \in Seq(Units) /\ DOMAIN q = 1 .. Len(q) /\ Len(q) \in Nat
      /\ groups \in [Groups -> GroupType] /\ upkeep.slot \in Slots
  <2>1. k \in Nat /\ k >= 1 /\ Temp \in Groups /\ upkeep.slot \in Slots
    BY UpkeepTyped, GroupNames DEF UpkeepType, MaintenanceInOrder
  <2>2. groups \in [Groups -> GroupType]
    BY DEF AllocTypeOK, GroupType
  <2> QED BY <1>1, <2>1, <2>2, GroupFacts
<1>3. CASE ~used /\ IsLastSlot(upkeep.slot)
  <2>1. /\ allocated' = allocated \ {u}
        /\ groups' = [groups EXCEPT ![Temp] = [groups[Temp] EXCEPT !.units = RemoveAt(q, k)]]
        /\ upkeep' = [upkeep EXCEPT !.slot = 0]
    BY <1>3 DEF Retain
  <2>2. /\ upkeep' \in UpkeepType /\ upkeep'.pc = "retain" /\ upkeep'.unit = k
        /\ upkeep'.slot = 0 /\ upkeep'.shard = upkeep.shard
    BY <1>1, <2>1, UpkeepTyped, FirstSlot DEF UpkeepType
  <2>3. \A i \in Slots : mem[u][UsageFlag(i)] = 0
    BY <1>1, <1>3, DroppedIsEmpty
  <2> HIDE DEF q, k, u
  <2>4. PICK c \in Seq(Units) :
           /\ c = RemoveAt(q, k)
           /\ Len(c) = Len(q) - 1
           /\ \A i \in 1 .. Len(q) - 1 : c[i] = IF i < k THEN q[i] ELSE q[i + 1]
    <3>1. q \in Seq(Units) /\ k \in 1 .. Len(q)
      BY <1>2
    <3> QED BY <3>1, RemoveAtFacts
  <2>5. Len(c) = Len(q) - 1 /\ \A i \in 1 .. Len(q) - 1 : c[i] = IF i < k THEN q[i] ELSE q[i + 1]
    BY <2>4, Zenon
  <2>6. DOMAIN c = 1 .. Len(q) - 1
    BY <2>5, SeqFacts
  <2> DEFINE from(i) == IF i < k THEN i ELSE i + 1
  <2>7. /\ \A i \in DOMAIN c : from(i) \in DOMAIN q /\ from(i) # k /\ c[i] = q[from(i)]
        /\ \A i, j \in DOMAIN c : from(i) = from(j) => i = j
        /\ \A l \in DOMAIN q \ {k} : \E i \in DOMAIN c : from(i) = l
    <3>1. \A i \in DOMAIN c : from(i) \in DOMAIN q /\ from(i) # k
      BY <1>2, <2>6
    <3>2. ASSUME NEW i \in DOMAIN c
          PROVE  c[i] = q[from(i)]
      BY <1>2, <2>5, <2>6
    <3>3. \A i, j \in DOMAIN c : from(i) = from(j) => i = j
      BY <1>2, <2>6
    <3>4. ASSUME NEW l \in DOMAIN q \ {k}
          PROVE  \E i \in DOMAIN c : from(i) = l
      <4>1. CASE l < k
        BY <1>2, <2>6, <4>1
      <4>2. CASE ~(l < k)
        <5>1. l - 1 \in DOMAIN c /\ ~(l - 1 < k) /\ l - 1 + 1 = l
          BY <1>2, <2>6, <4>2
        <5>2. from(l - 1) = l - 1 + 1
          BY <5>1
        <5> QED BY <5>1, <5>2
      <4> QED BY <4>1, <4>2
    <3> QED BY <3>1, <3>2, <3>3, <3>4
  <2> HIDE DEF from
  <2>8. /\ groups' \in [Groups -> GroupType]
        /\ groups'[Temp].units = c /\ groups'[Temp].toCheck = groups[Temp].toCheck
        /\ \A g \in Groups \ {Temp} : groups'[g] = groups[g]
    <3>1. groups' = [groups EXCEPT ![Temp] = [groups[Temp] EXCEPT !.units = c]]
      BY <2>1, <2>4, Zenon
    <3> QED BY <1>2, <3>1 DEF GroupType
  <2>9. AllocTypeOK'
    BY <1>1, <2>1, <2>2, <2>8 DEF AllocTypeOK, UpkeepType, GroupType
  <2>10. LocksMatch'
    BY <1>1, <2>2 DEF LocksMatch, HoldsLock
  <2>11. /\ \A g \in Groups : \A j \in DOMAIN groups'[g].units :
              \E l \in DOMAIN groups[g].units :
                /\ groups'[g].units[j] = groups[g].units[l] /\ groups[g].units[l] # u
                /\ l = IF g = Temp THEN from(j) ELSE j
         /\ \A g \in Groups : \A l \in DOMAIN groups[g].units : groups[g].units[l] # u =>
              \E j \in DOMAIN groups'[g].units : groups'[g].units[j] = groups[g].units[l]
    <3>1. \A g \in Groups : \A l \in DOMAIN groups[g].units :
            groups[g].units[l] = u => g = Temp /\ l = k
      BY <1>2 DEF ListedOnce, u, q
    <3>2. ASSUME NEW g \in Groups, NEW j \in DOMAIN groups'[g].units
          PROVE  \E l \in DOMAIN groups[g].units :
                   /\ groups'[g].units[j] = groups[g].units[l] /\ groups[g].units[l] # u
                   /\ l = IF g = Temp THEN from(j) ELSE j
      <4>1. CASE g = Temp
        BY <2>7, <2>8, <3>1, <4>1 DEF q
      <4>2. CASE g # Temp
        BY <2>8, <3>1, <4>2
      <4> QED BY <4>1, <4>2
    <3>3. ASSUME NEW g \in Groups, NEW l \in DOMAIN groups[g].units, groups[g].units[l] # u
          PROVE  \E j \in DOMAIN groups'[g].units : groups'[g].units[j] = groups[g].units[l]
      <4>1. CASE g = Temp
        <5>1. l \in DOMAIN q \ {k} /\ groups[g].units[l] = q[l]
          BY <3>3, <4>1 DEF q, u
        <5>2. PICK i \in DOMAIN c : from(i) = l
          BY <2>7, <5>1
        <5> QED BY <2>7, <2>8, <4>1, <5>1, <5>2
      <4>2. CASE g # Temp
        BY <2>8, <4>2
      <4> QED BY <4>1, <4>2
    <3> QED BY <3>2, <3>3
  <2>12. ListedOnce'
    <3> SUFFICES ASSUME NEW g \in Groups, NEW h \in Groups,
                        NEW i \in DOMAIN groups'[g].units, NEW j \in DOMAIN groups'[h].units,
                        groups'[g].units[i] = groups'[h].units[j]
                 PROVE  g = h /\ i = j
      BY DEF ListedOnce
    <3>1. PICK l \in DOMAIN groups[g].units :
            groups'[g].units[i] = groups[g].units[l] /\ l = IF g = Temp THEN from(i) ELSE i
      BY <2>11
    <3>2. PICK m \in DOMAIN groups[h].units :
            groups'[h].units[j] = groups[h].units[m] /\ m = IF h = Temp THEN from(j) ELSE j
      BY <2>11
    <3>3. g = h /\ l = m
      <4>1. groups[g].units[l] = groups[h].units[m]
        BY <3>1, <3>2
      <4> QED BY <4>1 DEF ListedOnce
    <3> QED BY <2>7, <2>8, <3>1, <3>2, <3>3
  <2>13. ListedAreAllocated'
    <3>1. \A g \in Groups : \A j \in DOMAIN groups'[g].units : groups'[g].units[j] \in allocated'
      BY <2>1, <2>11 DEF ListedAreAllocated
    <3>2. ASSUME NEW w \in allocated', \E g \in Groups : Lists(g, w)
          PROVE  \E g \in Groups : \E j \in DOMAIN groups'[g].units : groups'[g].units[j] = w
      BY <2>1, <2>11, <3>2 DEF Lists
    <3> QED BY <1>1, <2>1, <3>1, <3>2 DEF ListedAreAllocated, Lists
  <2>14. FreshIsApart'
    <3>1. ASSUME NEW b \in Boxes, call[b].fresh
          PROVE  /\ call[b].unit \in allocated'
                 /\ \A g \in Groups : \A j \in DOMAIN groups'[g].units : groups'[g].units[j] # call[b].unit
      <4>1. Lists(Temp, u)
        BY <1>2 DEF Lists, u, q
      <4> QED BY <1>2, <2>1, <2>11, <3>1, <4>1 DEF FreshIsApart, Lists
    <3> QED BY <1>1, <3>1 DEF FreshIsApart, Lists, HasSlot
  <2>15. CallsInPlace'
    <3>1. \A b \in Boxes : groups'[call[b].shard] = groups[call[b].shard]
      BY <2>8, CallFacts, GroupNames
    <3> QED BY <1>1, <3>1 DEF CallsInPlace
  <2>16. GroupsAreValid'
    BY <1>1, <2>2, <2>8 DEF GroupsAreValid
  <2>17. MaintenanceInOrder'
    <3>1. k >= 1
      BY <1>2
    <3> QED BY <2>2, <3>1 DEF MaintenanceInOrder, Slots
  <2>18. SlotsAreExclusive'
    <3>1. \A b \in Boxes : HasSlot(b) => call[b].unit # u
      BY <2>3, CallFacts DEF SlotsAreExclusive
    <3> QED BY <1>1, <2>1, <3>1 DEF SlotsAreExclusive, HasSlot
  <2>19. FlagsAreOwned'
    BY <1>1 DEF FlagsAreOwned, HasSlot, At
  <2> QED BY <2>9, <2>10, <2>12, <2>13, <2>14, <2>15, <2>16, <2>17, <2>18, <2>19
<1>4. CASE ~(~used /\ IsLastSlot(upkeep.slot))
  <2>1. /\ UNCHANGED <<allocated, groups>>
        /\ upkeep' = IF used THEN [upkeep EXCEPT !.unit = k + 1, !.slot = 0]
                     ELSE [upkeep EXCEPT !.slot = upkeep.slot + 1]
    BY <1>4 DEF Retain
  <2>2. /\ upkeep' \in UpkeepType /\ upkeep'.pc = "retain" /\ upkeep'.shard = upkeep.shard
        /\ \/ upkeep'.unit = k + 1 /\ upkeep'.slot = 0
           \/ upkeep'.unit = k /\ upkeep'.slot = upkeep.slot + 1 /\ ~used
    <3>1. CASE used
      <4>1. k + 1 \in Nat
        BY <1>2
      <4> QED BY <1>1, <2>1, <3>1, <4>1, UpkeepTyped, FirstSlot DEF UpkeepType
    <3>2. CASE ~used
      <4>1. upkeep.slot + 1 \in Slots
        BY <1>2, <1>4, <3>2, AllocAssumption DEF IsLastSlot, Slots
      <4> QED BY <1>1, <2>1, <3>2, <4>1, UpkeepTyped DEF UpkeepType
    <3> QED BY <3>1, <3>2
  <2>3. AllocTypeOK'
    BY <1>1, <2>1, <2>2 DEF AllocTypeOK, UpkeepType
  <2>4. LocksMatch'
    BY <1>1, <2>2 DEF LocksMatch, HoldsLock
  <2>5. GroupsAreValid'
    BY <1>1, <2>1, <2>2 DEF GroupsAreValid
  <2>6. MaintenanceInOrder'
    <3>1. CASE upkeep'.unit = k + 1 /\ upkeep'.slot = 0
      BY <1>2, <2>2, <3>1 DEF MaintenanceInOrder, Slots
    <3>2. CASE upkeep'.unit = k /\ upkeep'.slot = upkeep.slot + 1 /\ ~used
      <4>1. mem[u][UsageFlag(upkeep.slot)] = 0
        BY <1>2, <3>2 DEF FlagsAreOwned
      <4>2. \A i \in Slots : i < upkeep.slot + 1 => i < upkeep.slot \/ i = upkeep.slot
        BY <1>2 DEF Slots
      <4>3. \A i \in Slots : i < upkeep'.slot => mem'[u][UsageFlag(i)] = 0
        BY <1>1, <3>2, <4>1, <4>2 DEF MaintenanceInOrder
      <4>4. ~(upkeep'.unit > Len(groups'[Temp].units)) /\ upkeep'.unit >= 1
        BY <1>1, <1>2, <2>1, <3>2
      <4> QED BY <2>1, <2>2, <3>2, <4>3, <4>4 DEF MaintenanceInOrder
    <3> QED BY <2>2, <3>1, <3>2
  <2>7. \A g \in Groups : (upkeep.pc = "retain")' => upkeep.pc = "retain"
    BY <1>1
  <2> QED BY <1>1, <2>1, <2>3, <2>4, <2>5, <2>6, QuietKeeps
<1> QED BY <1>3, <1>4

-----------------------------------------------------------------------------
LEMMA AllocInvInit ==
  AllocInit => AllocInv
<1> SUFFICES ASSUME AllocInit
             PROVE  AllocInv
  OBVIOUS
<1>1. call \in [Boxes -> CallType] /\ \A b \in Boxes : call[b].pc = "none" /\ ~call[b].fresh
  BY FirstSlot DEF AllocInit
<1>2. \A g \in Groups : DOMAIN groups[g].units = {} /\ DOMAIN groups[g].toCheck = {}
  BY DEF AllocInit
<1>3. AllocTypeOK
  <2>1. groups \in [Groups -> GroupType]
    BY DEF AllocInit, GroupType
  <2>2. report \in ReportType
    BY AllocAssumption, FirstSlot DEF AllocInit, NoReport, ReportType
  <2>3. upkeep \in UpkeepType
    BY FirstSlot, GroupNames DEF AllocInit, UpkeepType
  <2>4. allocated \subseteq Units /\ mem \in [Units -> [Words -> Int]]
        /\ lock \in [Groups -> Boxes \cup {"collector", "report", NULL}]
    BY DEF AllocInit
  <2> QED BY <1>1, <2>1, <2>2, <2>3, <2>4 DEF AllocTypeOK, CallType, GroupType, ReportType, UpkeepType
<1>4. LocksMatch
  <2>1. /\ \A g \in Groups : lock[g] = NULL
        /\ upkeep.pc = "idle" /\ report.locks = 0
    BY DEF AllocInit, NoReport
  <2>2. \A n \in 0 .. ShardCount : NthLock(n) \in Groups /\ ~(n < 0)
    BY GroupNames, AllocAssumption
  <2> QED BY <1>1, <2>1, <2>2, Owners DEF LocksMatch, HoldsLock
<1>5. ListedOnce /\ ListedAreAllocated /\ FreshIsApart /\ CallsInPlace
  BY <1>1, <1>2 DEF AllocInit, ListedOnce, ListedAreAllocated, FreshIsApart, CallsInPlace, Lists
<1>6. GroupsAreValid
  BY <1>2 DEF GroupsAreValid, Valid
<1>7. MaintenanceInOrder
  BY DEF AllocInit, MaintenanceInOrder
<1>8. SlotsAreExclusive
  BY <1>1 DEF SlotsAreExclusive, HasSlot
<1>9. FlagsAreOwned
  <2>1. \A u \in Units, i \in Slots : mem[u][UsageFlag(i)] = 0
    BY UnitWords DEF AllocInit
  <2> QED BY <2>1 DEF FlagsAreOwned
<1> QED BY <1>3, <1>4, <1>5, <1>6, <1>7, <1>8, <1>9 DEF AllocInv

LEMMA AllocInvNext ==
  AllocInv /\ [AllocNext]_allocVars => AllocInv'
<1>1. ASSUME AllocInv, UNCHANGED allocVars
      PROVE  AllocInv'
  <2>1. UNCHANGED <<allocated, mem, groups, lock, call, upkeep, report>>
    BY <1>1 DEF allocVars
  <2>2. AllocTypeOK'
    BY <1>1, <2>1 DEF AllocInv, AllocTypeOK
  <2>3. LocksMatch'
    BY <1>1, <2>1 DEF AllocInv, LocksMatch, HoldsLock
  <2>4. MaintenanceInOrder' /\ GroupsAreValid'
    BY <1>1, <2>1 DEF AllocInv, MaintenanceInOrder, GroupsAreValid
  <2> QED BY <1>1, <2>1, <2>2, <2>3, <2>4, QuietKeeps DEF AllocInv
<1>2. ASSUME AllocInv, NEW b \in Boxes, BoxStep(b)
      PROVE  AllocInv'
  BY <1>2, LockShardKeeps, NewUnitKeeps, OutOfMemoryKeeps, TryUnitKeeps, ClaimKeeps,
     InitialiseKeeps, InitPanicsKeeps DEF BoxStep
<1>3. ASSUME AllocInv, NEW b \in Boxes, UserStep(b)
      PROVE  AllocInv'
  BY <1>3, AllocateKeeps, DropValuesKeeps, DeallocateKeeps DEF UserStep
<1>4. ASSUME AllocInv, MaintenanceStep
      PROVE  AllocInv'
  BY <1>4, SwapOutKeeps, RetainKeeps, EndRetainKeeps, IndexUnitKeeps, EndIndexKeeps,
     SwapInKeeps, EndMaintenanceKeeps DEF MaintenanceStep
<1>5. ASSUME AllocInv, ReportStep
      PROVE  AllocInv'
  BY <1>5, ReportLockKeeps, ReportReads, ReportDoneKeeps DEF ReportStep
<1> QED BY <1>1, <1>2, <1>3, <1>4, <1>5, BeginMaintenanceKeeps DEF AllocNext

-----------------------------------------------------------------------------
\* The state of the allocator always has its type.
THEOREM AllocatorTypeCorrect == AllocSpec => []AllocTypeOK
<1>1. AllocInv => AllocTypeOK
  BY DEF AllocInv
<1> QED BY <1>1, AllocInvInit, AllocInvNext, PTL DEF AllocSpec

\* From allocate_data_in_each_shard to its drop a ShardedBox is the only owner of
\* its slot, in a unit that has not been freed, for any number of boxes, shards
\* and slots, although maintenance looks at the usage flags without the lock of
\* the deallocating thread.
THEOREM SlotsStayExclusive == AllocSpec => []SlotsAreExclusive
<1>1. AllocInv => SlotsAreExclusive
  BY DEF AllocInv
<1> QED BY <1>1, AllocInvInit, AllocInvNext, PTL DEF AllocSpec

\* allocate() may index all_units with what is in the list of units to check.
THEOREM IndexesStayValid == AllocSpec => []IndexesAreValid
<1>1. AllocInv => IndexesAreValid
  BY DEF AllocInv, GroupsAreValid, Valid, IndexesAreValid
<1> QED BY <1>1, AllocInvInit, AllocInvNext, PTL DEF AllocSpec

-----------------------------------------------------------------------------
\* A set with an injection into another one is not larger.
LEMMA InjectionBound ==
  ASSUME NEW S, IsFiniteSet(S), NEW T, IsFiniteSet(T), NEW f \in [S -> T],
         \A x, y \in S : f[x] = f[y] => x = y
  PROVE  Cardinality(S) <= Cardinality(T)
<1>1. Cardinality(S) \in Nat /\ Cardinality(T) \in Nat
  BY FS_CardinalityType
<1>2. ~(Cardinality(T) < Cardinality(S))
  BY FS_PigeonHole
<1> QED BY <1>1, <1>2

\* A group has no more units than there are.
LEMMA GroupFits ==
  ASSUME AllocInv, NEW g \in Groups
  PROVE  \A k \in DOMAIN groups[g].units : k \in 1 .. Cardinality(Units)
<1> USE DEF AllocInv
<1>1. PICK q \in Seq(Units) : q = groups[g].units
  BY GroupFacts
<1>2. DOMAIN q = 1 .. Len(q) /\ Len(q) \in Nat /\ \A k \in DOMAIN q : q[k] \in Units
  BY SeqFacts
<1>3. \A k, l \in 1 .. Len(q) : q[k] = q[l] => k = l
  BY <1>1, <1>2 DEF ListedOnce
<1>4. PICK f \in [1 .. Len(q) -> Units] : \A k \in 1 .. Len(q) : f[k] = q[k]
  <2>1. [k \in 1 .. Len(q) |-> q[k]] \in [1 .. Len(q) -> Units]
    BY <1>2
  <2> QED BY <2>1
<1>5. \A k, l \in 1 .. Len(q) : f[k] = f[l] => k = l
  BY <1>3, <1>4
<1>6. IsFiniteSet(1 .. Len(q)) /\ Cardinality(1 .. Len(q)) = Len(q)
  <2>1. 1 \in Int /\ Len(q) \in Int
    BY <1>2
  <2>2. /\ IsFiniteSet(1 .. Len(q))
        /\ Cardinality(1 .. Len(q)) = IF 1 > Len(q) THEN 0 ELSE Len(q) - 1 + 1
    BY <2>1, FS_Interval
  <2> QED BY <1>2, <2>2
<1>7. IsFiniteSet(Units) /\ Cardinality(Units) \in Nat
  BY AllocAssumption, FS_CardinalityType
<1>8. Cardinality(1 .. Len(q)) <= Cardinality(Units)
  BY <1>5, <1>6, <1>7, InjectionBound
<1> QED BY <1>1, <1>2, <1>6, <1>7, <1>8

LEMMA UnitsAccounted ==
  AllocInv => UnitsAreAccountedFor
<1> SUFFICES ASSUME AllocInv, NEW u \in Units
             PROVE  Cardinality({x \in Groups \X (1 .. Cardinality(Units)) :
                                   x[2] <= Len(groups[x[1]].units) /\ groups[x[1]].units[x[2]] = u})
                      + Cardinality({b \in Boxes : call[b].fresh /\ call[b].unit = u})
                    = IF u \in allocated THEN 1 ELSE 0
  BY DEF UnitsAreAccountedFor
<1> USE DEF AllocInv
<1> DEFINE P == {x \in Groups \X (1 .. Cardinality(Units)) :
                   x[2] <= Len(groups[x[1]].units) /\ groups[x[1]].units[x[2]] = u}
           B == {b \in Boxes : call[b].fresh /\ call[b].unit = u}
<1>1. Cardinality({}) = 0 /\ \A x : Cardinality({x}) = 1
  BY FS_EmptySet, FS_Singleton
<1>2. Cardinality(Units) \in Nat
  BY AllocAssumption, FS_CardinalityType
<1>3. \A g \in Groups, k \in 1 .. Cardinality(Units) :
        <<g, k>> \in P <=> k \in DOMAIN groups[g].units /\ groups[g].units[k] = u
  BY <1>2, GroupFacts
<1>4. \A x \in P : \E g \in Groups, k \in 1 .. Cardinality(Units) : x = <<g, k>>
  OBVIOUS
<1>5. CASE u \notin allocated
  <2>1. P = {}
    BY <1>3, <1>4, <1>5 DEF ListedAreAllocated
  <2>2. B = {}
    BY <1>5 DEF FreshIsApart
  <2> HIDE DEF P, B
  <2>3. Cardinality(P) = 0 /\ Cardinality(B) = 0
    BY <1>1, <2>1, <2>2
  <2> QED BY <1>5, <2>3 DEF P, B
<1>6. CASE u \in allocated /\ \E g \in Groups : Lists(g, u)
  <2>0. PICK g \in Groups : Lists(g, u)
    BY <1>6
  <2>1. PICK k \in DOMAIN groups[g].units : groups[g].units[k] = u
    BY <2>0 DEF Lists
  <2>2. k \in 1 .. Cardinality(Units)
    BY GroupFits
  <2>3. P = {<<g, k>>}
    <3>1. <<g, k>> \in P
      BY <1>3, <2>1, <2>2
    <3>2. ASSUME NEW x \in P
          PROVE  x = <<g, k>>
      <4>1. PICK h \in Groups, l \in 1 .. Cardinality(Units) : x = <<h, l>>
        BY <1>4
      <4>2. l \in DOMAIN groups[h].units /\ groups[h].units[l] = u
        BY <1>3, <3>2, <4>1
      <4>3. h = g /\ l = k
        BY <2>1, <4>2 DEF ListedOnce
      <4> QED BY <4>1, <4>3
    <3> QED BY <3>1, <3>2
  <2>4. B = {}
    BY <2>1 DEF FreshIsApart, Lists
  <2> HIDE DEF P, B
  <2>5. Cardinality(P) = 1 /\ Cardinality(B) = 0
    BY <1>1, <2>3, <2>4
  <2> QED BY <1>6, <2>5 DEF P, B
<1>7. CASE u \in allocated /\ ~\E g \in Groups : Lists(g, u)
  <2>1. PICK b \in Boxes : call[b].fresh /\ call[b].unit = u
    BY <1>7 DEF ListedAreAllocated
  <2>2. B = {b}
    BY <2>1 DEF FreshIsApart
  <2>3. P = {}
    BY <1>3, <1>4, <1>7 DEF Lists
  <2> HIDE DEF P, B
  <2>4. Cardinality(P) = 0 /\ Cardinality(B) = 1
    BY <1>1, <2>2, <2>3
  <2> QED BY <1>7, <2>4 DEF P, B
<1> QED BY <1>5, <1>6, <1>7

\* Through all exchanges of groups no unit of the allocator is lost or listed
\* twice, and none is freed while a group lists it.
THEOREM UnitsStayAccountedFor == AllocSpec => []UnitsAreAccountedFor
BY UnitsAccounted, AllocInvInit, AllocInvNext, PTL DEF AllocSpec

-----------------------------------------------------------------------------
\* A word of a slot holds a value exactly while a box owns the slot.
ValuesMatch ==
  \A u \in Units, i \in Slots, s \in Shards :
    /\ (\E b \in Boxes : call[b].pc = "own" /\ At(b, u, i)) => mem[u][PtrAtShard(i, s)] = 1
    /\ (\A b \in Boxes : call[b].pc = "own" => ~At(b, u, i)) => mem[u][PtrAtShard(i, s)] = 0

\* Steps that change no word and let no box begin or end to own.
LEMMA ValuesKept ==
  ASSUME ValuesMatch,
         \A u \in Units, i \in Slots, s \in Shards :
           mem'[u][PtrAtShard(i, s)] = mem[u][PtrAtShard(i, s)],
         \A b \in Boxes : \/ call'[b] = call[b]
                          \/ call[b].pc # "own" /\ call'[b].pc # "own"
  PROVE  ValuesMatch'
BY DEF ValuesMatch, At

\* The owner of a slot is the only box there.
LEMMA OneOwner ==
  ASSUME AllocInv, NEW b \in Boxes, NEW c \in Boxes, HasSlot(b), HasSlot(c),
         call[b].unit = call[c].unit, call[b].slot = call[c].slot
  PROVE  b = c
BY DEF AllocInv, SlotsAreExclusive

LEMMA BoxValues ==
  ASSUME AllocInv, ValuesMatch, NEW b \in Boxes, BoxStep(b)
  PROVE  ValuesMatch'
<1> USE DEF AllocInv
<1>1. CASE LockShard(b) \/ OutOfMemory(b) \/ TryUnit(b)
  <2>1. /\ mem' = mem /\ call[b].pc # "own" /\ call'[b].pc # "own"
        /\ \A c \in Boxes \ {b} : call'[c] = call[c]
    <3>1. CASE LockShard(b)
      BY <3>1, CallTyped DEF LockShard, CallType
    <3>2. CASE OutOfMemory(b)
      BY <3>2, CallTyped, FirstSlot DEF OutOfMemory
    <3>3. CASE TryUnit(b)
      BY <3>3, CallTyped DEF TryUnit, CallType
    <3> QED BY <1>1, <3>1, <3>2, <3>3
  <2> QED BY <2>1, ValuesKept
<1>2. ASSUME NEW v \in Units, NewUnit(b, v)
      PROVE  ValuesMatch'
  <2>1. /\ v \notin allocated /\ call[b].pc = "pick" /\ call'[b].pc = "claim"
        /\ \A c \in Boxes \ {b} : call'[c] = call[c]
    BY <1>2, CallTyped DEF NewUnit, CallType
  <2>2. /\ \A i \in Slots, s \in Shards : mem'[v][PtrAtShard(i, s)] = 0
        /\ \A w \in Units \ {v} : mem'[w] = mem[w]
    <3>1. mem' = [mem EXCEPT ![v] = [x \in Words |-> 0]] /\ mem \in [Units -> [Words -> Int]]
      BY <1>2 DEF NewUnit, AllocTypeOK
    <3> QED BY <3>1, UnitWords
  <2>3. \A c \in Boxes, i \in Slots : call[c].pc = "own" => ~At(c, v, i)
    BY <2>1, CallFacts DEF At, HasSlot
  <2>4. \A c \in Boxes : \A u, i : (call[c].pc = "own" /\ At(c, u, i))' <=> (call[c].pc = "own" /\ At(c, u, i))
    BY <2>1 DEF At
  <2>5. ASSUME NEW u \in Units, NEW i \in Slots, NEW s \in Shards
        PROVE  /\ (\E c \in Boxes : call[c].pc = "own" /\ At(c, u, i)) => mem'[u][PtrAtShard(i, s)] = 1
               /\ (\A c \in Boxes : call[c].pc = "own" => ~At(c, u, i)) => mem'[u][PtrAtShard(i, s)] = 0
    <3>1. CASE u = v
      BY <2>2, <2>3, <3>1
    <3>2. CASE u # v
      BY <2>2, <3>2 DEF ValuesMatch
    <3> QED BY <3>1, <3>2
  <2> QED BY <2>4, <2>5 DEF ValuesMatch
<1>3. CASE Claim(b)
  <2>1. call[b].pc = "claim" /\ call'[b].pc # "own" /\ \A c \in Boxes \ {b} : call'[c] = call[c]
    BY <1>3, CallTyped DEF Claim, CallType
  <2>2. \A w \in Units, j \in Slots, r \in Shards :
          mem'[w][PtrAtShard(j, r)] = mem[w][PtrAtShard(j, r)]
    BY <1>3, ClaimFlags
  <2> QED BY <2>1, <2>2, ValuesKept
<1>4. CASE Initialise(b)
  <2> DEFINE v == call[b].unit
             j == call[b].slot
  <2>1. call[b].pc = "init" /\ HasSlot(b) /\ v \in Units /\ j \in Slots
    BY <1>4, CallFacts DEF Initialise, HasSlot
  <2>2. /\ call'[b].pc = "own" /\ call'[b].unit = v /\ call'[b].slot = j
        /\ \A c \in Boxes \ {b} : call'[c] = call[c]
    BY <1>4, CallTyped DEF Initialise, CallType
  <2>3. \A c \in Boxes \ {b} : call[c].pc = "own" => ~At(c, v, j)
    BY <2>1, OneOwner DEF HasSlot, At
  <2>4. mem \in [Units -> [Words -> Int]] /\ 1 \in Int /\ Shards \subseteq Shards
        /\ mem' = Adjust(mem, v, j, Shards, 1)
    BY <1>4 DEF Initialise, AllocTypeOK
  <2> HIDE DEF v, j
  <2>5. \A w \in Units, i \in Slots, s \in Shards :
          /\ w = v /\ i = j /\ s \in Shards => mem'[w][PtrAtShard(i, s)] = mem[w][PtrAtShard(i, s)] + 1
          /\ ~(w = v /\ i = j /\ s \in Shards) => mem'[w][PtrAtShard(i, s)] = mem[w][PtrAtShard(i, s)]
    BY <2>1, <2>4, AdjustFacts
  <2>6. ASSUME NEW u \in Units, NEW i \in Slots, NEW s \in Shards
        PROVE  /\ (\E c \in Boxes : call[c].pc = "own" /\ At(c, u, i))' => mem'[u][PtrAtShard(i, s)] = 1
               /\ (\A c \in Boxes : call[c].pc = "own" => ~At(c, u, i))' => mem'[u][PtrAtShard(i, s)] = 0
    <3>1. CASE u = v /\ i = j
      <4>1. mem[u][PtrAtShard(i, s)] = 0
        BY <2>1, <2>3, <3>1 DEF ValuesMatch
      <4>2. mem'[u][PtrAtShard(i, s)] = 1
        BY <2>5, <3>1, <4>1
      <4>3. (call[b].pc = "own" /\ At(b, u, i))'
        BY <2>2, <3>1 DEF At
      <4> QED BY <4>2, <4>3
    <3>2. CASE ~(u = v /\ i = j)
      <4>1. ~At(b, u, i)'
        BY <2>2, <3>2 DEF At
      <4>2. \A c \in Boxes \ {b} : (call[c].pc = "own" /\ At(c, u, i))' <=> (call[c].pc = "own" /\ At(c, u, i))
        BY <2>2 DEF At
      <4>3. mem'[u][PtrAtShard(i, s)] = mem[u][PtrAtShard(i, s)]
        BY <2>5, <3>2
      <4> QED BY <2>1, <4>1, <4>2, <4>3 DEF ValuesMatch
    <3> QED BY <3>1, <3>2
  <2> QED BY <2>6 DEF ValuesMatch
<1>5. ASSUME NEW p \in Shards, InitPanics(b, p)
      PROVE  ValuesMatch'
  <2>1. call[b].pc = "init" /\ call'[b].pc = "none" /\ \A c \in Boxes \ {b} : call'[c] = call[c]
    BY <1>5, CallTyped, FirstSlot DEF InitPanics
  <2>2. \A w \in Units, j \in Slots, r \in Shards :
          mem'[w][PtrAtShard(j, r)] = mem[w][PtrAtShard(j, r)]
    BY <1>5, PanicMemory
  <2> QED BY <2>1, <2>2, ValuesKept
<1> QED BY <1>1, <1>2, <1>3, <1>4, <1>5 DEF BoxStep

LEMMA UserValues ==
  ASSUME AllocInv, ValuesMatch, NEW b \in Boxes, UserStep(b)
  PROVE  ValuesMatch'
<1> USE DEF AllocInv
<1>1. ASSUME NEW s \in Shards, Allocate(b, s)
      PROVE  ValuesMatch'
  <2>1. /\ mem' = mem /\ call[b].pc = "none" /\ call'[b].pc = "lock"
        /\ \A c \in Boxes \ {b} : call'[c] = call[c]
    BY <1>1, CallTyped DEF Allocate, NoCall
  <2> QED BY <2>1, ValuesKept
<1>2. CASE DropValues(b)
  <2> DEFINE v == call[b].unit
             j == call[b].slot
  <2>1. call[b].pc = "own" /\ HasSlot(b) /\ v \in Units /\ j \in Slots
    BY <1>2, CallFacts DEF DropValues, HasSlot
  <2>2. call'[b].pc = "dealloc" /\ \A c \in Boxes \ {b} : call'[c] = call[c]
    BY <1>2, CallTyped DEF DropValues, CallType
  <2>3. \A c \in Boxes \ {b} : call[c].pc = "own" => ~At(c, v, j)
    BY <2>1, OneOwner DEF HasSlot, At
  <2>4. mem \in [Units -> [Words -> Int]] /\ -1 \in Int /\ Shards \subseteq Shards
        /\ mem' = Adjust(mem, v, j, Shards, -1)
    BY <1>2 DEF DropValues, AllocTypeOK
  <2>5. At(b, v, j) /\ \A u, i : At(b, u, i) => u = v /\ i = j
    BY DEF At
  <2> HIDE DEF v, j
  <2>6. \A w \in Units, i \in Slots, s \in Shards :
          /\ w = v /\ i = j /\ s \in Shards => mem'[w][PtrAtShard(i, s)] = mem[w][PtrAtShard(i, s)] + (-1)
          /\ ~(w = v /\ i = j /\ s \in Shards) => mem'[w][PtrAtShard(i, s)] = mem[w][PtrAtShard(i, s)]
    BY <2>1, <2>4, AdjustFacts
  <2>7. ASSUME NEW u \in Units, NEW i \in Slots, NEW s \in Shards
        PROVE  /\ (\E c \in Boxes : call[c].pc = "own" /\ At(c, u, i))' => mem'[u][PtrAtShard(i, s)] = 1
               /\ (\A c \in Boxes : call[c].pc = "own" => ~At(c, u, i))' => mem'[u][PtrAtShard(i, s)] = 0
    <3>1. \A c \in Boxes \ {b} : (call[c].pc = "own" /\ At(c, u, i))' <=> (call[c].pc = "own" /\ At(c, u, i))
      BY <2>2 DEF At
    <3>2. CASE u = v /\ i = j
      <4>1. mem[u][PtrAtShard(i, s)] = 1
        BY <2>1, <2>5, <3>2 DEF ValuesMatch
      <4>2. mem'[u][PtrAtShard(i, s)] = 0
        BY <2>6, <3>2, <4>1
      <4> QED BY <2>2, <2>3, <3>1, <3>2, <4>2
    <3>3. CASE ~(u = v /\ i = j)
      <4>1. mem'[u][PtrAtShard(i, s)] = mem[u][PtrAtShard(i, s)]
        BY <2>6, <3>3
      <4>2. ~At(b, u, i)
        BY <2>5, <3>3
      <4> QED BY <2>2, <3>1, <4>1, <4>2 DEF ValuesMatch
    <3> QED BY <3>2, <3>3
  <2> QED BY <2>7 DEF ValuesMatch
<1>3. CASE Deallocate(b)
  <2> DEFINE v == call[b].unit
             j == call[b].slot
  <2>1. /\ call[b].pc = "dealloc" /\ call'[b].pc = "none" /\ \A c \in Boxes \ {b} : call'[c] = call[c]
        /\ v \in Units /\ j \in Slots
    BY <1>3, CallTyped, FirstSlot, CallFacts DEF Deallocate, HasSlot
  <2>2. mem \in [Units -> [Words -> Int]] /\ 0 \in Int /\ mem' = SetFlag(mem, v, j, 0)
    BY <1>3 DEF Deallocate, AllocTypeOK
  <2> HIDE DEF v, j
  <2>3. \A w \in Units, i \in Slots, r \in Shards :
          mem'[w][PtrAtShard(i, r)] = mem[w][PtrAtShard(i, r)]
    BY <2>1, <2>2, SetFlagFacts
  <2> QED BY <2>1, <2>3, ValuesKept
<1> QED BY <1>1, <1>2, <1>3 DEF UserStep

LEMMA ValuesNext ==
  AllocInv /\ ValuesMatch /\ [AllocNext]_allocVars => ValuesMatch'
<1>1. ASSUME ValuesMatch, UNCHANGED <<mem, call>>
      PROVE  ValuesMatch'
  BY <1>1, ValuesKept
<1>2. UNCHANGED allocVars => UNCHANGED <<mem, call>>
  BY DEF allocVars
<1>3. MaintenanceStep \/ ReportStep \/ BeginMaintenance => UNCHANGED <<mem, call>>
  BY DEF MaintenanceStep, ReportStep, BeginMaintenance, SwapOut, Retain, EndRetain, IndexUnit,
         EndIndex, SwapIn, EndMaintenance, ReportLock, ReportFlag, ReportGroup, ReportDone
<1> QED BY <1>1, <1>2, <1>3, BoxValues, UserValues DEF AllocNext

LEMMA ValuesDropped ==
  AllocInv /\ ValuesMatch => ValuesAreDroppedOnce
<1> SUFFICES ASSUME AllocInv, ValuesMatch, NEW u \in Units, NEW i \in Slots, NEW s \in Shards
             PROVE  mem[u][PtrAtShard(i, s)] =
                      Cardinality({b \in Boxes : call[b].pc = "own" /\ call[b].unit = u /\ call[b].slot = i})
  BY DEF ValuesAreDroppedOnce
<1> DEFINE B == {b \in Boxes : call[b].pc = "own" /\ call[b].unit = u /\ call[b].slot = i}
<1>1. Cardinality({}) = 0 /\ \A x : Cardinality({x}) = 1
  BY FS_EmptySet, FS_Singleton
<1>2. CASE \E b \in Boxes : call[b].pc = "own" /\ At(b, u, i)
  <2>1. PICK b \in Boxes : call[b].pc = "own" /\ At(b, u, i)
    BY <1>2
  <2>2. B = {b}
    BY <2>1, OneOwner DEF HasSlot, At
  <2>3. mem[u][PtrAtShard(i, s)] = 1
    BY <1>2 DEF ValuesMatch
  <2> HIDE DEF B
  <2> QED BY <1>1, <2>2, <2>3 DEF B
<1>3. CASE ~\E b \in Boxes : call[b].pc = "own" /\ At(b, u, i)
  <2>1. B = {}
    BY <1>3 DEF At
  <2>2. mem[u][PtrAtShard(i, s)] = 0
    BY <1>3 DEF ValuesMatch
  <2> HIDE DEF B
  <2> QED BY <1>1, <2>1, <2>2 DEF B
<1> QED BY <1>2, <1>3

\* What init_func returned for a shard is dropped exactly once, in the drop of the
\* box or while a panicking init_func unwinds, for any number of shards.
THEOREM ValuesDroppedOnce == AllocSpec => []ValuesAreDroppedOnce
<1>1. AllocInit => ValuesMatch
  <2> SUFFICES ASSUME AllocInit
               PROVE  ValuesMatch
    OBVIOUS
  <2>1. \A b \in Boxes : call[b].pc # "own"
    BY FirstSlot DEF AllocInit
  <2>2. \A u \in Units, i \in Slots, s \in Shards : mem[u][PtrAtShard(i, s)] = 0
    BY UnitWords DEF AllocInit
  <2> QED BY <2>1, <2>2 DEF ValuesMatch
<1> QED BY <1>1, AllocInvInit, AllocInvNext, ValuesNext, ValuesDropped, PTL DEF AllocSpec

-----------------------------------------------------------------------------
(***************************************************************************)
(* The status report.  With all locks held nothing is claimed and nothing  *)
(* moves; slots can only be freed.  So the boxes whose flag has been read  *)
(* are no more than what was counted, and with the boxes that are still    *)
(* ahead that is no more than the boxes there were when the last lock was  *)
(* taken.                                                                  *)
(***************************************************************************)
\* The report has read the flag of slot i of the k-th unit of group g.
HasRead(g, k, i) ==
  \/ g < report.counted
  \/ g = report.counted /\ (k < report.unit \/ (k = report.unit /\ i < report.slot))

\* The flag of box b has been read.
Passed(b) ==
  \E g \in Groups : \E k \in DOMAIN groups[g].units :
    groups[g].units[k] = call[b].unit /\ HasRead(g, k, call[b].slot)

Behind == {b \in Boxes : HasSlot(b) /\ Passed(b)}
Ahead  == {b \in Boxes : HasSlot(b) /\ ~Passed(b)}

ReportInOrder ==
  /\ report.counted > 0 \/ report.unit > 1 \/ report.slot > 0 \/ report.used > 0 =>
       report.locks = ShardCount + 1
  /\ report.unit >= 1
  /\ report.counted = ShardCount + 1 => report.unit = 1 /\ report.slot = 0
  /\ report.counted <= ShardCount /\ report.unit > Len(groups[report.counted].units) =>
       report.slot = 0
  /\ report.locks = ShardCount + 1 =>
       /\ Cardinality(Behind) <= report.used
       /\ report.used + Cardinality(Ahead) <= report.atMost

LEMMA BoxesFinite ==
  \A B : B \subseteq Boxes => IsFiniteSet(B) /\ Cardinality(B) \in Nat
BY AllocAssumption, FS_Subset, FS_CardinalityType

\* With all locks held by the report no call holds one, and maintenance is idle.
LEMMA AllLocked ==
  ASSUME AllocInv, report.locks = ShardCount + 1
  PROVE  /\ \A g \in Groups : lock[g] = "report"
         /\ \A b \in Boxes : ~HoldsLock(b) /\ ~call[b].fresh
         /\ upkeep.pc = "idle"
<1> USE DEF AllocInv
<1>1. \A n \in 0 .. ShardCount : n < report.locks
  BY AllocAssumption
<1>2. \A g \in Groups : lock[g] = "report"
  BY <1>1, GroupNames DEF LocksMatch
<1>3. ASSUME NEW b \in Boxes
      PROVE  ~HoldsLock(b)
  BY <1>2, CallFacts, GroupNames, Owners DEF LocksMatch
<1>4. \A b \in Boxes : ~call[b].fresh
  BY <1>3 DEF FreshIsApart, HoldsLock
<1>5. upkeep.pc = "idle"
  BY <1>2, GroupNames DEF LocksMatch
<1> QED BY <1>2, <1>3, <1>4, <1>5

\* A step that leaves the report alone while it has all locks takes no slot and
\* moves none.
LEMMA ReportUndisturbed ==
  ASSUME AllocInv, ReportInOrder, UNCHANGED <<groups, report>>,
         \A b \in Boxes : report.locks = ShardCount + 1 /\ HasSlot(b)' =>
           HasSlot(b) /\ call'[b].unit = call[b].unit /\ call'[b].slot = call[b].slot
  PROVE  ReportInOrder'
<1>1. ASSUME report.locks = ShardCount + 1
      PROVE  /\ Cardinality(Behind) <= report.used
             /\ report.used + Cardinality(Ahead) <= report.atMost
  BY <1>1 DEF ReportInOrder
<1>2. ASSUME report.locks = ShardCount + 1
      PROVE  /\ Cardinality(Behind') <= report.used
             /\ report.used + Cardinality(Ahead') <= report.atMost
  <2>1. ASSUME NEW b \in Boxes, HasSlot(b)'
        PROVE  HasSlot(b) /\ (Passed(b)' <=> Passed(b))
    BY <1>2, <2>1 DEF Passed, HasRead
  <2>2. Behind' \subseteq Behind /\ Ahead' \subseteq Ahead /\ Behind \subseteq Boxes /\ Ahead \subseteq Boxes
    BY <2>1 DEF Behind, Ahead
  <2> HIDE DEF Behind, Ahead
  <2>3. Cardinality(Behind') <= Cardinality(Behind) /\ Cardinality(Ahead') <= Cardinality(Ahead)
    BY <2>2, BoxesFinite, FS_Subset
  <2>4. /\ Behind' \subseteq Boxes /\ Ahead' \subseteq Boxes
        /\ Cardinality(Behind') \in Nat /\ Cardinality(Ahead') \in Nat
        /\ Cardinality(Behind) \in Nat /\ Cardinality(Ahead) \in Nat
    BY <2>2, BoxesFinite
  <2>5. report.used \in Nat /\ report.atMost \in Nat
    BY UpkeepTyped DEF AllocInv, ReportType
  <2> QED BY <1>1, <1>2, <2>3, <2>4, <2>5
<1> QED BY <1>2 DEF ReportInOrder

\* Before it has all locks the report has read nothing.
LEMMA ReportNotBegun ==
  ASSUME AllocInv, ReportInOrder, UNCHANGED report, report.locks # ShardCount + 1
  PROVE  ReportInOrder'
<1>1. /\ ~(report.counted > 0 \/ report.unit > 1 \/ report.slot > 0 \/ report.used > 0)
      /\ report.unit >= 1
  BY DEF ReportInOrder
<1>2. report \in ReportType /\ ShardCount \in Nat \ {0}
  BY UpkeepTyped, AllocAssumption DEF AllocInv
<1>3. report.counted = 0 /\ report.slot = 0
  BY <1>1, <1>2, AllocAssumption DEF ReportType, Slots
<1> QED BY <1>1, <1>2, <1>3 DEF ReportInOrder

\* Reading a flag: the box it belongs to, if it is set, is no longer ahead.
LEMMA ReportFlagCounts ==
  ASSUME AllocInv, ReportInOrder, ReportFlag
  PROVE  ReportInOrder'
<1> USE DEF AllocInv
<1> DEFINE g == report.counted
           k == report.unit
           i == report.slot
           u == groups[g].units[k]
<1>0. report \in ReportType /\ ShardCount \in Nat \ {0} /\ SlotCount \in Nat \ {0}
  BY UpkeepTyped, AllocAssumption
<1>1. /\ UNCHANGED <<groups, call, mem>> /\ report.locks = ShardCount + 1 /\ report'.locks = report.locks
      /\ report'.counted = g /\ report'.atMost = report.atMost
      /\ mem[u][UsageFlag(i)] = 0 => report'.used = report.used
      /\ mem[u][UsageFlag(i)] # 0 => report'.used = report.used + 1
      /\ \/ i = SlotCount - 1 /\ report'.unit = k + 1 /\ report'.slot = 0
         \/ i # SlotCount - 1 /\ report'.unit = k /\ report'.slot = i + 1
      /\ g <= ShardCount /\ k <= Len(groups[g].units)
  BY <1>0 DEF ReportFlag, IsLastSlot, ReportType
<1>2. g \in Groups /\ k \in DOMAIN groups[g].units /\ u \in Units /\ i \in Slots /\ k \in Nat
  <2>1. g \in Groups /\ k \in Nat /\ k >= 1 /\ i \in Slots
    BY <1>0, <1>1 DEF ReportType, Groups, ReportInOrder
  <2> QED BY <1>1, <2>1, GroupFacts
<1>3. \A h \in Groups : \A l \in DOMAIN groups[h].units, j \in Slots :
        HasRead(h, l, j)' <=> HasRead(h, l, j) \/ (h = g /\ l = k /\ j = i)
  <2> SUFFICES ASSUME NEW h \in Groups, NEW l \in DOMAIN groups[h].units, NEW j \in Slots
               PROVE  HasRead(h, l, j)' <=> HasRead(h, l, j) \/ (h = g /\ l = k /\ j = i)
    OBVIOUS
  <2>1. h \in Int /\ l \in Int /\ g \in Int /\ k \in Int
    BY <1>2, GroupFacts DEF Groups
  <2>2. j \in Int /\ i \in Int /\ j >= 0 /\ j <= SlotCount - 1 /\ i <= SlotCount - 1
    BY <1>0, <1>2 DEF Slots
  <2>3. HasRead(h, l, j) <=> h < g \/ (h = g /\ (l < k \/ (l = k /\ j < i)))
    BY DEF HasRead
  <2>4. HasRead(h, l, j)' <=> h < g \/ (h = g /\ (l < report'.unit \/ (l = report'.unit /\ j < report'.slot)))
    BY <1>1 DEF HasRead
  <2> HIDE DEF g, k, i
  <2>5. CASE i = SlotCount - 1 /\ report'.unit = k + 1 /\ report'.slot = 0
    BY <2>1, <2>2, <2>3, <2>4, <2>5
  <2>6. CASE i # SlotCount - 1 /\ report'.unit = k /\ report'.slot = i + 1
    BY <2>1, <2>2, <2>3, <2>4, <2>6
  <2> QED BY <1>1, <2>5, <2>6 DEF g, k, i
<1>4. ~HasRead(g, k, i)
  BY <1>2 DEF HasRead, Groups, Slots
<1>5. ASSUME NEW b \in Boxes, HasSlot(b)
      PROVE  /\ Passed(b)' <=> Passed(b) \/ At(b, u, i)
             /\ At(b, u, i) => ~Passed(b)
  <2>1. call[b].slot \in Slots
    BY CallFacts
  <2>2. \A h \in Groups : \A l \in DOMAIN groups[h].units :
          groups[h].units[l] = u => h = g /\ l = k
    BY <1>2 DEF ListedOnce
  <2>3. Passed(b)' <=> \E h \in Groups : \E l \in DOMAIN groups[h].units :
          groups[h].units[l] = call[b].unit /\ (HasRead(h, l, call[b].slot) \/ (h = g /\ l = k /\ call[b].slot = i))
    BY <1>1, <1>3, <2>1 DEF Passed
  <2> HIDE DEF g, k, i
  <2>4. Passed(b)' <=> Passed(b) \/ At(b, u, i)
    BY <1>2, <2>3 DEF Passed, At
  <2>5. At(b, u, i) => ~Passed(b)
    BY <1>4, <2>2 DEF Passed, At
  <2> QED BY <2>4, <2>5
<1>6. \A b \in Boxes : HasSlot(b)' <=> HasSlot(b)
  BY <1>1 DEF HasSlot
<1>7. /\ Behind \subseteq Boxes /\ Ahead \subseteq Boxes
      /\ IsFiniteSet(Behind) /\ IsFiniteSet(Ahead)
      /\ Cardinality(Behind) \in Nat /\ Cardinality(Ahead) \in Nat
  BY BoxesFinite DEF Behind, Ahead
<1>8. Cardinality(Behind) <= report.used /\ report.used + Cardinality(Ahead) <= report.atMost
  BY <1>1 DEF ReportInOrder
<1>9. /\ Cardinality(Behind') <= report'.used
      /\ report'.used + Cardinality(Ahead') <= report'.atMost
  <2>1. CASE mem[u][UsageFlag(i)] = 0
    <3>1. \A b \in Boxes : HasSlot(b) => ~At(b, u, i)
      BY <2>1 DEF SlotsAreExclusive, At
    <3>2. Behind' = Behind /\ Ahead' = Ahead
      BY <1>5, <1>6, <3>1 DEF Behind, Ahead
    <3> QED BY <1>1, <1>8, <2>1, <3>2
  <2>2. CASE mem[u][UsageFlag(i)] # 0
    <3>1. PICK b \in Boxes : HasSlot(b) /\ At(b, u, i)
      BY <1>2, <2>2 DEF FlagsAreOwned
    <3>2. \A c \in Boxes : HasSlot(c) /\ At(c, u, i) => c = b
      BY <3>1, OneOwner DEF At
    <3>3. b \in Ahead /\ b \notin Behind
      BY <1>5, <3>1 DEF Behind, Ahead
    <3>4. Behind' = Behind \cup {b} /\ Ahead' = Ahead \ {b}
      BY <1>5, <1>6, <3>1, <3>2 DEF Behind, Ahead
    <3>5. Cardinality(Behind') = Cardinality(Behind) + 1 /\ Cardinality(Ahead') = Cardinality(Ahead) - 1
      BY <1>7, <3>3, <3>4, FS_AddElement, FS_RemoveElement
    <3>6. report'.used = report.used + 1 /\ report.used \in Nat /\ report.atMost \in Nat
      BY <1>0, <1>1, <2>2 DEF ReportType
    <3> QED BY <1>1, <1>7, <1>8, <3>5, <3>6
  <2> QED BY <2>1, <2>2
<1>10. /\ report'.unit >= 1 /\ report'.counted # ShardCount + 1
       /\ report'.unit > Len(groups'[report'.counted].units) => report'.slot = 0
  BY <1>0, <1>1, <1>2
<1> QED BY <1>1, <1>9, <1>10 DEF ReportInOrder

\* The end of a group reads nothing.
LEMMA ReportGroupCounts ==
  ASSUME AllocInv, ReportInOrder, ReportGroup
  PROVE  ReportInOrder'
<1> USE DEF AllocInv
<1> DEFINE g == report.counted
<1>0. report \in ReportType /\ ShardCount \in Nat \ {0}
  BY UpkeepTyped, AllocAssumption
<1>1. /\ UNCHANGED <<groups, call>> /\ report.locks = ShardCount + 1 /\ report'.locks = report.locks
      /\ report'.counted = g + 1 /\ report'.atMost = report.atMost /\ report'.used = report.used
      /\ report'.unit = 1 /\ report'.slot = report.slot
      /\ g <= ShardCount /\ report.unit > Len(groups[g].units)
  BY <1>0 DEF ReportGroup, ReportType
<1>2. report.slot = 0
  BY <1>1 DEF ReportInOrder
<1>3. g \in Groups
  BY <1>0, <1>1 DEF ReportType, Groups
<1>4. \A h \in Groups : \A l \in DOMAIN groups[h].units, j \in Slots :
        HasRead(h, l, j)' <=> HasRead(h, l, j)
  <2>1. \A h \in Groups : \A l \in DOMAIN groups[h].units :
          h \in Int /\ l \in Nat /\ l >= 1 /\ l <= Len(groups[h].units) /\ Len(groups[h].units) \in Nat
    BY GroupFacts DEF Groups
  <2>2. \A j \in Slots : j \in Nat
    BY AllocAssumption DEF Slots
  <2>3. g \in Int /\ report.unit \in Nat
    BY <1>0 DEF ReportType
  <2> QED BY <1>1, <1>2, <1>3, <2>1, <2>2, <2>3 DEF HasRead
<1>5. \A b \in Boxes : Passed(b)' <=> Passed(b)
  BY <1>1, <1>4, CallFacts DEF Passed
<1>6. Behind' = Behind /\ Ahead' = Ahead
  BY <1>1, <1>5 DEF Behind, Ahead, HasSlot
<1> QED BY <1>0, <1>1, <1>2, <1>6 DEF ReportInOrder

LEMMA ReportNext ==
  AllocInv /\ ReportInOrder /\ [AllocNext]_allocVars => ReportInOrder'
<1> SUFFICES ASSUME AllocInv, ReportInOrder, [AllocNext]_allocVars
             PROVE  ReportInOrder'
  OBVIOUS
<1> USE DEF AllocInv
<1>0. report \in ReportType /\ ShardCount \in Nat \ {0}
  BY UpkeepTyped, AllocAssumption
<1>1. CASE UNCHANGED allocVars
  BY <1>1, ReportUndisturbed DEF allocVars, HasSlot
<1>2. ASSUME NEW b \in Boxes, BoxStep(b)
      PROVE  ReportInOrder'
  <2>1. UNCHANGED report
    BY <1>2 DEF BoxStep, LockShard, NewUnit, OutOfMemory, TryUnit, Claim, Initialise, InitPanics
  <2>2. call[b].pc \in {"pick", "claim", "init"} \/ lock[call[b].shard] = NULL
    BY <1>2 DEF BoxStep, LockShard, NewUnit, OutOfMemory, TryUnit, Claim, Initialise, InitPanics
  <2>3. report.locks # ShardCount + 1
    BY <2>2, AllLocked, CallFacts, GroupNames, Owners DEF HoldsLock
  <2> QED BY <2>1, <2>3, ReportNotBegun
<1>3. ASSUME NEW b \in Boxes, UserStep(b)
      PROVE  ReportInOrder'
  <2>1. UNCHANGED <<groups, report>>
    BY <1>3 DEF UserStep, Allocate, DropValues, Deallocate
  <2>2. ASSUME NEW c \in Boxes, HasSlot(c)'
        PROVE  HasSlot(c) /\ call'[c].unit = call[c].unit /\ call'[c].slot = call[c].slot
    <3>1. ASSUME NEW s \in Shards, Allocate(b, s)
          PROVE  HasSlot(c) /\ call'[c].unit = call[c].unit /\ call'[c].slot = call[c].slot
      BY <2>2, <3>1, CallTyped DEF Allocate, HasSlot, NoCall
    <3>2. CASE DropValues(b)
      BY <2>2, <3>2, CallTyped DEF DropValues, HasSlot, CallType
    <3>3. CASE Deallocate(b)
      BY <2>2, <3>3, CallTyped DEF Deallocate, HasSlot, NoCall
    <3> QED BY <1>3, <3>1, <3>2, <3>3 DEF UserStep
  <2> QED BY <2>1, <2>2, ReportUndisturbed
<1>4. CASE BeginMaintenance \/ MaintenanceStep
  <2>1. UNCHANGED report
    BY <1>4 DEF BeginMaintenance, MaintenanceStep, SwapOut, Retain, EndRetain, IndexUnit,
                EndIndex, SwapIn, EndMaintenance
  <2>2. upkeep.pc # "idle" \/ lock[Temp] = NULL
    BY <1>4 DEF BeginMaintenance, MaintenanceStep, SwapOut, Retain, EndRetain, IndexUnit,
                EndIndex, SwapIn, EndMaintenance
  <2>3. report.locks # ShardCount + 1
    BY <2>2, AllLocked, GroupNames, Owners
  <2> QED BY <2>1, <2>3, ReportNotBegun
<1>5. CASE ReportLock
  <2>1. /\ UNCHANGED <<groups, call>> /\ report.locks <= ShardCount
        /\ report'.locks = report.locks + 1 /\ report'.counted = report.counted
        /\ report'.unit = report.unit /\ report'.slot = report.slot /\ report'.used = report.used
        /\ report'.atMost = Cardinality({b \in Boxes : HasSlot(b)})
    BY <1>0, <1>5 DEF ReportLock, ReportType
  <2>2. report.counted = 0 /\ report.unit = 1 /\ report.slot = 0 /\ report.used = 0
    BY <1>0, <2>1, AllocAssumption DEF ReportInOrder, ReportType, Slots
  <2>3. ASSUME NEW b \in Boxes
        PROVE  ~Passed(b)'
    <3>1. \A h \in Groups : \A l \in DOMAIN groups[h].units, j \in Slots : ~HasRead(h, l, j)'
      <4>1. \A h \in Groups : \A l \in DOMAIN groups[h].units : h \in Nat /\ l \in Nat /\ l >= 1
        BY <1>0, GroupFacts DEF Groups
      <4>2. \A j \in Slots : j \in Nat
        BY AllocAssumption DEF Slots
      <4> QED BY <2>1, <2>2, <4>1, <4>2 DEF HasRead
    <3> QED BY <2>1, <3>1, CallFacts DEF Passed
  <2>4. Behind' = {} /\ Ahead' = {b \in Boxes : HasSlot(b)}
    BY <2>1, <2>3 DEF Behind, Ahead, HasSlot
  <2>5. /\ Cardinality({b \in Boxes : HasSlot(b)}) \in Nat /\ Cardinality({}) = 0
    BY BoxesFinite, FS_EmptySet
  <2>6. Cardinality(Behind') <= report'.used /\ report'.used + Cardinality(Ahead') <= report'.atMost
    BY <2>1, <2>2, <2>4, <2>5
  <2> QED BY <1>0, <2>1, <2>2, <2>6 DEF ReportInOrder
<1>6. CASE ReportDone
  <2>1. report' = NoReport
    BY <1>6 DEF ReportDone
  <2> QED BY <1>0, <2>1 DEF NoReport, ReportInOrder
<1> QED BY <1>1, <1>2, <1>3, <1>4, <1>5, <1>6, ReportFlagCounts, ReportGroupCounts
        DEF AllocNext, ReportStep

LEMMA ReportExact ==
  AllocInv /\ ReportInOrder => ReportIsExact
<1> SUFFICES ASSUME AllocInv, ReportInOrder, report.counted = ShardCount + 1
             PROVE  Cardinality({b \in Boxes : HasSlot(b)}) <= report.used /\ report.used <= report.atMost
  BY DEF ReportIsExact
<1> USE DEF AllocInv
<1>0. report \in ReportType /\ ShardCount \in Nat \ {0}
  BY UpkeepTyped, AllocAssumption
<1>1. report.locks = ShardCount + 1
  BY <1>0 DEF ReportInOrder
<1>2. \A b \in Boxes : ~call[b].fresh
  BY <1>1, AllLocked
<1>3. \A g \in Groups : g < report.counted
  BY <1>0 DEF Groups
<1>4. \A b \in Boxes : HasSlot(b) => Passed(b)
  <2>1. \A b \in Boxes : HasSlot(b) => \E g \in Groups : Lists(g, call[b].unit)
    BY <1>2, CallFacts DEF ListedAreAllocated
  <2> QED BY <1>3, <2>1 DEF Passed, HasRead, Lists
<1>5. Behind = {b \in Boxes : HasSlot(b)}
  BY <1>4 DEF Behind
<1>6. Cardinality(Ahead) \in Nat
  BY BoxesFinite DEF Ahead
<1>7. report.used \in Nat /\ report.atMost \in Nat
  BY <1>0 DEF ReportType
<1>8. Cardinality(Behind) <= report.used /\ report.used + Cardinality(Ahead) <= report.atMost
  BY <1>1 DEF ReportInOrder
<1>9. report.used <= report.atMost
  BY <1>6, <1>7, <1>8
<1> QED BY <1>5, <1>8, <1>9

\* get_status_report counts every used slot once, whatever group maintenance has
\* moved its unit to, and counts no slot that was never in use while it counted.
THEOREM ReportsAreExact == AllocSpec => []ReportIsExact
<1>1. AllocInit => ReportInOrder
  BY AllocAssumption DEF AllocInit, NoReport, ReportInOrder
<1> QED BY <1>1, AllocInvInit, AllocInvNext, ReportNext, ReportExact, PTL DEF AllocSpec

-----------------------------------------------------------------------------
(***************************************************************************)
(* The collector's loop.  A sender is in one place: in the queue, where no *)
(* iteration has begun since the push, or in the batch of the iteration    *)
(* that took it, or its message is in the channel.                         *)
(***************************************************************************)
QueueInOrder ==
  \A k \in DOMAIN queue :
    /\ wpc[queue[k]] \in {"unpark", "recv"}
    /\ served[queue[k]] = "no"
    /\ queue[k] \notin sent
    /\ \A l \in DOMAIN queue : queue[k] = queue[l] => k = l

BatchInOrder ==
  /\ \A k \in DOMAIN batch :
       /\ lpc \in {"update", "notify"}
       /\ wpc[batch[k]] = "recv"
       /\ lpc = "update" => served[batch[k]] = "begun" /\ deepUpdate
       /\ lpc = "notify" => served[batch[k]] = "done"
       /\ batch[k] \notin sent
       /\ \A l \in DOMAIN batch : batch[k] = batch[l] => k = l

CallersInOrder ==
  /\ \A w \in sent : wpc[w] = "recv" /\ served[w] = "done"
  /\ \A w \in Waiters : served[w] = "begun" => lpc = "update"
  /\ \A w \in Waiters : wpc[w] = "unpark" => qlock
  /\ \A w, v \in Waiters : wpc[w] = "unpark" /\ wpc[v] = "unpark" => w = v

LoopInv == LoopTypeOK /\ QueueInOrder /\ BatchInOrder /\ CallersInOrder

\* The senders in the queue and in the batch.
LEMMA LoopFacts ==
  ASSUME LoopTypeOK
  PROVE  /\ DOMAIN queue = 1 .. Len(queue) /\ Len(queue) \in Nat
         /\ \A k \in DOMAIN queue : queue[k] \in Waiters
         /\ DOMAIN batch = 1 .. Len(batch) /\ Len(batch) \in Nat
         /\ \A k \in DOMAIN batch : batch[k] \in Waiters
<1>1. queue \in Seq(Waiters) /\ batch \in Seq(Waiters)
  BY DEF LoopTypeOK
<1> QED BY <1>1, SeqFacts

LEMMA CallKeeps ==
  ASSUME LoopInv, NEW w \in Waiters, Call(w)
  PROVE  LoopInv'
<1> USE DEF LoopInv, Call
<1>1. LoopTypeOK'
  BY DEF LoopTypeOK
<1>2. /\ \A v \in Waiters : v # w => wpc'[v] = wpc[v]
      /\ wpc[w] = "idle" /\ wpc'[w] = "push"
      /\ lpc' = lpc \/ (lpc = "unborn" /\ lpc' = "take")
  BY DEF LoopTypeOK
<1>3. QueueInOrder'
  BY <1>2, LoopFacts DEF QueueInOrder
<1>4. BatchInOrder'
  BY <1>2, LoopFacts DEF BatchInOrder
<1>5. CallersInOrder'
  BY <1>2 DEF CallersInOrder, LoopTypeOK
<1> QED BY <1>1, <1>3, <1>4, <1>5

LEMMA PushSenderKeeps ==
  ASSUME LoopInv, NEW w \in Waiters, PushSender(w)
  PROVE  LoopInv'
<1> USE DEF LoopInv
<1>0. queue \in Seq(Waiters)
  BY DEF LoopTypeOK
<1>1. PICK c \in Seq(Waiters) : Extends(c, queue, w)
  BY <1>0, AppendFacts, Zenon
<1>2. queue' = c
  BY <1>1, Zenon DEF PushSender, Extends
<1>3. /\ c \in Seq(Waiters) /\ Len(c) = Len(queue) + 1
      /\ \A i \in 1 .. Len(queue) : c[i] = queue[i]
      /\ c[Len(queue) + 1] = w
  BY <1>1, Zenon DEF Extends
<1>4. DOMAIN c = 1 .. Len(queue) + 1 /\ DOMAIN queue = 1 .. Len(queue) /\ Len(queue) \in Nat
  BY <1>0, <1>3, SeqFacts
<1>5. /\ wpc[w] = "push" /\ wpc'[w] = "unpark" /\ served'[w] = "no"
      /\ \A v \in Waiters : v # w => wpc'[v] = wpc[v] /\ served'[v] = served[v]
      /\ ~qlock /\ qlock' = TRUE /\ lpc' = lpc /\ token' = token /\ batch' = batch /\ sent' = sent
      /\ deepUpdate' = deepUpdate
      /\ wpc' \in [Waiters -> {"idle", "push", "unpark", "recv"}]
      /\ served' \in [Waiters -> {"no", "begun", "done"}]
  BY DEF PushSender, LoopTypeOK
<1>6. LoopTypeOK'
  BY <1>2, <1>3, <1>5 DEF LoopTypeOK
<1>7. \A k \in DOMAIN queue : queue[k] # w /\ queue[k] \in Waiters
  BY <1>5, LoopFacts DEF QueueInOrder
<1>8. w \notin sent
  BY <1>5 DEF CallersInOrder
<1>9. QueueInOrder'
  <2> SUFFICES ASSUME NEW k \in DOMAIN c
               PROVE  /\ wpc'[c[k]] \in {"unpark", "recv"}
                      /\ served'[c[k]] = "no"
                      /\ c[k] \notin sent
                      /\ \A l \in DOMAIN c : c[k] = c[l] => k = l
    BY <1>2, <1>5 DEF QueueInOrder
  <2>1. CASE k = Len(queue) + 1
    BY <1>3, <1>4, <1>5, <1>7, <1>8, <2>1
  <2>2. CASE k \in DOMAIN queue
    BY <1>3, <1>4, <1>5, <1>7, <2>2 DEF QueueInOrder
  <2> QED BY <1>4, <2>1, <2>2
<1>10. BatchInOrder'
  BY <1>5, LoopFacts DEF BatchInOrder
<1>11. CallersInOrder'
  BY <1>5, <1>8 DEF CallersInOrder, LoopTypeOK
<1> QED BY <1>6, <1>9, <1>10, <1>11

LEMMA UnparkKeeps ==
  ASSUME LoopInv, NEW w \in Waiters, Unpark(w)
  PROVE  LoopInv'
<1> USE DEF LoopInv, Unpark
<1>1. LoopTypeOK'
  BY DEF LoopTypeOK, TokenAfterUnpark
<1>2. /\ \A v \in Waiters : v # w => wpc'[v] = wpc[v]
      /\ wpc[w] = "unpark" /\ wpc'[w] = "recv"
  BY DEF LoopTypeOK
<1>3. QueueInOrder'
  BY <1>2, LoopFacts DEF QueueInOrder
<1>4. BatchInOrder'
  BY <1>2, LoopFacts DEF BatchInOrder
<1>5. CallersInOrder'
  BY <1>2 DEF CallersInOrder, LoopTypeOK
<1> QED BY <1>1, <1>3, <1>4, <1>5

LEMMA ReceiveKeeps ==
  ASSUME LoopInv, NEW w \in Waiters, Receive(w)
  PROVE  LoopInv'
<1> USE DEF LoopInv, Receive
<1>1. LoopTypeOK'
  BY DEF LoopTypeOK
<1>2. /\ \A v \in Waiters : v # w => wpc'[v] = wpc[v]
      /\ w \in sent /\ wpc'[w] = "idle"
  BY DEF LoopTypeOK
<1>3. QueueInOrder'
  BY <1>2, LoopFacts DEF QueueInOrder
<1>4. BatchInOrder'
  BY <1>2, LoopFacts DEF BatchInOrder
<1>5. CallersInOrder'
  BY <1>2 DEF CallersInOrder, LoopTypeOK
<1> QED BY <1>1, <1>3, <1>4, <1>5

LEMMA TakeWaitersKeeps ==
  ASSUME LoopInv, TakeWaiters
  PROVE  LoopInv'
<1> USE DEF LoopInv
<1>1. /\ lpc = "take" /\ lpc' = "update" /\ ~qlock /\ batch' = queue /\ queue' = <<>>
      /\ qlock' = qlock /\ token' = token /\ wpc' = wpc /\ sent' = sent
      /\ deepUpdate' \in BOOLEAN /\ (deepUpdate' <=> queue # <<>>)
  BY DEF TakeWaiters, DeepIfWaiting
<1>2. /\ served' \in [Waiters -> {"no", "begun", "done"}]
      /\ \A w \in Waiters : wpc[w] = "recv" /\ served[w] = "no" => served'[w] = "begun"
      /\ \A w \in Waiters : ~(wpc[w] = "recv" /\ served[w] = "no") => served'[w] = served[w]
  BY DEF TakeWaiters, LoopTypeOK
<1>3. queue \in Seq(Waiters) /\ <<>> \in Seq(Waiters) /\ DOMAIN <<>> = {}
  BY DEF LoopTypeOK
<1>4. LoopTypeOK'
  BY <1>1, <1>2, <1>3 DEF LoopTypeOK
<1>5. QueueInOrder'
  BY <1>1, <1>3 DEF QueueInOrder
<1>6. \A k \in DOMAIN queue : wpc[queue[k]] = "recv"
  BY <1>1, LoopFacts DEF QueueInOrder, CallersInOrder
<1>7. BatchInOrder'
  <2>1. \A k \in DOMAIN queue : deepUpdate'
    BY <1>1, <1>3
  <2> QED BY <1>1, <1>2, <1>6, <2>1, LoopFacts DEF QueueInOrder, BatchInOrder
<1>8. CallersInOrder'
  BY <1>1, <1>2 DEF CallersInOrder, LoopTypeOK
<1> QED BY <1>4, <1>5, <1>7, <1>8

LEMMA EndUpdateKeeps ==
  ASSUME LoopInv, EndUpdate
  PROVE  LoopInv'
<1> USE DEF LoopInv
<1>1. /\ lpc = "update" /\ lpc' = "notify" /\ batch' = batch /\ queue' = queue
      /\ qlock' = qlock /\ token' = token /\ wpc' = wpc /\ sent' = sent /\ deepUpdate' = FALSE
  BY DEF EndUpdate
<1>2. /\ served' \in [Waiters -> {"no", "begun", "done"}]
      /\ \A w \in Waiters : served[w] = "begun" => served'[w] = IF deepUpdate THEN "done" ELSE "no"
      /\ \A w \in Waiters : served[w] # "begun" => served'[w] = served[w]
  BY DEF EndUpdate, Ended, LoopTypeOK
<1>4. LoopTypeOK'
  BY <1>1, <1>2 DEF LoopTypeOK
<1>5. QueueInOrder'
  BY <1>1, <1>2, LoopFacts DEF QueueInOrder
<1>7. BatchInOrder'
  BY <1>1, <1>2, LoopFacts DEF BatchInOrder
<1>8. CallersInOrder'
  BY <1>1, <1>2 DEF CallersInOrder, LoopTypeOK
<1> QED BY <1>4, <1>5, <1>7, <1>8

\* What Head and Tail are.
LEMMA TailFacts ==
  ASSUME NEW S, NEW q \in Seq(S), q # <<>>
  PROVE  \E c \in Seq(S) :
           /\ c = Tail(q) /\ Head(q) = q[1]
           /\ Len(c) = Len(q) - 1
           /\ \A i \in 1 .. Len(q) - 1 : c[i] = q[i + 1]
<1>1. Tail(q) \in Seq(S) /\ Head(q) = q[1]
  OBVIOUS
<1>2. Len(Tail(q)) = Len(q) - 1
  OBVIOUS
<1>3. \A i \in 1 .. Len(q) - 1 : Tail(q)[i] = q[i + 1]
  OBVIOUS
<1> QED BY <1>1, <1>2, <1>3, Zenon

LEMMA NotifyKeeps ==
  ASSUME LoopInv, Notify
  PROVE  LoopInv'
<1> USE DEF LoopInv
<1>0. batch \in Seq(Waiters) /\ batch # <<>>
  BY DEF LoopTypeOK, Notify
<1>1. PICK c \in Seq(Waiters) :
        /\ c = Tail(batch) /\ Head(batch) = batch[1] /\ Len(c) = Len(batch) - 1
        /\ \A i \in 1 .. Len(batch) - 1 : c[i] = batch[i + 1]
  BY <1>0, TailFacts
<1>2. batch' = c /\ sent' = sent \cup {batch[1]}
  BY <1>1, Zenon DEF Notify
<1>3. /\ c \in Seq(Waiters) /\ Len(c) = Len(batch) - 1
      /\ \A i \in 1 .. Len(batch) - 1 : c[i] = batch[i + 1]
  BY <1>1, Zenon
<1>4. /\ DOMAIN c = 1 .. Len(batch) - 1 /\ DOMAIN batch = 1 .. Len(batch)
      /\ Len(batch) \in Nat /\ 1 \in DOMAIN batch
      /\ \A k \in DOMAIN batch : batch[k] \in Waiters
  <2>1. DOMAIN c = 1 .. Len(c)
    BY <1>3, SeqFacts
  <2> QED BY <1>0, <1>3, <2>1, SeqFacts
<1>5. /\ lpc = "notify" /\ lpc' = lpc /\ queue' = queue /\ qlock' = qlock /\ token' = token
      /\ wpc' = wpc /\ served' = served /\ deepUpdate' = deepUpdate
  BY DEF Notify
<1>6. LoopTypeOK'
  BY <1>2, <1>3, <1>4, <1>5 DEF LoopTypeOK
<1>7. batch[1] \in Waiters /\ wpc[batch[1]] = "recv" /\ served[batch[1]] = "done"
  BY <1>4, <1>5 DEF BatchInOrder
<1>8. QueueInOrder'
  BY <1>2, <1>5, <1>7 DEF QueueInOrder
<1>9. BatchInOrder'
  <2>1. \A k \in DOMAIN c : k + 1 \in DOMAIN batch /\ c[k] = batch[k + 1] /\ k + 1 # 1 /\ k \in Int
    BY <1>3, <1>4
  <2>2. \A k \in DOMAIN c : c[k] # batch[1] /\ c[k] \notin sent
    BY <1>4, <2>1 DEF BatchInOrder
  <2>3. \A k, l \in DOMAIN c : c[k] = c[l] => k = l
    <3>1. \A k, l \in DOMAIN c : c[k] = c[l] => k + 1 = l + 1
      BY <2>1 DEF BatchInOrder
    <3> QED BY <2>1, <3>1
  <2>4. \A k \in DOMAIN c : wpc[c[k]] = "recv" /\ served[c[k]] = "done"
    BY <1>5, <2>1 DEF BatchInOrder
  <2> QED BY <1>2, <1>5, <2>2, <2>3, <2>4 DEF BatchInOrder
<1>10. CallersInOrder'
  BY <1>2, <1>5, <1>7 DEF CallersInOrder
<1> QED BY <1>6, <1>8, <1>9, <1>10

\* Parking and waking up.
LEMMA ParkingKeeps ==
  ASSUME LoopInv, Park \/ Wake \/ Timeout
  PROVE  LoopInv'
<1> USE DEF LoopInv
<1>1. /\ lpc \notin {"update"} /\ lpc' \in {"park", "take"}
      /\ batch' = batch /\ queue' = queue /\ qlock' = qlock /\ token' \in BOOLEAN
      /\ wpc' = wpc /\ sent' = sent /\ served' = served /\ deepUpdate' = deepUpdate
  BY DEF Park, Wake, Timeout, LoopTypeOK
<1>2. LoopTypeOK'
  BY <1>1 DEF LoopTypeOK
<1>3. DOMAIN batch = {}
  <2>1. CASE Park
    <3>1. DOMAIN <<>> = {}
      OBVIOUS
    <3> QED BY <2>1, <3>1 DEF Park
  <2>2. CASE Wake \/ Timeout
    BY <2>2 DEF Wake, Timeout, BatchInOrder
  <2> QED BY <2>1, <2>2
<1>4. QueueInOrder'
  BY <1>1 DEF QueueInOrder
<1>5. BatchInOrder'
  BY <1>1, <1>3 DEF BatchInOrder
<1>6. CallersInOrder'
  BY <1>1 DEF CallersInOrder, LoopTypeOK
<1> QED BY <1>2, <1>4, <1>5, <1>6

\* What a step does to the loop.
LEMMA LoopSteps ==
  ASSUME [Next]_vars
  PROVE  \/ UNCHANGED loopVars
         \/ \E w \in Waiters : Call(w) \/ PushSender(w) \/ Unpark(w) \/ Receive(w)
         \/ TakeWaiters \/ EndUpdate \/ Notify \/ Park \/ Wake \/ Timeout
BY Zenon DEF Next, vars, CollectorStep, StartMaintenance, SkipMaintenance, Maintain, LogStatus,
   FinishUpdate, LoopStep, TimeoutStep, CallStep, WaiterThreadStep, WaiterStep, BoxThreadStep,
   UserThreadStep

LEMMA LoopNext ==
  LoopInv /\ [Next]_vars => LoopInv'
<1> SUFFICES ASSUME LoopInv, [Next]_vars
             PROVE  LoopInv'
  OBVIOUS
<1>1. CASE UNCHANGED loopVars
  BY <1>1 DEF loopVars, LoopInv, LoopTypeOK, QueueInOrder, BatchInOrder, CallersInOrder
<1> QED BY <1>1, LoopSteps, CallKeeps, PushSenderKeeps, UnparkKeeps, ReceiveKeeps,
           TakeWaitersKeeps, EndUpdateKeeps, NotifyKeeps, ParkingKeeps

LEMMA LoopStart ==
  Init => LoopInv
<1> SUFFICES ASSUME LoopInit
             PROVE  LoopInv
  BY DEF Init
<1>1. queue = <<>> /\ batch = <<>> /\ <<>> \in Seq(Waiters) /\ DOMAIN <<>> = {}
  BY DEF LoopInit
<1>2. LoopTypeOK
  BY <1>1 DEF LoopInit, LoopTypeOK
<1>3. QueueInOrder /\ BatchInOrder
  BY <1>1 DEF QueueInOrder, BatchInOrder
<1>4. CallersInOrder
  BY DEF LoopInit, CallersInOrder
<1> QED BY <1>2, <1>3, <1>4 DEF LoopInv

\* A call of collector_update_now_and_wait is answered only after a deep iteration
\* that began after its push has ended, for any number of callers.
THEOREM CallersAreServed == Spec => []ServedByDeepIteration
<1>1. LoopInv => ServedByDeepIteration
  BY DEF LoopInv, CallersInOrder, ServedByDeepIteration
<1> QED BY <1>1, LoopStart, LoopNext, PTL DEF Spec

-----------------------------------------------------------------------------
(***************************************************************************)
(* Maintenance visits every unit.  A unit that is empty and stays so is    *)
(* ahead of maintenance in every exchange of groups, until it is returned. *)
(***************************************************************************)
\* A step of the whole is one of the allocator, or leaves it alone.
LEMMA AllocSteps ==
  ASSUME [Next]_vars
  PROVE  [AllocNext]_allocVars
BY Zenon DEF Next, vars, CollectorStep, StartMaintenance, SkipMaintenance, Maintain, LogStatus,
   FinishUpdate, LoopStep, TimeoutStep, CallStep, WaiterThreadStep, BoxThreadStep,
   UserThreadStep, AllocNext

\* Maintenance has not gone past unit u.
Unvisited(u) ==
  \A g \in Groups : \A k \in DOMAIN groups[g].units : groups[g].units[k] = u =>
    /\ g >= upkeep.shard
    /\ upkeep.pc = "retain" /\ g = Temp => k >= upkeep.unit
    /\ upkeep.pc \in {"index", "in"} => g # Temp

\* What an empty unit is.
LEMMA EmptyFacts ==
  ASSUME NEW u \in EmptyUnits
  PROVE  /\ u \in Units
         /\ \E g \in Groups : Lists(g, u)
         /\ \A i \in Slots : mem[u][UsageFlag(i)] = 0
BY DEF EmptyUnits, Lists

\* Allocations only add units that were in no group.
LEMMA BoxUnits ==
  ASSUME AllocInv, NEW b \in Boxes, BoxStep(b) \/ UserStep(b),
         NEW g \in Groups, NEW k \in DOMAIN groups'[g].units
  PROVE  \/ k \in DOMAIN groups[g].units /\ groups'[g].units[k] = groups[g].units[k]
         \/ \A h \in Groups : ~Lists(h, groups'[g].units[k])
<1> USE DEF AllocInv
<1>0. groups \in [Groups -> GroupType] /\ call[b].shard \in Groups
  BY CallFacts, GroupNames DEF AllocTypeOK, GroupType
<1>1. CASE UNCHANGED groups
  BY <1>1
<1>2. CASE Claim(b)
  <2>1. groups' = groups \/ \E q : groups' = [groups EXCEPT ![call[b].shard].toCheck = q]
    BY <1>2, Zenon DEF Claim
  <2>2. ASSUME NEW q, groups' = [groups EXCEPT ![call[b].shard].toCheck = q]
        PROVE  groups'[g].units = groups[g].units
    <3>1. groups[call[b].shard] \in GroupType
      BY <1>0
    <3>2. groups' = [groups EXCEPT ![call[b].shard] = [groups[call[b].shard] EXCEPT !.toCheck = q]]
      BY <2>2, Zenon
    <3>3. [groups[call[b].shard] EXCEPT !.toCheck = q].units = groups[call[b].shard].units
      BY <3>1 DEF GroupType
    <3> QED BY <1>0, <3>2, <3>3
  <2>3. groups'[g].units = groups[g].units
    BY <2>1, <2>2
  <2> QED BY <2>3
<1>3. CASE Initialise(b)
  <2> DEFINE s == call[b].shard
             u == call[b].unit
  <2>1. call[b].pc = "init" /\ groups' = [groups EXCEPT ![s] = WithUnit(groups[s], call[b])]
    BY <1>3 DEF Initialise
  <2>2. CASE call[b].fresh
    <3>1. \A h \in Groups : ~Lists(h, u)
      BY <2>2 DEF FreshIsApart
    <3>2. groups[s].units \in Seq(Units) /\ u \in Units
      BY <1>0, <2>1, GroupFacts, CallFacts
    <3>a. PICK q \in Seq(Units), v \in Units : q = groups[s].units /\ v = u
      BY <3>2
    <3>b. PICK c \in Seq(Units) : Extends(c, q, v)
      BY AppendFacts, Zenon
    <3>3. /\ c = Append(groups[s].units, u)
          /\ Len(c) = Len(groups[s].units) + 1
          /\ \A i \in 1 .. Len(groups[s].units) : c[i] = groups[s].units[i]
          /\ c[Len(groups[s].units) + 1] = u
      BY <3>a, <3>b, Zenon DEF Extends
    <3>4. \E r : WithUnit(groups[s], call[b]) = [units |-> c, toCheck |-> r]
      BY <2>2, <3>3, Zenon DEF WithUnit
    <3>5. PICK r : WithUnit(groups[s], call[b]) = [units |-> c, toCheck |-> r]
      BY <3>4
    <3>6. groups'[s].units = c /\ \A h \in Groups \ {s} : groups'[h] = groups[h]
      BY <1>0, <2>1, <3>5
    <3>7. /\ Len(c) = Len(groups[s].units) + 1
          /\ \A i \in 1 .. Len(groups[s].units) : c[i] = groups[s].units[i]
          /\ c[Len(groups[s].units) + 1] = u
      BY <3>3, Zenon
    <3>8. /\ DOMAIN c = 1 .. Len(groups[s].units) + 1 /\ Len(groups[s].units) \in Nat
          /\ DOMAIN groups[s].units = 1 .. Len(groups[s].units)
      <4>1. DOMAIN c = 1 .. Len(c)
        BY SeqFacts
      <4> QED BY <1>0, <3>7, <4>1, GroupFacts
    <3> HIDE DEF s, u
    <3>9. CASE g = s /\ k = Len(groups[s].units) + 1
      BY <3>1, <3>6, <3>7, <3>9
    <3>10. CASE g = s /\ k # Len(groups[s].units) + 1
      <4>1. k \in 1 .. Len(groups[s].units)
        BY <3>6, <3>8, <3>10
      <4> QED BY <3>6, <3>7, <3>8, <3>10, <4>1
    <3>11. CASE g # s
      BY <3>6, <3>11
    <3> QED BY <3>9, <3>10, <3>11
  <2>3. CASE ~call[b].fresh
    BY <1>0, <2>1, <2>3 DEF WithUnit
  <2> QED BY <2>2, <2>3
<1> QED BY <1>1, <1>2, <1>3 DEF BoxStep, UserStep, LockShard, NewUnit, OutOfMemory, TryUnit,
           InitPanics, Allocate, DropValues, Deallocate

\* Positions of u and the progress of maintenance stay.
LEMMA UnvisitedKept ==
  ASSUME NEW u, Unvisited(u), UNCHANGED upkeep,
         \A g \in Groups : \A k \in DOMAIN groups'[g].units : groups'[g].units[k] = u =>
           k \in DOMAIN groups[g].units /\ groups[g].units[k] = u
  PROVE  Unvisited(u)'
BY DEF Unvisited

\* retain_mut goes on to a unit, or removes one.
LEMMA RetainVisits ==
  ASSUME AllocInv, Retain, NEW u \in EmptyUnits, Unvisited(u)
  PROVE  Unvisited(u)'
<1> USE DEF AllocInv
<1> DEFINE q == groups[Temp].units
           k == upkeep.unit
           used == mem[q[k]][UsageFlag(upkeep.slot)] = 1
<1>1. /\ upkeep.pc = "retain" /\ k <= Len(q) /\ Temp \in Groups
      /\ k \in 1 .. Len(q) /\ k \in Nat /\ Len(q) \in Nat /\ DOMAIN q = 1 .. Len(q)
      /\ q \in Seq(Units) /\ upkeep.slot \in Slots /\ upkeep \in UpkeepType
      /\ groups \in [Groups -> GroupType]
  <2>1. upkeep.pc = "retain" /\ k <= Len(q) /\ Temp \in Groups
    BY GroupNames DEF Retain
  <2>2. k \in Nat /\ k >= 1 /\ upkeep.slot \in Slots /\ upkeep \in UpkeepType
    BY UpkeepTyped DEF UpkeepType, MaintenanceInOrder
  <2>3. groups \in [Groups -> GroupType]
    BY DEF AllocTypeOK, GroupType
  <2> QED BY <2>1, <2>2, <2>3, GroupFacts
<1>2. \A l \in DOMAIN q : q[l] = u => l >= k
  BY <1>1 DEF Unvisited
<1>3. CASE ~used /\ IsLastSlot(upkeep.slot)
  <2>1. /\ groups' = [groups EXCEPT ![Temp] = [groups[Temp] EXCEPT !.units = RemoveAt(q, k)]]
        /\ upkeep' = [upkeep EXCEPT !.slot = 0]
    BY <1>3 DEF Retain
  <2>2. upkeep'.pc = upkeep.pc /\ upkeep'.unit = k /\ upkeep'.shard = upkeep.shard
    BY <1>1, <2>1 DEF UpkeepType
  <2> HIDE DEF q, k
  <2>3. PICK c \in Seq(Units) :
          /\ c = RemoveAt(q, k)
          /\ Len(c) = Len(q) - 1
          /\ \A i \in 1 .. Len(q) - 1 : c[i] = IF i < k THEN q[i] ELSE q[i + 1]
    <3>1. q \in Seq(Units) /\ k \in 1 .. Len(q)
      BY <1>1
    <3> QED BY <3>1, RemoveAtFacts
  <2>4. Len(c) = Len(q) - 1 /\ \A i \in 1 .. Len(q) - 1 : c[i] = IF i < k THEN q[i] ELSE q[i + 1]
    BY <2>3, Zenon
  <2>5. DOMAIN c = 1 .. Len(q) - 1
    BY <2>4, SeqFacts
  <2>6. groups'[Temp].units = c /\ \A g \in Groups \ {Temp} : groups'[g] = groups[g]
    <3>1. groups' = [groups EXCEPT ![Temp] = [groups[Temp] EXCEPT !.units = c]]
      BY <2>1, <2>3, Zenon
    <3> QED BY <1>1, <3>1 DEF GroupType
  <2>7. \A i \in DOMAIN c : c[i] = u => i >= k
    BY <1>1, <1>2, <2>4, <2>5
  <2>8. ASSUME NEW i \in DOMAIN c, c[i] = u
        PROVE  \E l \in DOMAIN q : q[l] = u
    <3>1. i \in DOMAIN q /\ i + 1 \in DOMAIN q
      BY <1>1, <2>5
    <3> QED BY <2>4, <2>5, <2>8, <3>1
  <2> QED BY <1>1, <2>2, <2>6, <2>7, <2>8 DEF Unvisited, q, k
<1>4. CASE used
  <2>1. groups' = groups /\ upkeep' = [upkeep EXCEPT !.unit = k + 1, !.slot = 0]
    BY <1>4 DEF Retain
  <2>2. upkeep'.pc = upkeep.pc /\ upkeep'.unit = k + 1 /\ upkeep'.shard = upkeep.shard
    BY <1>1, <2>1 DEF UpkeepType
  <2>3. q[k] # u
    BY <1>1, <1>4, EmptyFacts
  <2>4. \A l \in DOMAIN q : q[l] = u => l >= k + 1
    BY <1>1, <1>2, <2>3
  <2> QED BY <1>1, <2>1, <2>2, <2>4 DEF Unvisited
<1>5. CASE ~used /\ ~IsLastSlot(upkeep.slot)
  <2>1. groups' = groups /\ upkeep' = [upkeep EXCEPT !.slot = upkeep.slot + 1]
    BY <1>5 DEF Retain
  <2>2. upkeep'.pc = upkeep.pc /\ upkeep'.unit = k /\ upkeep'.shard = upkeep.shard
    BY <1>1, <2>1 DEF UpkeepType
  <2> QED BY <2>1, <2>2 DEF Unvisited
<1> QED BY <1>3, <1>4, <1>5

\* The exchanges of a group.
LEMMA SwapVisits ==
  ASSUME AllocInv, SwapOut \/ SwapIn, NEW u \in EmptyUnits, Unvisited(u)
  PROVE  Unvisited(u)' /\ upkeep'.pc # "idle"
<1> USE DEF AllocInv
<1>1. PICK s \in Shards : s = upkeep.shard
  BY DEF SwapOut, SwapIn, MaintenanceInOrder
<1>2. /\ s \in Groups /\ Temp \in Groups /\ s # Temp /\ Temp >= s + 1 /\ s \in Nat
      /\ Groups \subseteq Nat
  BY GroupNames, AllocAssumption DEF Temp, Shards, Groups
<1>3. groups \in [Groups -> GroupType] /\ upkeep \in UpkeepType
  BY UpkeepTyped DEF AllocTypeOK, GroupType
<1>4. Exchange(s)
  BY <1>1 DEF SwapOut, SwapIn, Exchange
<1>5. /\ groups'[s] = groups[Temp] /\ groups'[Temp] = groups[s]
      /\ \A g \in Groups \ {s, Temp} : groups'[g] = groups[g]
  BY <1>2, <1>3, <1>4 DEF Exchange
<1>6. \A k \in DOMAIN groups[s].units : k >= 1
  BY <1>2, GroupFacts
<1>7. CASE SwapOut
  <2>1. upkeep'.pc = "retain" /\ upkeep'.unit = 1 /\ upkeep'.shard = s
    BY <1>1, <1>3, <1>7 DEF SwapOut, UpkeepType
  <2> QED BY <1>1, <1>2, <1>5, <1>6, <2>1 DEF Unvisited
<1>8. CASE SwapIn
  <2>1. /\ upkeep.pc = "in" /\ upkeep'.pc \in {"retain", "out"} /\ upkeep'.unit = 1
        /\ upkeep'.shard = s + 1
    BY <1>1, <1>3, <1>8 DEF SwapIn, UpkeepType, AfterShard, MaintenanceInOrder
  <2>2. \A k \in DOMAIN groups[Temp].units : groups[Temp].units[k] # u
    BY <1>2, <2>1 DEF Unvisited
  <2>3. \A g \in Groups \ {s, Temp} : \A k \in DOMAIN groups[g].units :
          groups[g].units[k] = u => g >= s + 1
    <3>1. \A g \in Groups \ {s, Temp} : \A k \in DOMAIN groups[g].units :
            groups[g].units[k] = u => g >= s
      BY <1>1 DEF Unvisited
    <3> QED BY <1>2, <3>1
  <2> QED BY <1>2, <1>5, <1>6, <2>1, <2>2, <2>3 DEF Unvisited
<1> QED BY <1>7, <1>8

\* The other steps of maintenance.
LEMMA IndexVisits ==
  ASSUME AllocInv, EndRetain \/ IndexUnit \/ EndIndex, NEW u \in EmptyUnits, Unvisited(u)
  PROVE  Unvisited(u)' /\ upkeep'.pc # "idle"
<1> USE DEF AllocInv
<1>1. groups \in [Groups -> GroupType] /\ upkeep \in UpkeepType /\ Temp \in Groups
  BY UpkeepTyped, GroupNames DEF AllocTypeOK, GroupType
<1>2. \A g \in Groups : groups'[g].units = groups[g].units
  <2>1. groups' = groups \/ \E r : groups' = [groups EXCEPT ![Temp].toCheck = r]
    BY Zenon DEF EndRetain, IndexUnit, EndIndex
  <2> QED BY <1>1, <2>1 DEF GroupType
<1>3. upkeep'.shard = upkeep.shard /\ upkeep'.pc \in {"index", "in"}
  BY <1>1 DEF EndRetain, IndexUnit, EndIndex, UpkeepType
<1>4. \A k \in DOMAIN groups[Temp].units : groups[Temp].units[k] # u
  <2>1. CASE EndRetain
    <3>1. /\ upkeep.pc = "retain" /\ upkeep.unit > Len(groups[Temp].units) /\ upkeep.unit \in Nat
          /\ DOMAIN groups[Temp].units = 1 .. Len(groups[Temp].units)
          /\ Len(groups[Temp].units) \in Nat
      BY <1>1, <2>1, GroupFacts DEF EndRetain, UpkeepType
    <3>2. \A k \in DOMAIN groups[Temp].units : groups[Temp].units[k] = u => k >= upkeep.unit
      BY <1>1, <3>1 DEF Unvisited
    <3> QED BY <3>1, <3>2
  <2>2. CASE IndexUnit \/ EndIndex
    BY <1>1, <2>2 DEF IndexUnit, EndIndex, Unvisited
  <2> QED BY <2>1, <2>2
<1> QED BY <1>1, <1>2, <1>3, <1>4 DEF Unvisited

\* When maintenance ends no empty unit is ahead of it.
LEMMA EndVisits ==
  ASSUME AllocInv, EndMaintenance, NEW u \in EmptyUnits, Unvisited(u)
  PROVE  FALSE
<1>1. PICK g \in Groups : Lists(g, u)
  BY EmptyFacts
<1>2. PICK k \in DOMAIN groups[g].units : groups[g].units[k] = u
  BY <1>1 DEF Lists
<1>3. g >= ShardCount /\ g # Temp
  BY <1>2 DEF Unvisited, EndMaintenance
<1> QED BY <1>3, AllocAssumption DEF Groups, Temp

\* Whatever the allocator does, an empty unit stays ahead of maintenance.
LEMMA StaysUnvisited ==
  ASSUME AllocInv, [AllocNext]_allocVars, upkeep.pc # "idle", upkeep'.pc # "idle",
         NEW u \in EmptyUnits, Unvisited(u)
  PROVE  Unvisited(u)'
<1>1. CASE UNCHANGED <<groups, upkeep>>
  BY <1>1, UnvisitedKept
<1>2. ASSUME NEW b \in Boxes, BoxStep(b) \/ UserStep(b)
      PROVE  Unvisited(u)'
  <2>1. UNCHANGED upkeep
    BY <1>2 DEF BoxStep, UserStep, LockShard, NewUnit, OutOfMemory, TryUnit, Claim, Initialise,
                InitPanics, Allocate, DropValues, Deallocate
  <2>2. \A g \in Groups : \A k \in DOMAIN groups'[g].units : groups'[g].units[k] = u =>
          k \in DOMAIN groups[g].units /\ groups[g].units[k] = u
    BY <1>2, BoxUnits, EmptyFacts
  <2> QED BY <2>1, <2>2, UnvisitedKept
<1>3. CASE MaintenanceStep
  <2>1. ~EndMaintenance
    BY UpkeepTyped DEF AllocInv, EndMaintenance, UpkeepType
  <2> QED BY <1>3, <2>1, RetainVisits, SwapVisits, IndexVisits DEF MaintenanceStep
<1>4. CASE UNCHANGED allocVars
  BY <1>1, <1>4 DEF allocVars
<1>5. CASE ReportStep
  BY <1>1, <1>5 DEF ReportStep, ReportLock, ReportFlag, ReportGroup, ReportDone
<1>6. ~BeginMaintenance
  BY DEF BeginMaintenance
<1> QED BY <1>2, <1>3, <1>4, <1>5, <1>6 DEF AllocNext

-----------------------------------------------------------------------------
StageType == {"collect", "maintain", "maintained", "log", "logged"}

StagesInOrder ==
  /\ disabled \in BOOLEAN
  /\ stage \in StageType
  /\ lpc # "update" => stage = "collect"
  /\ stage = "maintain" <=> upkeep.pc # "idle"

DueAreEmpty ==
  /\ due \in [Waiters -> SUBSET Units]
  /\ \A w \in Waiters : due[w] \subseteq EmptyUnits

\* In an iteration that began after the push, what is due is ahead of
\* maintenance, and nothing is due any more when maintenance is over.
DueInOrder ==
  \A w \in Waiters : ~disabled =>
    /\ served[w] = "begun" /\ stage = "maintain" => \A u \in due[w] : Unvisited(u)
    /\ served[w] = "begun" /\ stage \in {"maintained", "log", "logged"} => due[w] = {}
    /\ served[w] = "done" => due[w] = {}

UpkeepInv == AllocInv /\ LoopInv /\ StagesInOrder /\ DueAreEmpty /\ DueInOrder

\* Track keeps what is still empty.
LEMMA TrackFacts ==
  ASSUME DueAreEmpty, Track
  PROVE  /\ DueAreEmpty'
         /\ \A w \in Waiters : due'[w] \subseteq due[w]
<1>1. \A w \in Waiters : due'[w] = due[w] \cap EmptyUnits'
  BY DEF Track
<1>2. due' \in [Waiters -> SUBSET Units]
  BY DEF Track, DueAreEmpty
<1> QED BY <1>1, <1>2 DEF DueAreEmpty

\* Steps during which update() stays where it is.
LEMMA DueKept ==
  ASSUME AllocInv, StagesInOrder, DueAreEmpty, DueInOrder, [AllocNext]_allocVars,
         UNCHANGED <<disabled, stage>>, upkeep'.pc = "idle" <=> upkeep.pc = "idle",
         lpc' # "update" => stage = "collect",
         \A w \in Waiters : served'[w] # "no" => due'[w] \subseteq due[w],
         \A w \in Waiters : served'[w] = "begun" => served[w] = "begun" \/ stage = "collect",
         \A w \in Waiters : served'[w] = "done" => served[w] = "done"
  PROVE  StagesInOrder' /\ DueInOrder'
<1>1. StagesInOrder'
  BY DEF StagesInOrder
<1>2. ASSUME NEW w \in Waiters, ~disabled, served'[w] = "begun", stage = "maintain", NEW u \in due'[w]
      PROVE  Unvisited(u)'
  <2>1. served[w] = "begun" /\ u \in due[w] /\ upkeep.pc # "idle"
    BY <1>2 DEF StagesInOrder
  <2>2. u \in EmptyUnits /\ Unvisited(u)
    BY <1>2, <2>1 DEF DueAreEmpty, DueInOrder
  <2> QED BY <2>1, <2>2, StaysUnvisited
<1>3. ASSUME NEW w \in Waiters, ~disabled, served'[w] = "begun", stage \in {"maintained", "log", "logged"}
      PROVE  due'[w] = {}
  <2>1. served[w] = "begun" /\ due'[w] \subseteq due[w]
    BY <1>3
  <2> QED BY <1>3, <2>1 DEF DueInOrder
<1>4. ASSUME NEW w \in Waiters, ~disabled, served'[w] = "done"
      PROVE  due'[w] = {}
  <2>1. served[w] = "done" /\ due'[w] \subseteq due[w]
    BY <1>4
  <2> QED BY <1>4, <2>1 DEF DueInOrder
<1> QED BY <1>1, <1>2, <1>3, <1>4 DEF DueInOrder

LEMMA StartMaintenanceKeeps ==
  ASSUME UpkeepInv, StartMaintenance
  PROVE  StagesInOrder' /\ DueAreEmpty' /\ DueInOrder'
<1> USE DEF UpkeepInv
<1>1. /\ DueAreEmpty' /\ \A w \in Waiters : due'[w] \subseteq due[w]
  BY TrackFacts DEF StartMaintenance
<1>2. /\ lpc = "update" /\ stage = "collect" /\ stage' = "maintain" /\ disabled' = disabled
      /\ lpc' = lpc /\ served' = served
  BY DEF StartMaintenance, loopVars
<1>3. upkeep'.pc = "out" /\ upkeep'.shard = 0
  BY UpkeepTyped DEF StartMaintenance, BeginMaintenance, UpkeepType, AllocInv
<1>4. StagesInOrder'
  BY <1>2, <1>3 DEF StagesInOrder, StageType
<1>5. \A u : Unvisited(u)'
  BY <1>3 DEF Unvisited, Groups
<1>6. \A w \in Waiters : ~disabled /\ served[w] = "done" => due'[w] = {}
  BY <1>1 DEF DueInOrder
<1> QED BY <1>1, <1>2, <1>4, <1>5, <1>6 DEF DueInOrder

LEMMA SkipMaintenanceKeeps ==
  ASSUME UpkeepInv, SkipMaintenance
  PROVE  StagesInOrder' /\ DueAreEmpty' /\ DueInOrder'
<1> USE DEF UpkeepInv
<1>1. DueAreEmpty'
  BY TrackFacts DEF SkipMaintenance
<1>2. /\ disabled /\ disabled' = disabled /\ stage = "collect" /\ stage' = "maintained"
      /\ lpc = "update" /\ lpc' = lpc /\ upkeep' = upkeep
  BY DEF SkipMaintenance, loopVars, allocVars
<1> QED BY <1>1, <1>2 DEF StagesInOrder, StageType, DueInOrder

LEMMA MaintainKeeps ==
  ASSUME UpkeepInv, Maintain
  PROVE  StagesInOrder' /\ DueAreEmpty' /\ DueInOrder'
<1> USE DEF UpkeepInv
<1>1. DueAreEmpty' /\ \A w \in Waiters : due'[w] \subseteq due[w]
  BY TrackFacts DEF Maintain
<1>2. /\ stage = "maintain" /\ disabled' = disabled /\ lpc' = lpc /\ served' = served
      /\ MaintenanceStep /\ upkeep.pc # "idle" /\ lpc = "update"
      /\ upkeep'.pc = "idle" => stage' = "maintained"
      /\ upkeep'.pc # "idle" => stage' = stage
  BY DEF Maintain, loopVars, StagesInOrder
<1>3. CASE upkeep'.pc = "idle"
  <2>1. ASSUME NEW u \in EmptyUnits, Unvisited(u)
        PROVE  FALSE
    <3>1. ~Retain
      BY <1>3, UpkeepTyped DEF Retain, UpkeepType, AllocInv
    <3>2. EndMaintenance
      BY <1>2, <1>3, <2>1, <3>1, SwapVisits, IndexVisits DEF MaintenanceStep
    <3> QED BY <2>1, <3>2, EndVisits
  <2>2. \A w \in Waiters : ~disabled /\ served[w] = "begun" => due[w] = {}
    BY <1>2, <2>1 DEF DueInOrder, DueAreEmpty
  <2>3. \A w \in Waiters : ~disabled /\ served[w] \in {"begun", "done"} => due'[w] = {}
    <3>1. \A w \in Waiters : ~disabled /\ served[w] = "done" => due[w] = {}
      BY DEF DueInOrder
    <3> QED BY <1>1, <2>2, <3>1
  <2>4. StagesInOrder'
    BY <1>2, <1>3 DEF StagesInOrder, StageType
  <2> QED BY <1>1, <1>2, <1>3, <2>3, <2>4 DEF DueInOrder
<1>4. CASE upkeep'.pc # "idle"
  <2>1. AllocNext
    BY <1>2 DEF AllocNext
  <2> QED BY <1>1, <1>2, <1>4, <2>1, DueKept
<1> QED BY <1>3, <1>4

LEMMA LogStatusKeeps ==
  ASSUME UpkeepInv, LogStatus
  PROVE  StagesInOrder' /\ DueAreEmpty' /\ DueInOrder'
<1> USE DEF UpkeepInv
<1>1. DueAreEmpty' /\ \A w \in Waiters : due'[w] \subseteq due[w]
  BY TrackFacts DEF LogStatus
<1>2. /\ stage \in {"maintained", "log"} /\ stage' \in {"log", "logged"}
      /\ disabled' = disabled /\ lpc' = lpc /\ served' = served /\ upkeep' = upkeep
  BY DEF LogStatus, loopVars, ReportStep, ReportLock, ReportFlag, ReportGroup, ReportDone
<1>3. StagesInOrder'
  BY <1>2 DEF StagesInOrder, StageType
<1>4. \A w \in Waiters : ~disabled /\ served[w] \in {"begun", "done"} => due[w] = {}
  BY <1>2 DEF DueInOrder
<1>5. \A w \in Waiters : ~disabled /\ served[w] \in {"begun", "done"} => due'[w] = {}
  BY <1>1, <1>4
<1> QED BY <1>1, <1>2, <1>3, <1>5 DEF DueInOrder

LEMMA FinishUpdateKeeps ==
  ASSUME UpkeepInv, FinishUpdate
  PROVE  StagesInOrder' /\ DueAreEmpty' /\ DueInOrder'
<1> USE DEF UpkeepInv
<1>1. DueAreEmpty' /\ \A w \in Waiters : due'[w] \subseteq due[w]
  BY TrackFacts DEF FinishUpdate
<1>2. /\ stage \in {"maintained", "logged"} /\ stage' = "collect"
      /\ disabled' = disabled /\ lpc' = "notify" /\ upkeep' = upkeep
  BY DEF FinishUpdate, EndUpdate, allocVars
<1>3. \A w \in Waiters : served'[w] = "done" => served[w] \in {"begun", "done"}
  BY DEF FinishUpdate, EndUpdate, Ended, LoopInv, LoopTypeOK
<1>4. StagesInOrder'
  BY <1>2 DEF StagesInOrder, StageType
<1>5. \A w \in Waiters : ~disabled /\ served[w] \in {"begun", "done"} => due[w] = {}
  BY <1>2 DEF DueInOrder
<1>6. \A w \in Waiters : ~disabled /\ served'[w] = "done" => due'[w] = {}
  BY <1>1, <1>3, <1>5
<1> QED BY <1>1, <1>2, <1>4, <1>6 DEF DueInOrder

\* The loop around update() and the callers, as far as they let time pass.
LEMMA LoopStepKeeps ==
  ASSUME UpkeepInv, LoopStep \/ TimeoutStep \/ \E w \in Waiters : CallStep(w)
  PROVE  StagesInOrder' /\ DueAreEmpty' /\ DueInOrder'
<1> USE DEF UpkeepInv
<1>1. /\ UNCHANGED allocVars /\ UNCHANGED <<disabled, stage>> /\ Track
      /\ \/ TakeWaiters
         \/ Notify \/ Park \/ Wake \/ Timeout \/ \E w \in Waiters : Call(w)
  BY Zenon DEF LoopStep, TimeoutStep, CallStep
<1>2. DueAreEmpty' /\ \A w \in Waiters : due'[w] \subseteq due[w]
  BY <1>1, TrackFacts
<1>3. upkeep' = upkeep
  BY <1>1 DEF allocVars
<1>4. CASE TakeWaiters
  <2>1. lpc = "take" /\ lpc' = "update"
    BY <1>4 DEF TakeWaiters
  <2>2. stage = "collect"
    BY <2>1 DEF StagesInOrder
  <2>3. \A w \in Waiters : served'[w] = "done" => served[w] = "done"
    BY <1>4 DEF TakeWaiters, LoopInv, LoopTypeOK
  <2> QED BY <1>1, <1>2, <1>3, <2>1, <2>2, <2>3, DueKept
<1>5. CASE Notify \/ Park \/ Wake \/ Timeout \/ \E w \in Waiters : Call(w)
  <2>1. served' = served
    BY <1>5, Zenon DEF Notify, Park, Wake, Timeout, Call
  <2>2. lpc' = "update" <=> lpc = "update"
    BY <1>5 DEF Notify, Park, Wake, Timeout, Call
  <2>3. lpc' # "update" => stage = "collect"
    BY <2>2 DEF StagesInOrder
  <2> QED BY <1>1, <1>2, <1>3, <2>1, <2>3, DueKept
<1> QED BY <1>1, <1>4, <1>5

LEMMA WaiterThreadKeeps ==
  ASSUME UpkeepInv, NEW w \in Waiters, WaiterThreadStep(w)
  PROVE  StagesInOrder' /\ DueAreEmpty' /\ DueInOrder'
<1> USE DEF UpkeepInv
<1>1. /\ UNCHANGED allocVars /\ UNCHANGED <<disabled, stage>>
      /\ PushSender(w) \/ Unpark(w) \/ Receive(w)
  BY DEF WaiterThreadStep, WaiterStep
<1>2. upkeep' = upkeep /\ EmptyUnits' = EmptyUnits
  BY <1>1 DEF allocVars, EmptyUnits
<1>3. EmptyUnits \subseteq Units
  BY DEF EmptyUnits
<1>4. lpc' = lpc
  BY <1>1 DEF PushSender, Unpark, Receive
<1>5. lpc' # "update" => stage = "collect"
  BY <1>4 DEF StagesInOrder
<1>6. CASE wpc[w] = "push"
  <2>1. PushSender(w)
    BY <1>1, <1>6 DEF Unpark, Receive
  <2>2. due' = [due EXCEPT ![w] = EmptyUnits]
    BY <1>6 DEF WaiterThreadStep
  <2>3. /\ due' \in [Waiters -> SUBSET Units] /\ due'[w] = EmptyUnits
        /\ \A v \in Waiters : v # w => due'[v] = due[v]
    BY <1>3, <2>2 DEF DueAreEmpty
  <2>4. DueAreEmpty'
    BY <1>2, <2>3 DEF DueAreEmpty
  <2>5. served'[w] = "no" /\ \A v \in Waiters : v # w => served'[v] = served[v]
    BY <2>1 DEF PushSender, LoopInv, LoopTypeOK
  <2>6. /\ \A v \in Waiters : served'[v] # "no" => due'[v] \subseteq due[v]
        /\ \A v \in Waiters : served'[v] = "begun" => served[v] = "begun"
        /\ \A v \in Waiters : served'[v] = "done" => served[v] = "done"
    BY <2>3, <2>5
  <2> QED BY <1>1, <1>2, <1>5, <2>4, <2>6, DueKept
<1>7. CASE wpc[w] # "push"
  <2>1. due' = due
    BY <1>7 DEF WaiterThreadStep
  <2>2. served' = served
    BY <1>1, <1>7 DEF PushSender, Unpark, Receive
  <2>3. DueAreEmpty'
    BY <1>2, <2>1 DEF DueAreEmpty
  <2> QED BY <1>1, <1>2, <1>5, <2>1, <2>2, <2>3, DueKept
<1> QED BY <1>6, <1>7

LEMMA BoxThreadKeeps ==
  ASSUME UpkeepInv, NEW b \in Boxes, BoxThreadStep(b) \/ UserThreadStep(b)
  PROVE  StagesInOrder' /\ DueAreEmpty' /\ DueInOrder'
<1> USE DEF UpkeepInv
<1>1. /\ BoxStep(b) \/ UserStep(b)
      /\ UNCHANGED <<disabled, stage>> /\ lpc' = lpc /\ served' = served /\ Track
  BY DEF BoxThreadStep, UserThreadStep, loopVars
<1>2. DueAreEmpty' /\ \A w \in Waiters : due'[w] \subseteq due[w]
  BY <1>1, TrackFacts
<1>3. upkeep' = upkeep
  BY <1>1 DEF BoxStep, UserStep, LockShard, NewUnit, OutOfMemory, TryUnit, Claim, Initialise,
              InitPanics, Allocate, DropValues, Deallocate
<1>4. AllocNext
  BY <1>1 DEF AllocNext
<1>5. lpc' # "update" => stage = "collect"
  BY <1>1 DEF StagesInOrder
<1> QED BY <1>1, <1>2, <1>3, <1>4, <1>5, DueKept

LEMMA UpkeepStart ==
  Init => UpkeepInv
<1> SUFFICES ASSUME Init
             PROVE  StagesInOrder /\ DueAreEmpty /\ DueInOrder
  BY LoopStart, AllocInvInit DEF Init, UpkeepInv
<1>1. StagesInOrder
  BY DEF Init, AllocInit, StagesInOrder, StageType
<1>2. \A w \in Waiters : due[w] = {}
  BY DEF Init
<1>3. due \in [Waiters -> SUBSET Units]
  BY DEF Init
<1> QED BY <1>1, <1>2, <1>3 DEF DueAreEmpty, DueInOrder

LEMMA UpkeepNext ==
  UpkeepInv /\ [Next]_vars => UpkeepInv'
<1> SUFFICES ASSUME UpkeepInv, [Next]_vars
             PROVE  StagesInOrder' /\ DueAreEmpty' /\ DueInOrder'
  BY AllocSteps, AllocInvNext, LoopNext DEF UpkeepInv
<1>1. CASE UNCHANGED vars
  <2>1. UNCHANGED allocVars /\ UNCHANGED loopVars /\ UNCHANGED <<disabled, stage, due>>
    BY <1>1 DEF vars
  <2>2. upkeep' = upkeep /\ EmptyUnits' = EmptyUnits /\ lpc' = lpc /\ served' = served
    BY <2>1 DEF allocVars, loopVars, EmptyUnits
  <2>3. DueAreEmpty' /\ (lpc' # "update" => stage = "collect")
    BY <2>1, <2>2 DEF DueAreEmpty, UpkeepInv, StagesInOrder
  <2> QED BY <2>1, <2>2, <2>3, DueKept DEF UpkeepInv
<1> QED BY <1>1, StartMaintenanceKeeps, SkipMaintenanceKeeps, MaintainKeeps, LogStatusKeeps,
           FinishUpdateKeeps, LoopStepKeeps, WaiterThreadKeeps, BoxThreadKeeps
        DEF Next, CollectorStep

\* When collector_update_now_and_wait returns, every unit that was empty when it
\* was called, and stayed so, has been returned: maintenance has visited them all,
\* whatever was exchanged, allocated and dropped meanwhile.
THEOREM MemoryReturned == Spec => []MemoryIsReturned
<1>1. UpkeepInv => MemoryIsReturned
  BY DEF UpkeepInv, LoopInv, LoopTypeOK, CallersInOrder, DueInOrder, MemoryIsReturned
<1> QED BY <1>1, UpkeepStart, UpkeepNext, PTL DEF Spec
=============================================================================
