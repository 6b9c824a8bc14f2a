------------------------ MODULE ShardedRwLockProofs ------------------------
(***************************************************************************)
(* How many shards there are and that a thread's index is one of them, and *)
(* that ShardedRwLock excludes readers and other writers from a writer's   *)
(* time: for any number of threads and CPUs and any number of shards that  *)
(* is asked for.                                                           *)
(***************************************************************************)
EXTENDS ShardedRwLock, WellFoundedInduction, TLAPS

-----------------------------------------------------------------------------
(***************************************************************************)
(* Recursion over the bits of a number.  A set of numbers has a least      *)
(* element: with it a recursive function is shown to exist, and what it    *)
(* computes.                                                               *)
(***************************************************************************)
LEMMA LeastNat ==
  ASSUME NEW T \in SUBSET Nat, NEW e \in T
  PROVE  \E x \in T : \A y \in T : ~(y < x)
<1>1. IsWellFoundedOn(OpToRel(<, Nat), Nat)
  BY NatLessThanWellFounded
<1>2. PICK x \in T : \A y \in T : ~(<<y, x>> \in OpToRel(<, Nat))
  BY <1>1, WFMin
<1> QED BY <1>2 DEF OpToRel

\* Half of a number.
LEMMA Halves ==
  /\ \A n \in Nat : n \div 2 \in Nat
  /\ \A n \in Nat \ {0} : n \div 2 \in 0 .. n - 1
  /\ \A n \in Nat : n % 2 = 0 \/ n % 2 = 1
  /\ \A n \in Nat : n = 2 * (n \div 2) + (n % 2)
<1>1. \A n \in Nat : n \div 2 \in Nat
  OBVIOUS
<1>2. \A n \in Nat \ {0} : n \div 2 \in 0 .. n - 1
  OBVIOUS
<1>3. \A n \in Nat : n % 2 = 0 \/ n % 2 = 1
  OBVIOUS
<1>4. \A n \in Nat : n = 2 * (n \div 2) + (n % 2)
  OBVIOUS
<1> QED BY <1>1, <1>2, <1>3, <1>4

\* f is given for 0 by z and for n by H, from n and its value for half of n.
Halving(f, S, z, H) ==
  /\ f \in [Nat -> S]
  /\ f[0] = z
  /\ \A n \in Nat \ {0} : f[n] = H[<<n, f[n \div 2]>>]

LEMMA HalvingRecursion ==
  ASSUME NEW S, NEW z \in S, NEW H \in [Nat \X S -> S]
  PROVE  \E f : Halving(f, S, z, H)
<1> DEFINE Ok(f, n) == /\ f \in [0 .. n -> S]
                       /\ f[0] = z
                       /\ \A m \in 1 .. n : f[m] = H[<<m, f[m \div 2]>>]
<1>1. ASSUME NEW n \in Nat
      PROVE  \E f : Ok(f, n)
  <2> DEFINE T == {k \in Nat : ~\E f : Ok(f, k)}
  <2>1. SUFFICES ASSUME n \in T
                 PROVE  FALSE
    OBVIOUS
  <2>2. PICK k \in T : \A y \in T : ~(y < k)
    <3>1. T \in SUBSET Nat
      OBVIOUS
    <3> HIDE DEF T
    <3> QED BY <2>1, <3>1, LeastNat
  <2>3. k \in Nat /\ ~\E f : Ok(f, k)
    BY <2>2
  <2>4. CASE k = 0
    <3>1. Ok([m \in 0 .. 0 |-> z], 0)
      OBVIOUS
    <3> QED BY <2>3, <2>4, <3>1
  <2>5. CASE k # 0
    <3>1. k - 1 \in Nat /\ k - 1 < k
      BY <2>3, <2>5
    <3>2. PICK g : Ok(g, k - 1)
      BY <2>2, <3>1
    <3> DEFINE h == [m \in 0 .. k |-> IF m = k THEN H[<<k, g[k \div 2]>>] ELSE g[m]]
    <3>3. k \div 2 \in 0 .. k - 1 /\ \A m \in 1 .. k - 1 : m \div 2 \in 0 .. k - 1
      BY <2>3, <2>5, Halves
    <3>4. h \in [0 .. k -> S]
      <4>1. g[k \div 2] \in S /\ H[<<k, g[k \div 2]>>] \in S
        BY <2>3, <3>2, <3>3
      <4>2. \A m \in 0 .. k : m # k => m \in 0 .. k - 1
        BY <2>3
      <4> QED BY <3>2, <4>1, <4>2
    <3>5. h[0] = z
      BY <2>3, <2>5, <3>2
    <3>6. \A m \in 0 .. k - 1 : h[m] = g[m]
      BY <2>3
    <3>7. h[k] = H[<<k, g[k \div 2]>>]
      BY <2>3
    <3>8. \A m \in 1 .. k : h[m] = H[<<m, h[m \div 2]>>]
      <4> HIDE DEF h
      <4>1. \A m \in 1 .. k - 1 : m \in 0 .. k - 1 /\ h[m] = H[<<m, h[m \div 2]>>]
        BY <2>3, <3>2, <3>3, <3>6
      <4>2. h[k] = H[<<k, h[k \div 2]>>]
        BY <3>3, <3>6, <3>7
      <4>3. \A m \in 1 .. k : m = k \/ m \in 1 .. k - 1
        BY <2>3
      <4> QED BY <4>1, <4>2, <4>3
    <3> QED BY <2>3, <3>4, <3>5, <3>8
  <2> QED BY <2>4, <2>5
<1>2. ASSUME NEW f, NEW g, NEW n \in Nat, NEW k \in Nat, Ok(f, n), Ok(g, k),
             NEW i \in Nat, i <= n, i <= k
      PROVE  f[i] = g[i]
  <2> DEFINE T == {j \in Nat : j <= n /\ j <= k /\ f[j] # g[j]}
  <2>1. SUFFICES ASSUME i \in T
                 PROVE  FALSE
    BY <1>2
  <2>2. PICK j \in T : \A y \in T : ~(y < j)
    <3>1. T \in SUBSET Nat
      OBVIOUS
    <3> HIDE DEF T
    <3> QED BY <2>1, <3>1, LeastNat
  <2>3. j \in Nat /\ j <= n /\ j <= k /\ f[j] # g[j]
    BY <2>2
  <2>4. j # 0
    BY <1>2, <2>3
  <2>5. j \div 2 \in Nat /\ j \div 2 < j /\ j \div 2 <= n /\ j \div 2 <= k
    BY <2>3, <2>4, Halves
  <2>6. f[j \div 2] = g[j \div 2]
    BY <2>2, <2>5
  <2>7. j \in 1 .. n /\ j \in 1 .. k
    BY <2>3, <2>4
  <2> QED BY <1>2, <2>3, <2>6, <2>7
<1> DEFINE F == [n \in Nat |-> (CHOOSE f : Ok(f, n))[n]]
<1>3. \A n \in Nat : Ok(CHOOSE f : Ok(f, n), n)
  BY <1>1, Zenon
<1> HIDE DEF Ok
<1>4. ASSUME NEW n \in Nat, NEW f, Ok(f, n), NEW m \in Nat, m <= n
      PROVE  F[m] = f[m]
  <2>1. PICK g : g = CHOOSE h : Ok(h, m)
    OBVIOUS
  <2>2. Ok(g, m) /\ F[m] = g[m]
    BY <1>3, <2>1, Zenon
  <2>3. m <= m
    OBVIOUS
  <2>4. f[m] = g[m]
    BY <1>2, <1>4, <2>2, <2>3
  <2> QED BY <2>2, <2>4
<1> HIDE DEF F
<1>5. \A n \in Nat : F[n] \in S
  <2> SUFFICES ASSUME NEW n \in Nat
               PROVE  F[n] \in S
    OBVIOUS
  <2>1. PICK f : Ok(f, n)
    BY <1>1
  <2>2. F[n] = f[n]
    BY <1>4, <2>1
  <2> QED BY <2>1, <2>2 DEF Ok
<1>6. F \in [Nat -> S]
  BY <1>5 DEF F
<1>7. F[0] = z
  <2>1. PICK f : Ok(f, 0)
    BY <1>1
  <2>2. F[0] = f[0]
    BY <1>4, <2>1
  <2> QED BY <2>1, <2>2 DEF Ok
<1>8. ASSUME NEW n \in Nat \ {0}
      PROVE  F[n] = H[<<n, F[n \div 2]>>]
  <2>1. PICK f : Ok(f, n)
    BY <1>1
  <2>2. n \div 2 \in Nat /\ n \div 2 <= n /\ n \in 1 .. n
    BY Halves
  <2>3. F[n] = f[n] /\ F[n \div 2] = f[n \div 2]
    BY <1>4, <2>1, <2>2
  <2> QED BY <2>1, <2>2, <2>3 DEF Ok
<1> QED BY <1>6, <1>7, <1>8 DEF Halving

\* usize::count_ones
LEMMA CountOnesDef ==
  /\ CountOnes \in [Nat -> Nat]
  /\ CountOnes[0] = 0
  /\ \A n \in Nat \ {0} : CountOnes[n] = (n % 2) + CountOnes[n \div 2]
<1> DEFINE H == [x \in Nat \X Nat |-> (x[1] % 2) + x[2]]
           Is(f) == f = [n \in Nat |-> IF n = 0 THEN 0 ELSE (n % 2) + f[n \div 2]]
<1>1. H \in [Nat \X Nat -> Nat]
  BY Halves
<1>a. \E f : Halving(f, Nat, 0, H)
  <2> HIDE DEF H
  <2> QED BY <1>1, HalvingRecursion
<1>b. PICK f : Halving(f, Nat, 0, H)
  BY <1>a
<1>2. /\ f \in [Nat -> Nat] /\ f[0] = 0
      /\ \A n \in Nat \ {0} : f[n] = H[<<n, f[n \div 2]>>]
  BY <1>b DEF Halving
<1>3. \A n \in Nat \ {0} : f[n] = (n % 2) + f[n \div 2]
  BY <1>2, Halves
<1>4. Is(f)
  BY <1>2, <1>3
<1>5. CountOnes = CHOOSE g : Is(g)
  BY DEF CountOnes
<1> HIDE DEF Is
<1>6. Is(CountOnes)
  BY <1>4, <1>5, Zenon
<1>7. CountOnes = [n \in Nat |-> IF n = 0 THEN 0 ELSE (n % 2) + CountOnes[n \div 2]]
  BY <1>6 DEF Is
<1>8. CountOnes[0] = 0 /\ \A n \in Nat \ {0} : CountOnes[n] = (n % 2) + CountOnes[n \div 2]
  BY <1>7
<1>9. ASSUME NEW i \in Nat
      PROVE  CountOnes[i] \in Nat
  <2> DEFINE T == {j \in Nat : CountOnes[j] \notin Nat}
  <2>1. SUFFICES ASSUME i \in T
                 PROVE  FALSE
    OBVIOUS
  <2>2. PICK j \in T : \A y \in T : ~(y < j)
    <3>1. T \in SUBSET Nat
      OBVIOUS
    <3> HIDE DEF T
    <3> QED BY <2>1, <3>1, LeastNat
  <2>3. j \in Nat /\ CountOnes[j] \notin Nat /\ j # 0
    BY <1>8, <2>2
  <2>4. j \div 2 \in Nat /\ j \div 2 < j
    BY <2>3, Halves
  <2>5. CountOnes[j \div 2] \in Nat
    BY <2>2, <2>4
  <2> QED BY <1>8, <2>3, <2>5, Halves
<1>10. CountOnes \in [Nat -> Nat]
  BY <1>7, <1>9
<1> QED BY <1>8, <1>10

\* usize::trailing_zeros
LEMMA TrailingZerosDef ==
  /\ \A n \in Nat \ {0} : TrailingZeros[n] \in Nat
  /\ \A n \in Nat \ {0} : n % 2 = 1 => TrailingZeros[n] = 0
  /\ \A n \in Nat \ {0} : n % 2 # 1 => TrailingZeros[n] = 1 + TrailingZeros[n \div 2]
<1> DEFINE H == [x \in Nat \X Nat |-> IF x[1] % 2 = 1 THEN 0 ELSE 1 + x[2]]
           Is(f) == f = [n \in Nat \ {0} |-> IF n % 2 = 1 THEN 0 ELSE 1 + f[n \div 2]]
<1>1. H \in [Nat \X Nat -> Nat]
  OBVIOUS
<1>a. \E f : Halving(f, Nat, 0, H)
  <2> HIDE DEF H
  <2> QED BY <1>1, HalvingRecursion
<1>b. PICK f : Halving(f, Nat, 0, H)
  BY <1>a
<1>2. /\ f \in [Nat -> Nat] /\ f[0] = 0
      /\ \A n \in Nat \ {0} : f[n] = H[<<n, f[n \div 2]>>]
  BY <1>b DEF Halving
<1>3. /\ \A n \in Nat \ {0} : n % 2 = 1 => f[n] = 0
      /\ \A n \in Nat \ {0} : n % 2 # 1 => f[n] = 1 + f[n \div 2]
  BY <1>2, Halves
<1>4. \A n \in Nat \ {0} : n % 2 # 1 => n \div 2 \in Nat \ {0}
  BY Halves
<1>5. Is([n \in Nat \ {0} |-> f[n]])
  BY <1>3, <1>4
<1>6. TrailingZeros = CHOOSE g : Is(g)
  BY DEF TrailingZeros
<1> HIDE DEF Is
<1>7. Is(TrailingZeros)
  BY <1>5, <1>6, Zenon
<1>8. TrailingZeros = [n \in Nat \ {0} |-> IF n % 2 = 1 THEN 0 ELSE 1 + TrailingZeros[n \div 2]]
  BY <1>7 DEF Is
<1>9. /\ \A n \in Nat \ {0} : n % 2 = 1 => TrailingZeros[n] = 0
      /\ \A n \in Nat \ {0} : n % 2 # 1 => TrailingZeros[n] = 1 + TrailingZeros[n \div 2]
  BY <1>8
<1>10. ASSUME NEW i \in Nat \ {0}
       PROVE  TrailingZeros[i] \in Nat
  <2> DEFINE T == {j \in Nat : j # 0 /\ TrailingZeros[j] \notin Nat}
  <2>1. SUFFICES ASSUME i \in T
                 PROVE  FALSE
    OBVIOUS
  <2>2. PICK j \in T : \A y \in T : ~(y < j)
    <3>1. T \in SUBSET Nat
      OBVIOUS
    <3> HIDE DEF T
    <3> QED BY <2>1, <3>1, LeastNat
  <2>3. j \in Nat \ {0} /\ TrailingZeros[j] \notin Nat /\ j % 2 # 1
    BY <1>9, <2>2
  <2>4. j \div 2 \in Nat \ {0} /\ j \div 2 < j
    BY <1>4, <2>3, Halves
  <2>5. TrailingZeros[j \div 2] \in Nat
    BY <2>2, <2>4
  <2> QED BY <1>9, <2>3, <2>5
<1> QED BY <1>9, <1>10

\* usize::ilog2
LEMMA Ilog2Def ==
  /\ \A n \in Nat : Ilog2[n] \in Nat
  /\ Ilog2[1] = 0
  /\ \A n \in Nat : n > 1 => Ilog2[n] = 1 + Ilog2[n \div 2]
<1> DEFINE H == [x \in Nat \X Nat |-> IF x[1] <= 1 THEN 0 ELSE 1 + x[2]]
           Is(f) == f = [n \in Nat |-> IF n <= 1 THEN 0 ELSE 1 + f[n \div 2]]
<1>1. H \in [Nat \X Nat -> Nat]
  OBVIOUS
<1>a. \E f : Halving(f, Nat, 0, H)
  <2> HIDE DEF H
  <2> QED BY <1>1, HalvingRecursion
<1>b. PICK f : Halving(f, Nat, 0, H)
  BY <1>a
<1>2. /\ f \in [Nat -> Nat] /\ f[0] = 0
      /\ \A n \in Nat \ {0} : f[n] = H[<<n, f[n \div 2]>>]
  BY <1>b DEF Halving
<1>3. /\ \A n \in Nat : n <= 1 => f[n] = 0
      /\ \A n \in Nat : ~(n <= 1) => f[n] = 1 + f[n \div 2]
  <2>1. \A n \in Nat \ {0} : f[n \div 2] \in Nat
    BY <1>2, Halves
  <2>2. \A n \in Nat \ {0} : n <= 1 => f[n] = 0
    BY <1>2, <2>1
  <2>3. \A n \in Nat \ {0} : ~(n <= 1) => f[n] = 1 + f[n \div 2]
    BY <1>2, <2>1
  <2> QED BY <1>2, <2>2, <2>3
<1>4. Is(f)
  BY <1>2, <1>3
<1>5. Ilog2 = CHOOSE g : Is(g)
  BY DEF Ilog2
<1> HIDE DEF Is
<1>6. Is(Ilog2)
  BY <1>4, <1>5, Zenon
<1>7. Ilog2 = [n \in Nat |-> IF n <= 1 THEN 0 ELSE 1 + Ilog2[n \div 2]]
  BY <1>6 DEF Is
<1>8. /\ \A n \in Nat : n <= 1 => Ilog2[n] = 0
      /\ \A n \in Nat : n > 1 => Ilog2[n] = 1 + Ilog2[n \div 2]
  BY <1>7
<1>9. ASSUME NEW i \in Nat
      PROVE  Ilog2[i] \in Nat
  <2> DEFINE T == {j \in Nat : Ilog2[j] \notin Nat}
  <2>1. SUFFICES ASSUME i \in T
                 PROVE  FALSE
    OBVIOUS
  <2>2. PICK j \in T : \A y \in T : ~(y < j)
    <3>1. T \in SUBSET Nat
      OBVIOUS
    <3> HIDE DEF T
    <3> QED BY <2>1, <3>1, LeastNat
  <2>3. j \in Nat /\ Ilog2[j] \notin Nat /\ j > 1
    BY <1>8, <2>2
  <2>4. j \div 2 \in Nat /\ j \div 2 < j
    BY <2>3, Halves
  <2>5. Ilog2[j \div 2] \in Nat
    BY <2>2, <2>4
  <2> QED BY <1>8, <2>3, <2>5
<1> QED BY <1>8, <1>9

\* The bits of a product of two bits.
LEMMA BitProduct ==
  \A a, b \in Nat : (a % 2) * (b % 2) \in Nat
BY Halves

\* & of two usize.
LEMMA BitAndDef ==
  /\ \A a, b \in Nat : a = 0 \/ b = 0 => BitAnd[<<a, b>>] = 0
  /\ \A a, b \in Nat \ {0} :
       BitAnd[<<a, b>>] = (a % 2) * (b % 2) + 2 * BitAnd[<<a \div 2, b \div 2>>]
<1> DEFINE S == [Nat -> Nat]
           z == [b \in Nat |-> 0]
           V(a, g) == [b \in Nat |-> IF b = 0 THEN 0 ELSE (a % 2) * (b % 2) + 2 * g[b \div 2]]
           H == [x \in Nat \X S |-> V(x[1], x[2])]
           Is(f) == f = [p \in Nat \X Nat |->
                           IF p[1] = 0 \/ p[2] = 0
                             THEN 0
                             ELSE (p[1] % 2) * (p[2] % 2) + 2 * f[<<p[1] \div 2, p[2] \div 2>>]]
<1>1. ASSUME NEW a \in Nat, NEW g \in S
      PROVE  V(a, g) \in S
  <2>1. \A b \in Nat : (a % 2) * (b % 2) \in Nat /\ g[b \div 2] \in Nat
    BY BitProduct, Halves
  <2> QED BY <2>1
<1>2. z \in S
  OBVIOUS
<1>3. H \in [Nat \X S -> S]
  <2> HIDE DEF S, V
  <2> QED BY <1>1
<1>a. \E F : Halving(F, S, z, H)
  <2> HIDE DEF H, S, z
  <2> QED BY <1>2, <1>3, HalvingRecursion
<1>b. PICK F : Halving(F, S, z, H)
  BY <1>a
<1>4. /\ F \in [Nat -> S] /\ F[0] = z
      /\ \A n \in Nat \ {0} : F[n] = H[<<n, F[n \div 2]>>]
  <2> HIDE DEF H, S, z
  <2> QED BY <1>b DEF Halving
<1>5. \A n \in Nat \ {0} : F[n] = V(n, F[n \div 2])
  <2>1. \A n \in Nat \ {0} : F[n \div 2] \in S
    BY <1>4, Halves
  <2> HIDE DEF S, V
  <2> QED BY <1>4, <2>1
<1>6. \A b \in Nat : F[0][b] = 0
  BY <1>4
<1>7. /\ \A n \in Nat \ {0} : F[n][0] = 0
      /\ \A n, b \in Nat \ {0} : F[n][b] = (n % 2) * (b % 2) + 2 * F[n \div 2][b \div 2]
  BY <1>5
<1> DEFINE f == [p \in Nat \X Nat |-> F[p[1]][p[2]]]
<1>8. \A p \in Nat \X Nat : /\ p[1] = 0 \/ p[2] = 0 => f[p] = 0
                            /\ ~(p[1] = 0 \/ p[2] = 0) =>
                                 f[p] = (p[1] % 2) * (p[2] % 2) + 2 * f[<<p[1] \div 2, p[2] \div 2>>]
  <2> SUFFICES ASSUME NEW a \in Nat, NEW b \in Nat
               PROVE  /\ a = 0 \/ b = 0 => f[<<a, b>>] = 0
                      /\ ~(a = 0 \/ b = 0) =>
                           f[<<a, b>>] = (a % 2) * (b % 2) + 2 * f[<<a \div 2, b \div 2>>]
    OBVIOUS
  <2>1. f[<<a, b>>] = F[a][b] /\ f[<<a \div 2, b \div 2>>] = F[a \div 2][b \div 2]
    BY Halves
  <2> QED BY <1>6, <1>7, <2>1
<1>9. Is(f)
  <2> HIDE DEF f
  <2>1. f = [p \in Nat \X Nat |-> f[p]]
    BY DEF f
  <2> QED BY <1>8, <2>1
<1>10. BitAnd = CHOOSE g : Is(g)
  BY DEF BitAnd
<1> HIDE DEF Is, f
<1>11. Is(BitAnd)
  BY <1>9, <1>10, Zenon
<1>12. BitAnd = [p \in Nat \X Nat |->
                   IF p[1] = 0 \/ p[2] = 0
                     THEN 0
                     ELSE (p[1] % 2) * (p[2] % 2) + 2 * BitAnd[<<p[1] \div 2, p[2] \div 2>>]]
  BY <1>11 DEF Is
<1> QED BY <1>12

\* A mask of k ones is the remainder of a division by 2^k.
LEMMA MaskIsRemainder ==
  /\ \A a \in Nat : BitAnd[<<a, 0>>] = a % 1
  /\ \A a \in Nat : BitAnd[<<a, 1>>] = a % 2
  /\ \A a \in Nat : BitAnd[<<a, 3>>] = a % 4
  /\ \A a \in Nat : BitAnd[<<a, 7>>] = a % 8
  /\ \A a \in Nat : BitAnd[<<a, 15>>] = a % 16
  /\ \A a \in Nat : BitAnd[<<a, 31>>] = a % 32
  /\ \A a \in Nat : BitAnd[<<a, 63>>] = a % 64
  /\ \A a \in Nat : BitAnd[<<a, 127>>] = a % 128
  /\ \A a \in Nat : BitAnd[<<a, 255>>] = a % 256
<1>0. \A a \in Nat : BitAnd[<<a, 0>>] = a % 1
  BY BitAndDef
<1>1. \A a \in Nat : BitAnd[<<a, 1>>] = a % 2
  <2> SUFFICES ASSUME NEW a \in Nat
               PROVE  BitAnd[<<a, 1>>] = a % 2
    OBVIOUS
  <2>1. 1 % 2 = 1 /\ 1 \div 2 = 0 /\ a \div 2 \in Nat /\ 1 \in Nat \ {0}
    BY Halves
  <2>2. CASE a = 0
    BY <2>1, <2>2, BitAndDef
  <2>3. CASE a # 0
    <3>1. BitAnd[<<a, 1>>] = (a % 2) * (1 % 2) + 2 * BitAnd[<<a \div 2, 1 \div 2>>]
      BY <2>1, <2>3, BitAndDef
    <3>2. BitAnd[<<a, 1>>] = (a % 2) + 2 * ((a \div 2) % 1)
      BY <1>0, <2>1, <3>1
    <3> QED BY <3>2
  <2> QED BY <2>2, <2>3
<1>2. \A a \in Nat : BitAnd[<<a, 3>>] = a % 4
  <2> SUFFICES ASSUME NEW a \in Nat
               PROVE  BitAnd[<<a, 3>>] = a % 4
    OBVIOUS
  <2>1. 3 % 2 = 1 /\ 3 \div 2 = 1 /\ a \div 2 \in Nat /\ 3 \in Nat \ {0}
    BY Halves
  <2>2. CASE a = 0
    BY <2>1, <2>2, BitAndDef
  <2>3. CASE a # 0
    <3>1. BitAnd[<<a, 3>>] = (a % 2) * (3 % 2) + 2 * BitAnd[<<a \div 2, 3 \div 2>>]
      BY <2>1, <2>3, BitAndDef
    <3>2. BitAnd[<<a, 3>>] = (a % 2) + 2 * ((a \div 2) % 2)
      BY <1>1, <2>1, <3>1
    <3> QED BY <3>2
  <2> QED BY <2>2, <2>3
<1>3. \A a \in Nat : BitAnd[<<a, 7>>] = a % 8
  <2> SUFFICES ASSUME NEW a \in Nat
               PROVE  BitAnd[<<a, 7>>] = a % 8
    OBVIOUS
  <2>1. 7 % 2 = 1 /\ 7 \div 2 = 3 /\ a \div 2 \in Nat /\ 7 \in Nat \ {0}
    BY Halves
  <2>2. CASE a = 0
    BY <2>1, <2>2, BitAndDef
  <2>3. CASE a # 0
    <3>1. BitAnd[<<a, 7>>] = (a % 2) * (7 % 2) + 2 * BitAnd[<<a \div 2, 7 \div 2>>]
      BY <2>1, <2>3, BitAndDef
    <3>2. BitAnd[<<a, 7>>] = (a % 2) + 2 * ((a \div 2) % 4)
      BY <1>2, <2>1, <3>1
    <3> QED BY <3>2
  <2> QED BY <2>2, <2>3
<1>4. \A a \in Nat : BitAnd[<<a, 15>>] = a % 16
  <2> SUFFICES ASSUME NEW a \in Nat
               PROVE  BitAnd[<<a, 15>>] = a % 16
    OBVIOUS
  <2>1. 15 % 2 = 1 /\ 15 \div 2 = 7 /\ a \div 2 \in Nat /\ 15 \in Nat \ {0}
    BY Halves
  <2>2. CASE a = 0
    BY <2>1, <2>2, BitAndDef
  <2>3. CASE a # 0
    <3>1. BitAnd[<<a, 15>>] = (a % 2) * (15 % 2) + 2 * BitAnd[<<a \div 2, 15 \div 2>>]
      BY <2>1, <2>3, BitAndDef
    <3>2. BitAnd[<<a, 15>>] = (a % 2) + 2 * ((a \div 2) % 8)
      BY <1>3, <2>1, <3>1
    <3> QED BY <3>2
  <2> QED BY <2>2, <2>3
<1>5. \A a \in Nat : BitAnd[<<a, 31>>] = a % 32
  <2> SUFFICES ASSUME NEW a \in Nat
               PROVE  BitAnd[<<a, 31>>] = a % 32
    OBVIOUS
  <2>1. 31 % 2 = 1 /\ 31 \div 2 = 15 /\ a \div 2 \in Nat /\ 31 \in Nat \ {0}
    BY Halves
  <2>2. CASE a = 0
    BY <2>1, <2>2, BitAndDef
  <2>3. CASE a # 0
    <3>1. BitAnd[<<a, 31>>] = (a % 2) * (31 % 2) + 2 * BitAnd[<<a \div 2, 31 \div 2>>]
      BY <2>1, <2>3, BitAndDef
    <3>2. BitAnd[<<a, 31>>] = (a % 2) + 2 * ((a \div 2) % 16)
      BY <1>4, <2>1, <3>1
    <3> QED BY <3>2
  <2> QED BY <2>2, <2>3
<1>6. \A a \in Nat : BitAnd[<<a, 63>>] = a % 64
  <2> SUFFICES ASSUME NEW a \in Nat
               PROVE  BitAnd[<<a, 63>>] = a % 64
    OBVIOUS
  <2>1. 63 % 2 = 1 /\ 63 \div 2 = 31 /\ a \div 2 \in Nat /\ 63 \in Nat \ {0}
    BY Halves
  <2>2. CASE a = 0
    BY <2>1, <2>2, BitAndDef
  <2>3. CASE a # 0
    <3>1. BitAnd[<<a, 63>>] = (a % 2) * (63 % 2) + 2 * BitAnd[<<a \div 2, 63 \div 2>>]
      BY <2>1, <2>3, BitAndDef
    <3>2. BitAnd[<<a, 63>>] = (a % 2) + 2 * ((a \div 2) % 32)
      BY <1>5, <2>1, <3>1
    <3> QED BY <3>2
  <2> QED BY <2>2, <2>3
<1>7. \A a \in Nat : BitAnd[<<a, 127>>] = a % 128
  <2> SUFFICES ASSUME NEW a \in Nat
               PROVE  BitAnd[<<a, 127>>] = a % 128
    OBVIOUS
  <2>1. 127 % 2 = 1 /\ 127 \div 2 = 63 /\ a \div 2 \in Nat /\ 127 \in Nat \ {0}
    BY Halves
  <2>2. CASE a = 0
    BY <2>1, <2>2, BitAndDef
  <2>3. CASE a # 0
    <3>1. BitAnd[<<a, 127>>] = (a % 2) * (127 % 2) + 2 * BitAnd[<<a \div 2, 127 \div 2>>]
      BY <2>1, <2>3, BitAndDef
    <3>2. BitAnd[<<a, 127>>] = (a % 2) + 2 * ((a \div 2) % 64)
      BY <1>6, <2>1, <3>1
    <3> QED BY <3>2
  <2> QED BY <2>2, <2>3
<1>8. \A a \in Nat : BitAnd[<<a, 255>>] = a % 256
  <2> SUFFICES ASSUME NEW a \in Nat
               PROVE  BitAnd[<<a, 255>>] = a % 256
    OBVIOUS
  <2>1. 255 % 2 = 1 /\ 255 \div 2 = 127 /\ a \div 2 \in Nat /\ 255 \in Nat \ {0}
    BY Halves
  <2>2. CASE a = 0
    BY <2>1, <2>2, BitAndDef
  <2>3. CASE a # 0
    <3>1. BitAnd[<<a, 255>>] = (a % 2) * (255 % 2) + 2 * BitAnd[<<a \div 2, 255 \div 2>>]
      BY <2>1, <2>3, BitAndDef
    <3>2. BitAnd[<<a, 255>>] = (a % 2) + 2 * ((a \div 2) % 128)
      BY <1>7, <2>1, <3>1
    <3> QED BY <3>2
  <2> QED BY <2>2, <2>3
<1> QED BY <1>0, <1>1, <1>2, <1>3, <1>4, <1>5, <1>6, <1>7, <1>8

\* A positive number has a bit that is set, and if it has only one the trailing
\* zeros are those below that bit.
LEMMA OneBit ==
  \A n \in Nat \ {0} :
    /\ CountOnes[n] >= 1
    /\ CountOnes[n] = 1 => TrailingZeros[n] = Ilog2[n]
<1> DEFINE Good(n) == /\ CountOnes[n] >= 1
                      /\ CountOnes[n] = 1 => TrailingZeros[n] = Ilog2[n]
           T == {n \in Nat : n # 0 /\ ~Good(n)}
<1> SUFFICES ASSUME NEW i \in T
             PROVE  FALSE
  OBVIOUS
<1>1. PICK j \in T : \A y \in T : ~(y < j)
  <2>1. T \in SUBSET Nat
    OBVIOUS
  <2> HIDE DEF T
  <2> QED BY <2>1, LeastNat
<1>2. j \in Nat \ {0} /\ ~Good(j)
  BY <1>1
<1>3. j \div 2 \in Nat /\ j \div 2 < j /\ j = 2 * (j \div 2) + (j % 2) /\ (j % 2 = 0 \/ j % 2 = 1)
  BY <1>2, Halves
<1>4. /\ CountOnes[j] = (j % 2) + CountOnes[j \div 2] /\ CountOnes[j \div 2] \in Nat
      /\ CountOnes[0] = 0
  BY <1>2, <1>3, CountOnesDef
<1>5. j \div 2 # 0 => Good(j \div 2)
  BY <1>1, <1>3
<1>6. CASE j % 2 = 1
  <2>a. TrailingZeros[j] = 0
    BY <1>2, <1>6, TrailingZerosDef, Zenon
  <2>1. CountOnes[j] >= 1 /\ TrailingZeros[j] = 0
    BY <1>4, <1>6, <2>a
  <2>2. CASE j \div 2 = 0
    <3>1. j = 1
      BY <1>2, <1>3, <1>6, <2>2
    <3> QED BY <1>2, <2>1, <3>1, Ilog2Def
  <2>3. CASE j \div 2 # 0
    BY <1>2, <1>4, <1>5, <1>6, <2>1, <2>3
  <2> QED BY <2>2, <2>3
<1>7. CASE j % 2 = 0
  <2>1. j \div 2 # 0 /\ j > 1
    BY <1>2, <1>3, <1>7
  <2>2. CountOnes[j] = CountOnes[j \div 2]
    BY <1>4, <1>7
  <2>3. TrailingZeros[j] = 1 + TrailingZeros[j \div 2] /\ Ilog2[j] = 1 + Ilog2[j \div 2]
    BY <1>2, <1>7, <2>1, TrailingZerosDef, Ilog2Def
  <2> QED BY <1>2, <1>5, <2>1, <2>2, <2>3
<1> QED BY <1>3, <1>6, <1>7

\* The numbers of k + 1 bits, p being 2^k.
Level(k, p) ==
  /\ \A n \in Nat : p <= n /\ n < 2 * p => Ilog2[n] = k /\ (CountOnes[n] = 1 <=> n = p)
  /\ \A n \in Nat : p <= n => Ilog2[n] >= k

LEMMA FirstLevel == Level(0, 1)
<1>1. \A n \in Nat : 1 <= n /\ n < 2 * 1 => n = 1
  OBVIOUS
<1>2. Ilog2[1] = 0 /\ \A n \in Nat : Ilog2[n] \in Nat
  BY Ilog2Def
<1>3. CountOnes[1] = 1
  <2>1. 1 \div 2 = 0 /\ 1 % 2 = 1 /\ 1 \in Nat \ {0}
    OBVIOUS
  <2> QED BY <2>1, CountOnesDef
<1> QED BY <1>1, <1>2, <1>3 DEF Level

LEMMA NextLevel ==
  ASSUME NEW k \in Nat, NEW p \in Nat \ {0}, Level(k, p)
  PROVE  Level(k + 1, 2 * p)
<1>1. ASSUME NEW n \in Nat, 2 * p <= n
      PROVE  /\ Ilog2[n] >= k + 1
             /\ n < 2 * (2 * p) => Ilog2[n] = k + 1 /\ (CountOnes[n] = 1 <=> n = 2 * p)
  <2>1. PICK h \in Nat : h = n \div 2
    BY Halves
  <2>2. PICK r \in {0, 1} : r = n % 2
    BY Halves
  <2>3. n = 2 * h + r
    BY <2>1, <2>2, Halves
  <2>4. p <= h /\ h # 0 /\ n > 1 /\ (n < 2 * (2 * p) => h < 2 * p)
    BY <1>1, <2>3
  <2>5. Ilog2[n] = 1 + Ilog2[h] /\ Ilog2[h] \in Nat
    BY <2>1, <2>4, Ilog2Def
  <2>6. Ilog2[h] >= k /\ (h < 2 * p => Ilog2[h] = k /\ (CountOnes[h] = 1 <=> h = p))
    BY <2>4 DEF Level
  <2>7. CountOnes[n] = r + CountOnes[h] /\ CountOnes[h] \in Nat /\ CountOnes[h] >= 1
    <3>1. CountOnes[n] = (n % 2) + CountOnes[n \div 2]
      BY <2>4, CountOnesDef
    <3> QED BY <2>1, <2>2, <2>4, <3>1, CountOnesDef, OneBit
  <2>8. r = 1 => CountOnes[n] # 1 /\ n # 2 * p
    BY <2>3, <2>7
  <2>9. r = 0 => CountOnes[n] = CountOnes[h] /\ (n = 2 * p <=> h = p)
    BY <2>3, <2>7
  <2> QED BY <2>4, <2>5, <2>6, <2>8, <2>9
<1> QED BY <1>1 DEF Level

LEMMA Levels ==
  /\ Level(0, 1)
  /\ Level(1, 2)
  /\ Level(2, 4)
  /\ Level(3, 8)
  /\ Level(4, 16)
  /\ Level(5, 32)
  /\ Level(6, 64)
  /\ Level(7, 128)
  /\ Level(8, 256)
<1>0. Level(0, 1)
  BY FirstLevel
<1>1. Level(1, 2)
  <2>1. 0 \in Nat /\ 1 \in Nat \ {0} /\ 0 + 1 = 1 /\ 2 * 1 = 2
    OBVIOUS
  <2>2. Level(0 + 1, 2 * 1)
    BY <1>0, <2>1, NextLevel
  <2> QED BY <2>1, <2>2
<1>2. Level(2, 4)
  <2>1. 1 \in Nat /\ 2 \in Nat \ {0} /\ 1 + 1 = 2 /\ 2 * 2 = 4
    OBVIOUS
  <2>2. Level(1 + 1, 2 * 2)
    BY <1>1, <2>1, NextLevel
  <2> QED BY <2>1, <2>2
<1>3. Level(3, 8)
  <2>1. 2 \in Nat /\ 4 \in Nat \ {0} /\ 2 + 1 = 3 /\ 2 * 4 = 8
    OBVIOUS
  <2>2. Level(2 + 1, 2 * 4)
    BY <1>2, <2>1, NextLevel
  <2> QED BY <2>1, <2>2
<1>4. Level(4, 16)
  <2>1. 3 \in Nat /\ 8 \in Nat \ {0} /\ 3 + 1 = 4 /\ 2 * 8 = 16
    OBVIOUS
  <2>2. Level(3 + 1, 2 * 8)
    BY <1>3, <2>1, NextLevel
  <2> QED BY <2>1, <2>2
<1>5. Level(5, 32)
  <2>1. 4 \in Nat /\ 16 \in Nat \ {0} /\ 4 + 1 = 5 /\ 2 * 16 = 32
    OBVIOUS
  <2>2. Level(4 + 1, 2 * 16)
    BY <1>4, <2>1, NextLevel
  <2> QED BY <2>1, <2>2
<1>6. Level(6, 64)
  <2>1. 5 \in Nat /\ 32 \in Nat \ {0} /\ 5 + 1 = 6 /\ 2 * 32 = 64
    OBVIOUS
  <2>2. Level(5 + 1, 2 * 32)
    BY <1>5, <2>1, NextLevel
  <2> QED BY <2>1, <2>2
<1>7. Level(7, 128)
  <2>1. 6 \in Nat /\ 64 \in Nat \ {0} /\ 6 + 1 = 7 /\ 2 * 64 = 128
    OBVIOUS
  <2>2. Level(6 + 1, 2 * 64)
    BY <1>6, <2>1, NextLevel
  <2> QED BY <2>1, <2>2
<1>8. Level(8, 256)
  <2>1. 7 \in Nat /\ 128 \in Nat \ {0} /\ 7 + 1 = 8 /\ 2 * 128 = 256
    OBVIOUS
  <2>2. Level(7 + 1, 2 * 128)
    BY <1>7, <2>1, NextLevel
  <2> QED BY <2>1, <2>2
<1> QED BY <1>0, <1>1, <1>2, <1>3, <1>4, <1>5, <1>6, <1>7, <1>8

\* 1 << exponent, the exponent clamped.
LEMMA ShardCounts ==
  /\ FromExponentAdjusted(0) = 1
  /\ FromExponentAdjusted(1) = 2
  /\ FromExponentAdjusted(2) = 4
  /\ FromExponentAdjusted(3) = 8
  /\ FromExponentAdjusted(4) = 16
  /\ FromExponentAdjusted(5) = 32
  /\ FromExponentAdjusted(6) = 64
  /\ FromExponentAdjusted(7) = 128
  /\ \A e \in Nat : e >= 8 => FromExponentAdjusted(e) = 256
<1>1. \A e \in Nat : (e <= 8 => Clamp(e) = e) /\ (e >= 8 => Clamp(e) = 8)
  BY DEF Clamp, MinExponent, MaxExponent
<1>2. \A e \in Nat : \A k : Clamp(e) = k => FromExponentAdjusted(e) = 2 ^ k
  BY Zenon DEF FromExponentAdjusted
<1>3. 2 ^ 0 = 1 /\ 2 ^ 1 = 2 /\ 2 ^ 2 = 4 /\ 2 ^ 3 = 8 /\ 2 ^ 4 = 16
  OBVIOUS
<1>4. 2 ^ 5 = 32 /\ 2 ^ 6 = 64 /\ 2 ^ 7 = 128 /\ 2 ^ 8 = 256
  OBVIOUS
<1>5. ASSUME NEW e \in Nat, e <= 8
      PROVE  Clamp(e) = e
  BY <1>1, <1>5
<1>6. ASSUME NEW e \in Nat, e >= 8
      PROVE  Clamp(e) = 8
  BY <1>1, <1>6
<1>7. /\ Clamp(0) = 0 /\ Clamp(1) = 1 /\ Clamp(2) = 2 /\ Clamp(3) = 3 /\ Clamp(4) = 4
      /\ Clamp(5) = 5 /\ Clamp(6) = 6 /\ Clamp(7) = 7
  BY <1>1
<1>8. /\ 0 \in Nat /\ 1 \in Nat /\ 2 \in Nat /\ 3 \in Nat /\ 4 \in Nat /\ 5 \in Nat
      /\ 6 \in Nat /\ 7 \in Nat
  OBVIOUS
<1>9. FromExponentAdjusted(0) = 2 ^ 0
  BY <1>2, <1>7, <1>8, Zenon
<1>10. FromExponentAdjusted(1) = 2 ^ 1
  BY <1>2, <1>7, <1>8, Zenon
<1>11. FromExponentAdjusted(2) = 2 ^ 2
  BY <1>2, <1>7, <1>8, Zenon
<1>12. FromExponentAdjusted(3) = 2 ^ 3
  BY <1>2, <1>7, <1>8, Zenon
<1>13. FromExponentAdjusted(4) = 2 ^ 4
  BY <1>2, <1>7, <1>8, Zenon
<1>14. FromExponentAdjusted(5) = 2 ^ 5
  BY <1>2, <1>7, <1>8, Zenon
<1>15. FromExponentAdjusted(6) = 2 ^ 6
  BY <1>2, <1>7, <1>8, Zenon
<1>16. FromExponentAdjusted(7) = 2 ^ 7
  BY <1>2, <1>7, <1>8, Zenon
<1>17. \A e \in Nat : e >= 8 => FromExponentAdjusted(e) = 2 ^ 8
  BY <1>2, <1>6, Zenon
<1> QED BY <1>3, <1>4, <1>9, <1>10, <1>11, <1>12, <1>13, <1>14, <1>15, <1>16, <1>17

\* from_usize_adjusted on numbers of k + 1 bits.
LEMMA LevelAdjusted ==
  ASSUME NEW k \in Nat, NEW p \in Nat \ {0}, Level(k, p), NEW n \in Nat, p <= n, n < 2 * p
  PROVE  /\ n = p => FromUsizeAdjusted(n) = FromExponentAdjusted(k)
         /\ n # p => FromUsizeAdjusted(n) = FromExponentAdjusted(k + 1)
<1>1. Ilog2[n] = k /\ (CountOnes[n] = 1 <=> n = p)
  BY DEF Level
<1>2. n = p => TrailingZeros[n] = k
  BY <1>1, OneBit
<1> QED BY <1>1, <1>2 DEF FromUsizeAdjusted

ShardCountValues == {1, 2, 4, 8, 16, 32, 64, 128, 256}

\* from_usize_adjusted rounds up to a power of two, at most 256.
LEMMA Adjusted ==
  ASSUME NEW n \in Nat \ {0}
  PROVE  /\ FromUsizeAdjusted(n) \in ShardCountValues
         /\ n <= 256 => FromUsizeAdjusted(n) >= n /\ FromUsizeAdjusted(n) < 2 * n
         /\ n > 256 => FromUsizeAdjusted(n) = 256
<1>0. CASE 1 <= n /\ n < 2
  <2>1. 0 \in Nat /\ 1 \in Nat \ {0} /\ 2 * 1 = 2 /\ 0 + 1 = 1 /\ n \in Nat
    OBVIOUS
  <2>2. /\ n = 1 => FromUsizeAdjusted(n) = FromExponentAdjusted(0)
        /\ n # 1 => FromUsizeAdjusted(n) = FromExponentAdjusted(1)
    BY <1>0, <2>1, Levels, LevelAdjusted
  <2>3. FromExponentAdjusted(0) = 1 /\ FromExponentAdjusted(1) = 2
    BY ShardCounts
  <2> QED BY <1>0, <2>2, <2>3 DEF ShardCountValues
<1>1. CASE 2 <= n /\ n < 4
  <2>1. 1 \in Nat /\ 2 \in Nat \ {0} /\ 2 * 2 = 4 /\ 1 + 1 = 2 /\ n \in Nat
    OBVIOUS
  <2>2. /\ n = 2 => FromUsizeAdjusted(n) = FromExponentAdjusted(1)
        /\ n # 2 => FromUsizeAdjusted(n) = FromExponentAdjusted(2)
    BY <1>1, <2>1, Levels, LevelAdjusted
  <2>3. FromExponentAdjusted(1) = 2 /\ FromExponentAdjusted(2) = 4
    BY ShardCounts
  <2> QED BY <1>1, <2>2, <2>3 DEF ShardCountValues
<1>2. CASE 4 <= n /\ n < 8
  <2>1. 2 \in Nat /\ 4 \in Nat \ {0} /\ 2 * 4 = 8 /\ 2 + 1 = 3 /\ n \in Nat
    OBVIOUS
  <2>2. /\ n = 4 => FromUsizeAdjusted(n) = FromExponentAdjusted(2)
        /\ n # 4 => FromUsizeAdjusted(n) = FromExponentAdjusted(3)
    BY <1>2, <2>1, Levels, LevelAdjusted
  <2>3. FromExponentAdjusted(2) = 4 /\ FromExponentAdjusted(3) = 8
    BY ShardCounts
  <2> QED BY <1>2, <2>2, <2>3 DEF ShardCountValues
<1>3. CASE 8 <= n /\ n < 16
  <2>1. 3 \in Nat /\ 8 \in Nat \ {0} /\ 2 * 8 = 16 /\ 3 + 1 = 4 /\ n \in Nat
    OBVIOUS
  <2>2. /\ n = 8 => FromUsizeAdjusted(n) = FromExponentAdjusted(3)
        /\ n # 8 => FromUsizeAdjusted(n) = FromExponentAdjusted(4)
    BY <1>3, <2>1, Levels, LevelAdjusted
  <2>3. FromExponentAdjusted(3) = 8 /\ FromExponentAdjusted(4) = 16
    BY ShardCounts
  <2> QED BY <1>3, <2>2, <2>3 DEF ShardCountValues
<1>4. CASE 16 <= n /\ n < 32
  <2>1. 4 \in Nat /\ 16 \in Nat \ {0} /\ 2 * 16 = 32 /\ 4 + 1 = 5 /\ n \in Nat
    OBVIOUS
  <2>2. /\ n = 16 => FromUsizeAdjusted(n) = FromExponentAdjusted(4)
        /\ n # 16 => FromUsizeAdjusted(n) = FromExponentAdjusted(5)
    BY <1>4, <2>1, Levels, LevelAdjusted
  <2>3. FromExponentAdjusted(4) = 16 /\ FromExponentAdjusted(5) = 32
    BY ShardCounts
  <2> QED BY <1>4, <2>2, <2>3 DEF ShardCountValues
<1>5. CASE 32 <= n /\ n < 64
  <2>1. 5 \in Nat /\ 32 \in Nat \ {0} /\ 2 * 32 = 64 /\ 5 + 1 = 6 /\ n \in Nat
    OBVIOUS
  <2>2. /\ n = 32 => FromUsizeAdjusted(n) = FromExponentAdjusted(5)
        /\ n # 32 => FromUsizeAdjusted(n) = FromExponentAdjusted(6)
    BY <1>5, <2>1, Levels, LevelAdjusted
  <2>3. FromExponentAdjusted(5) = 32 /\ FromExponentAdjusted(6) = 64
    BY ShardCounts
  <2> QED BY <1>5, <2>2, <2>3 DEF ShardCountValues
<1>6. CASE 64 <= n /\ n < 128
  <2>1. 6 \in Nat /\ 64 \in Nat \ {0} /\ 2 * 64 = 128 /\ 6 + 1 = 7 /\ n \in Nat
    OBVIOUS
  <2>2. /\ n = 64 => FromUsizeAdjusted(n) = FromExponentAdjusted(6)
        /\ n # 64 => FromUsizeAdjusted(n) = FromExponentAdjusted(7)
    BY <1>6, <2>1, Levels, LevelAdjusted
  <2>3. FromExponentAdjusted(6) = 64 /\ FromExponentAdjusted(7) = 128
    BY ShardCounts
  <2> QED BY <1>6, <2>2, <2>3 DEF ShardCountValues
<1>7. CASE 128 <= n /\ n < 256
  <2>1. 7 \in Nat /\ 128 \in Nat \ {0} /\ 2 * 128 = 256 /\ 7 + 1 = 8 /\ n \in Nat
    OBVIOUS
  <2>2. /\ n = 128 => FromUsizeAdjusted(n) = FromExponentAdjusted(7)
        /\ n # 128 => FromUsizeAdjusted(n) = FromExponentAdjusted(8)
    BY <1>7, <2>1, Levels, LevelAdjusted
  <2>3. FromExponentAdjusted(7) = 128 /\ FromExponentAdjusted(8) = 256
    BY ShardCounts
  <2> QED BY <1>7, <2>2, <2>3 DEF ShardCountValues
<1>8. CASE n >= 256
  <2>1. Ilog2[n] >= 8 /\ Ilog2[n] \in Nat
    BY <1>8, Levels, Ilog2Def DEF Level
  <2>2. CountOnes[n] = 1 => TrailingZeros[n] = Ilog2[n]
    BY OneBit
  <2>3. FromUsizeAdjusted(n) = FromExponentAdjusted(Ilog2[n])
          \/ FromUsizeAdjusted(n) = FromExponentAdjusted(Ilog2[n] + 1)
    BY <2>2 DEF FromUsizeAdjusted
  <2>4. FromExponentAdjusted(Ilog2[n]) = 256 /\ FromExponentAdjusted(Ilog2[n] + 1) = 256
    BY <2>1, ShardCounts
  <2> QED BY <1>8, <2>3, <2>4 DEF ShardCountValues
<1> QED BY <1>0, <1>1, <1>2, <1>3, <1>4, <1>5, <1>6, <1>7, <1>8

\* The inductive invariant: the count is computed from what does not change.
IndexInv ==
  /\ envCount \in EnvCounts
  /\ parallelism \in Nat
  /\ shardCount \in ShardCountValues \cup {Uninitialised, Poisoned}
  /\ shardCount > 0 =>
       /\ Requested \in Nat
       /\ Requested <= 256 => shardCount >= Requested /\ shardCount < 2 * Requested
       /\ Requested > 256 => shardCount = 256

LEMMA IndexInvInit == IndexInit => IndexInv
BY IndexAssumption DEF IndexInit, IndexInv, Uninitialised

LEMMA IndexInvNext ==
  IndexInv /\ (InitShardCount \/ UNCHANGED indexVars) => IndexInv'
<1>1. ASSUME IndexInv, UNCHANGED indexVars
      PROVE  IndexInv'
  BY <1>1 DEF IndexInv, indexVars, Requested
<1>2. ASSUME IndexInv, InitShardCount
      PROVE  IndexInv'
  <2>1. envCount' = envCount /\ parallelism' = parallelism
    BY <1>2 DEF InitShardCount
  <2>2. Requested' = Requested
    BY <2>1 DEF Requested
  <2>3. CASE EnvPanics
    <3>1. shardCount' = Poisoned
      BY <1>2, <2>3 DEF InitShardCount
    <3> QED BY <1>2, <2>1, <3>1 DEF IndexInv, Poisoned
  <2>4. CASE ~EnvPanics
    <3>1. Requested \in Nat \ {0}
      BY <1>2, <2>4, IndexAssumption
         DEF IndexInv, Requested, EnvPanics, NotSet, NotANumber, MaxShardCount
    <3>2. shardCount' = FromUsizeAdjusted(Requested)
      BY <1>2, <2>4 DEF InitShardCount
    <3>3. PICK n \in Nat \ {0} : n = Requested
      BY <3>1
    <3>4. /\ shardCount' \in ShardCountValues
          /\ n <= 256 => shardCount' >= n /\ shardCount' < 2 * n
          /\ n > 256 => shardCount' = 256
      BY <3>2, <3>3, Adjusted
    <3> QED BY <1>2, <2>1, <2>2, <3>3, <3>4 DEF IndexInv
  <2> QED BY <2>3, <2>4
<1> QED BY <1>1, <1>2

\* A value of ShardCount is a power of two.
LEMMA ValuesArePowers ==
  ASSUME NEW c \in ShardCountValues
  PROVE  \E e \in MinExponent .. MaxExponent : c = 2 ^ e
<1>1. /\ 1 = 2 ^ 0 /\ 2 = 2 ^ 1 /\ 4 = 2 ^ 2 /\ 8 = 2 ^ 3 /\ 16 = 2 ^ 4 /\ 32 = 2 ^ 5
      /\ 64 = 2 ^ 6 /\ 128 = 2 ^ 7 /\ 256 = 2 ^ 8
  OBVIOUS
<1>2. \/ c = 2 ^ 0 \/ c = 2 ^ 1 \/ c = 2 ^ 2 \/ c = 2 ^ 3 \/ c = 2 ^ 4 \/ c = 2 ^ 5
      \/ c = 2 ^ 6 \/ c = 2 ^ 7 \/ c = 2 ^ 8
  BY <1>1 DEF ShardCountValues
<1>3. \A i \in 0 .. 8 : i \in MinExponent .. MaxExponent
  BY DEF MinExponent, MaxExponent
<1>4. /\ 0 \in 0 .. 8 /\ 1 \in 0 .. 8 /\ 2 \in 0 .. 8 /\ 3 \in 0 .. 8 /\ 4 \in 0 .. 8
      /\ 5 \in 0 .. 8 /\ 6 \in 0 .. 8 /\ 7 \in 0 .. 8 /\ 8 \in 0 .. 8
  OBVIOUS
<1> QED BY <1>2, <1>3, <1>4, Zenon

LEMMA IndexInvRounds == IndexInv => ShardCountRoundsUp
<1> SUFFICES ASSUME IndexInv, shardCount > 0
             PROVE  /\ \E e \in MinExponent .. MaxExponent : shardCount = 2 ^ e
                    /\ Requested <= MaxShardCount => shardCount >= Requested /\ shardCount < 2 * Requested
                    /\ Requested > MaxShardCount => shardCount = MaxShardCount
  BY Zenon DEF ShardCountRoundsUp
<1>1. shardCount \in ShardCountValues
  BY DEF IndexInv, Uninitialised, Poisoned
<1>2. \E e \in MinExponent .. MaxExponent : shardCount = 2 ^ e
  BY <1>1, ValuesArePowers, Zenon
<1>3. /\ Requested <= MaxShardCount => shardCount >= Requested /\ shardCount < 2 * Requested
      /\ Requested > MaxShardCount => shardCount = MaxShardCount
  BY DEF IndexInv, MaxShardCount
<1> QED BY <1>2, <1>3, Zenon

LEMMA IndexInvInRange == IndexInv => IndexesStayInRange
<1> SUFFICES ASSUME IndexInv, shardCount > 0, NEW cpu \in Cpus
             PROVE  CurrShardIndex(cpu) \in ShardIndexes /\ CurrShardIndex(cpu) = AsUsize(cpu) % shardCount
  BY DEF IndexesStayInRange
<1>1. PICK c \in ShardCountValues : c = shardCount
  BY DEF IndexInv, Uninitialised, Poisoned
<1>2. PICK a \in Nat : a = AsUsize(cpu)
  <2>1. \A m \in Int : \A k \in Nat \ {0} : m % k \in Nat
    OBVIOUS
  <2>2. AsUsize(cpu) \in Nat
    BY <2>1, IndexAssumption DEF AsUsize
  <2> QED BY <2>2
<1>3. CurrShardIndex(cpu) = BitAnd[<<a, c - 1>>] % 256
  BY <1>1, <1>2 DEF CurrShardIndex, Modulo
<1>4. BitAnd[<<a, c - 1>>] = a % c
  BY MaskIsRemainder DEF ShardCountValues
<1>5. a % c \in 0 .. c - 1 /\ (a % c) % 256 = a % c
  BY DEF ShardCountValues
<1> QED BY <1>1, <1>2, <1>3, <1>4, <1>5 DEF ShardIndexes

LEMMA IndexSteps ==
  [Next]_vars => InitShardCount \/ UNCHANGED indexVars
BY Zenon DEF Next, vars, New, Read, TryRead, Write, Continue, AcquireRead, EndRead, TakeWriterBit,
   ReadersGone, SendGuard, EndWrite, Unlock

\* init_shard_count rounds whatever number is asked for up to a power of two, at
\* most 256: count_ones, trailing_zeros and ilog2 find the right exponent.
THEOREM ShardCountCorrect == Spec => []ShardCountRoundsUp
<1>1. Init => IndexInv
  BY IndexInvInit DEF Init
<1> QED
  BY <1>1, IndexInvNext, IndexSteps, IndexInvRounds, PTL DEF Spec

\* The bit mask of curr_shard_index is a remainder and the index is always that
\* of a shard, for every CPU number and every shard count.
THEOREM IndexesInRange == Spec => []IndexesStayInRange
<1>1. Init => IndexInv
  BY IndexInvInit DEF Init
<1> QED
  BY <1>1, IndexInvNext, IndexSteps, IndexInvInRange, PTL DEF Spec

-----------------------------------------------------------------------------
\* Writer t has the writer bit of shard s.
HasBit(t, s) ==
  /\ s \in ShardIndexes
  /\ \/ pc[t] = "bit" /\ s < at[t]
     \/ pc[t] = "wait" /\ s <= at[t]
     \/ pc[t] = "writing"
     \/ pc[t] = "unlock" /\ at[t] <= s

\* Writer t has seen shard s without readers.
HasShard(t, s) == HasBit(t, s) /\ ~(pc[t] = "wait" /\ s = at[t])

\* The inductive invariant: the bits that are set and the readers that are
\* counted are those that the threads' progress says, and a writer that has got
\* past a shard keeps readers out of it.
LockInv ==
  /\ LockTypeOK
  /\ \A t \in Threads, s \in LockShards : writer[s] = t <=> HasBit(t, s)
  /\ \A t \in Threads, s \in LockShards : t \in readers[s] <=> pc[t] = "reading" /\ at[t] = s
  /\ \A t \in Threads, s \in LockShards : HasShard(t, s) => readers[s] = {}

\* A created lock has at least one shard, and all of them are within the bound.
LEMMA ShardsOfLock ==
  ASSUME LockTypeOK, created
  PROVE  /\ shardCount \in Nat
         /\ 0 \in ShardIndexes
         /\ ShardIndexes \subseteq LockShards
BY MaxLockShardsAssumption DEF LockTypeOK, ShardIndexes, LockShards

\* The invariant is what the writer needs: it has every shard, a reader would
\* be counted in one of them.
LEMMA InvExcludes == LockInv => MutualExclusion
<1> SUFFICES ASSUME LockInv, NEW t \in Threads, NEW u \in Threads, t # u,
                    pc[t] = "writing", pc[u] \in {"reading", "writing"}
             PROVE  FALSE
  BY DEF MutualExclusion
<1>1. created /\ at[t] \in ShardIndexes /\ at[u] \in ShardIndexes
  BY DEF LockInv, LockTypeOK
<1>2. 0 \in ShardIndexes /\ ShardIndexes \subseteq LockShards
  BY <1>1, ShardsOfLock DEF LockInv
<1>3. CASE pc[u] = "writing"
  <2>1. HasBit(t, 0) /\ HasBit(u, 0)
    BY <1>2, <1>3 DEF HasBit
  <2> QED
    BY <1>2, <2>1 DEF LockInv
<1>4. CASE pc[u] = "reading"
  <2>1. HasShard(t, at[u])
    BY <1>1 DEF HasShard, HasBit
  <2>2. readers[at[u]] = {} /\ u \in readers[at[u]]
    BY <1>1, <1>2, <1>4, <2>1 DEF LockInv
  <2> QED
    BY <2>2
<1> QED
  BY <1>3, <1>4

LEMMA InitLockInv == Init => LockInv
<1> SUFFICES ASSUME Init PROVE LockInv
  OBVIOUS
<1>1. /\ \A t \in Threads : pc[t] = "idle"
      /\ \A s \in LockShards : writer[s] = NULL /\ readers[s] = {}
  BY DEF Init
<1>2. LockTypeOK
  BY <1>1 DEF Init, LockTypeOK, Steps
<1>3. \A t \in Threads, s \in LockShards : ~HasBit(t, s) /\ ~HasShard(t, s)
  BY <1>1 DEF HasBit, HasShard
<1> QED
  BY <1>1, <1>2, <1>3, LockThreadsAssumption DEF LockInv

\* What changes when a thread goes on to step p at shard s.
LEMMA GotoStep ==
  ASSUME LockTypeOK, NEW t \in Threads, NEW p \in Steps, NEW s \in Nat, Goto(t, p, s)
  PROVE  /\ pc' \in [Threads -> Steps] /\ at' \in [Threads -> Nat]
         /\ pc'[t] = p /\ at'[t] = s
         /\ \A u \in Threads \ {t} : pc'[u] = pc[u] /\ at'[u] = at[u]
BY DEF LockTypeOK, Goto

\* Reading and trying to read put the reader into a shard whose bit nobody has.
LEMMA EnterRead ==
  ASSUME LockInv, created, NEW t \in Threads, NEW s \in ShardIndexes,
         pc[t] \in {"idle", "read"}, writer[s] = NULL,
         readers' = [readers EXCEPT ![s] = @ \cup {t}], Goto(t, "reading", s),
         UNCHANGED <<indexVars, created, writer>>
  PROVE  LockInv'
<1> USE DEF LockInv
<1>1. LockTypeOK /\ ShardIndexes \subseteq LockShards /\ s \in LockShards /\ s \in Nat
  BY ShardsOfLock DEF ShardIndexes
<1>2. "reading" \in Steps
  BY DEF Steps
<1>3. /\ pc' \in [Threads -> Steps] /\ at' \in [Threads -> Nat]
      /\ pc'[t] = "reading" /\ at'[t] = s
      /\ \A u \in Threads \ {t} : pc'[u] = pc[u] /\ at'[u] = at[u]
  BY <1>1, <1>2, GotoStep
<1>4. ShardIndexes' = ShardIndexes
  BY DEF ShardIndexes, indexVars
<1>5. LockTypeOK'
  BY <1>1, <1>3, <1>4 DEF LockTypeOK, indexVars
<1>6. \A u \in Threads, r \in LockShards : HasBit(u, r)' <=> HasBit(u, r)
  BY <1>3, <1>4 DEF HasBit
<1>7. \A u \in Threads : ~HasBit(u, s)
  BY <1>1, LockThreadsAssumption
<1>8. \A u \in Threads, r \in LockShards : u \in readers'[r] <=> pc'[u] = "reading" /\ at'[u] = r
  BY <1>1, <1>3 DEF LockTypeOK
<1>9. \A u \in Threads, r \in LockShards : HasShard(u, r)' => readers'[r] = {}
  <2> SUFFICES ASSUME NEW u \in Threads, NEW r \in LockShards, HasShard(u, r)'
               PROVE  readers'[r] = {}
    OBVIOUS
  <2>1. HasBit(u, r) /\ r # s /\ u # t
    BY <1>3, <1>6, <1>7 DEF HasShard, HasBit
  <2>2. HasShard(u, r)
    BY <1>3, <2>1 DEF HasShard
  <2> QED
    BY <1>1, <2>1, <2>2 DEF LockTypeOK
<1> QED
  BY <1>5, <1>6, <1>8, <1>9

\* A call of read or write begins, or a reader leaves: bits do not change and
\* nobody gains a shard.
LEMMA StepLockInv ==
  ASSUME LockInv, IndexesStayInRange, [Next]_vars
  PROVE  LockInv'
<1> USE DEF LockInv
<1>0. LockTypeOK
  OBVIOUS
<1>a. \A r \in LockShards : r \in Nat
  BY MaxLockShardsAssumption DEF LockShards
<1>1. CASE UNCHANGED vars
  BY <1>1 DEF vars, indexVars, lockVars, LockTypeOK, HasShard, HasBit, ShardIndexes
<1>2. CASE InitShardCount /\ UNCHANGED lockVars
  <2>1. ~created
    BY <1>0, <1>2 DEF InitShardCount, Uninitialised, LockTypeOK
  <2>2. \A t \in Threads : pc[t] = "idle"
    BY <1>0, <2>1 DEF LockTypeOK
  <2> QED
    BY <1>0, <1>2, <2>1, <2>2 DEF lockVars, LockTypeOK, HasShard, HasBit
<1>3. CASE New
  <2>1. \A t \in Threads : pc[t] = "idle"
    BY <1>0, <1>3 DEF LockTypeOK, New
  <2> QED
    BY <1>0, <1>3, <2>1 DEF New, indexVars, LockTypeOK, HasShard, HasBit, ShardIndexes
<1>4. ASSUME NEW t \in Threads, NEW cpu \in Cpus, Read(t, CurrShardIndex(cpu))
      PROVE  LockInv'
  <2> DEFINE s == CurrShardIndex(cpu)
  <2>1. created /\ pc[t] = "idle" /\ Goto(t, "read", s)
        /\ UNCHANGED <<indexVars, created, writer, readers>>
    BY <1>4 DEF Read
  <2>2. s \in ShardIndexes /\ s \in Nat
    BY <1>0, <2>1, ShardsOfLock DEF IndexesStayInRange, ShardIndexes, LockTypeOK
  <2> HIDE DEF s
  <2>3. /\ pc' \in [Threads -> Steps] /\ at' \in [Threads -> Nat]
        /\ pc'[t] = "read" /\ at'[t] = s
        /\ \A u \in Threads \ {t} : pc'[u] = pc[u] /\ at'[u] = at[u]
    BY <1>0, <2>1, <2>2, GotoStep DEF Steps
  <2>4. LockTypeOK' /\ ShardIndexes' = ShardIndexes
    BY <1>0, <2>1, <2>2, <2>3 DEF LockTypeOK, indexVars, ShardIndexes
  <2>5. \A u \in Threads, r \in LockShards : HasBit(u, r)' <=> HasBit(u, r)
    BY <2>1, <2>3, <2>4 DEF HasBit
  <2>6. \A u \in Threads, r \in LockShards : HasShard(u, r)' <=> HasShard(u, r)
    BY <2>1, <2>3, <2>5 DEF HasShard
  <2> QED
    BY <2>1, <2>3, <2>4, <2>5, <2>6
<1>5. ASSUME NEW t \in Threads, NEW cpu \in Cpus, TryRead(t, CurrShardIndex(cpu))
      PROVE  LockInv'
  <2> DEFINE s == CurrShardIndex(cpu)
  <2>1. created /\ s \in ShardIndexes
    BY <1>0, <1>5, ShardsOfLock DEF TryRead, IndexesStayInRange, LockTypeOK
  <2> HIDE DEF s
  <2>2. TryRead(t, s)
    BY <1>5 DEF s
  <2> QED
    BY <2>1, <2>2, EnterRead DEF TryRead
<1>6. ASSUME NEW t \in Threads, AcquireRead(t)
      PROVE  LockInv'
  <2>1. created /\ at[t] \in ShardIndexes
    BY <1>0, <1>6 DEF AcquireRead, LockTypeOK
  <2> QED
    BY <1>6, <2>1, EnterRead DEF AcquireRead
<1>7. ASSUME NEW t \in Threads, EndRead(t)
      PROVE  LockInv'
  <2>1. pc[t] = "reading" /\ readers' = [readers EXCEPT ![at[t]] = @ \ {t}]
        /\ Goto(t, "idle", 0) /\ UNCHANGED <<indexVars, created, writer>>
    BY <1>7 DEF EndRead
  <2>2. /\ pc' \in [Threads -> Steps] /\ at' \in [Threads -> Nat]
        /\ pc'[t] = "idle" /\ at'[t] = 0
        /\ \A u \in Threads \ {t} : pc'[u] = pc[u] /\ at'[u] = at[u]
    BY <1>0, <2>1, GotoStep DEF Steps
  <2>3. at[t] \in LockShards
    BY <1>0, <2>1, ShardsOfLock DEF LockTypeOK
  <2>4. LockTypeOK' /\ ShardIndexes' = ShardIndexes
    BY <1>0, <2>1, <2>2 DEF LockTypeOK, indexVars, ShardIndexes
  <2>5. \A u \in Threads, r \in LockShards : HasBit(u, r)' <=> HasBit(u, r)
    BY <2>1, <2>2, <2>4 DEF HasBit
  <2>6. \A u \in Threads, r \in LockShards : HasShard(u, r)' <=> HasShard(u, r)
    BY <2>1, <2>2, <2>5 DEF HasShard
  <2>7. \A u \in Threads, r \in LockShards : u \in readers'[r] <=> pc'[u] = "reading" /\ at'[u] = r
    BY <1>0, <2>1, <2>2, <2>3 DEF LockTypeOK
  <2>8. \A r \in LockShards : readers'[r] \subseteq readers[r]
    BY <1>0, <2>1 DEF LockTypeOK
  <2> QED
    BY <2>1, <2>4, <2>5, <2>6, <2>7, <2>8
<1>8. ASSUME NEW t \in Threads, Write(t)
      PROVE  LockInv'
  <2>1. created /\ pc[t] = "idle" /\ Goto(t, "bit", 0)
        /\ UNCHANGED <<indexVars, created, writer, readers>>
    BY <1>8 DEF Write
  <2>2. /\ pc' \in [Threads -> Steps] /\ at' \in [Threads -> Nat]
        /\ pc'[t] = "bit" /\ at'[t] = 0
        /\ \A u \in Threads \ {t} : pc'[u] = pc[u] /\ at'[u] = at[u]
    BY <1>0, <2>1, GotoStep DEF Steps
  <2>3. 0 \in ShardIndexes
    BY <1>0, <2>1, ShardsOfLock
  <2>4. LockTypeOK' /\ ShardIndexes' = ShardIndexes
    BY <1>0, <2>1, <2>2, <2>3 DEF LockTypeOK, indexVars, ShardIndexes
  <2>5. \A u \in Threads, r \in LockShards : HasBit(u, r)' <=> HasBit(u, r)
    BY <1>a, <2>1, <2>2, <2>4 DEF HasBit
  <2>6. \A u \in Threads, r \in LockShards : HasShard(u, r)' <=> HasShard(u, r)
    BY <2>1, <2>2, <2>5 DEF HasShard, HasBit, ShardIndexes
  <2> QED
    BY <2>1, <2>2, <2>4, <2>5, <2>6
<1>9. ASSUME NEW t \in Threads, TakeWriterBit(t)
      PROVE  LockInv'
  <2>1. pc[t] = "bit" /\ writer[at[t]] = NULL /\ writer' = [writer EXCEPT ![at[t]] = t]
        /\ Goto(t, "wait", at[t]) /\ UNCHANGED <<indexVars, created, readers>>
    BY <1>9 DEF TakeWriterBit
  <2>2. at[t] \in ShardIndexes /\ at[t] \in LockShards /\ at[t] \in Nat /\ shardCount \in Nat
    BY <1>0, <2>1, ShardsOfLock DEF LockTypeOK
  <2>3. /\ pc' \in [Threads -> Steps] /\ at' \in [Threads -> Nat]
        /\ pc'[t] = "wait" /\ at'[t] = at[t]
        /\ \A u \in Threads \ {t} : pc'[u] = pc[u] /\ at'[u] = at[u]
    BY <1>0, <2>1, <2>2, GotoStep DEF Steps
  <2>4. LockTypeOK' /\ ShardIndexes' = ShardIndexes
    BY <1>0, <2>1, <2>2, <2>3 DEF LockTypeOK, indexVars, ShardIndexes
  <2>5. \A u \in Threads \ {t}, r \in LockShards :
          (HasBit(u, r)' <=> HasBit(u, r)) /\ (HasShard(u, r)' <=> HasShard(u, r))
    BY <2>3, <2>4 DEF HasBit, HasShard
  <2>6. \A r \in LockShards : /\ HasBit(t, r)' <=> HasBit(t, r) \/ r = at[t]
                              /\ HasShard(t, r)' <=> HasShard(t, r)
    <3> SUFFICES ASSUME NEW r \in LockShards
                 PROVE  /\ HasBit(t, r)' <=> HasBit(t, r) \/ r = at[t]
                        /\ HasShard(t, r)' <=> HasShard(t, r)
      OBVIOUS
    <3>1. r \in Nat /\ (r \in ShardIndexes)' = (r \in ShardIndexes)
      BY <1>a, <2>4
    <3>2. r \in ShardIndexes <=> r < shardCount
      BY <2>2, <3>1 DEF ShardIndexes
    <3>3. at[t] < shardCount
      BY <2>2 DEF ShardIndexes
    <3> HIDE DEF LockInv
    <3> QED
      BY <2>1, <2>2, <2>3, <3>1, <3>2, <3>3 DEF HasBit, HasShard
  <2>7. \A u \in Threads : ~HasBit(u, at[t])
    BY <2>1, <2>2, LockThreadsAssumption
  <2>8. \A u \in Threads, r \in LockShards : writer'[r] = u <=> HasBit(u, r)'
    BY <1>0, <2>1, <2>2, <2>5, <2>6, <2>7 DEF LockTypeOK
  <2> QED
    BY <2>1, <2>3, <2>4, <2>5, <2>6, <2>8
<1>10. ASSUME NEW t \in Threads, ReadersGone(t)
       PROVE  LockInv'
  <2>1. pc[t] = "wait" /\ readers[at[t]] = {} /\ UNCHANGED <<indexVars, created, writer, readers>>
    BY <1>10 DEF ReadersGone
  <2>2. at[t] \in ShardIndexes /\ at[t] \in LockShards /\ at[t] \in Nat /\ shardCount \in Nat
    BY <1>0, <2>1, ShardsOfLock DEF LockTypeOK
  <2>3. /\ pc' \in [Threads -> Steps] /\ at' \in [Threads -> Nat]
        /\ \/ pc'[t] = "writing" /\ at'[t] = at[t] /\ at[t] = shardCount - 1
           \/ pc'[t] = "bit" /\ at'[t] = at[t] + 1 /\ at[t] # shardCount - 1
        /\ \A u \in Threads \ {t} : pc'[u] = pc[u] /\ at'[u] = at[u]
    <3>1. CASE IsLast(at[t])
      BY <1>0, <1>10, <2>2, <3>1, GotoStep DEF ReadersGone, IsLast, Steps
    <3>2. CASE ~IsLast(at[t])
      <4>1. Goto(t, "bit", at[t] + 1) /\ at[t] + 1 \in Nat
        BY <1>10, <2>2, <3>2 DEF ReadersGone
      <4> QED
        BY <1>0, <3>2, <4>1, GotoStep DEF IsLast, Steps
    <3> QED
      BY <3>1, <3>2
  <2>4. LockTypeOK' /\ ShardIndexes' = ShardIndexes
    BY <1>0, <2>1, <2>2, <2>3 DEF LockTypeOK, indexVars, ShardIndexes
  <2>5. \A u \in Threads \ {t}, r \in LockShards :
          (HasBit(u, r)' <=> HasBit(u, r)) /\ (HasShard(u, r)' <=> HasShard(u, r))
    BY <2>3, <2>4 DEF HasBit, HasShard
  <2>6. \A r \in LockShards : /\ HasBit(t, r)' <=> HasBit(t, r)
                              /\ HasShard(t, r)' <=> HasShard(t, r) \/ r = at[t]
    <3> SUFFICES ASSUME NEW r \in LockShards
                 PROVE  /\ HasBit(t, r)' <=> HasBit(t, r)
                        /\ HasShard(t, r)' <=> HasShard(t, r) \/ r = at[t]
      OBVIOUS
    <3>1. r \in Nat /\ (r \in ShardIndexes)' = (r \in ShardIndexes)
      BY <1>a, <2>4
    <3>2. r \in ShardIndexes <=> r < shardCount
      BY <2>2, <3>1 DEF ShardIndexes
    <3>3. at[t] < shardCount
      BY <2>2 DEF ShardIndexes
    <3> HIDE DEF LockInv
    <3> QED
      BY <2>1, <2>2, <2>3, <3>1, <3>2, <3>3 DEF HasBit, HasShard
  <2> QED
    BY <2>1, <2>3, <2>4, <2>5, <2>6
<1>11. ASSUME NEW t \in Threads, EndWrite(t)
       PROVE  LockInv'
  <2>1. pc[t] = "writing" /\ Goto(t, "unlock", 0)
        /\ UNCHANGED <<indexVars, created, writer, readers>>
    BY <1>11 DEF EndWrite
  <2>2. /\ pc' \in [Threads -> Steps] /\ at' \in [Threads -> Nat]
        /\ pc'[t] = "unlock" /\ at'[t] = 0
        /\ \A u \in Threads \ {t} : pc'[u] = pc[u] /\ at'[u] = at[u]
    BY <1>0, <2>1, GotoStep DEF Steps
  <2>3. 0 \in ShardIndexes
    BY <1>0, <2>1, ShardsOfLock DEF LockTypeOK
  <2>4. LockTypeOK' /\ ShardIndexes' = ShardIndexes
    BY <1>0, <2>1, <2>2, <2>3 DEF LockTypeOK, indexVars, ShardIndexes
  <2>5. \A u \in Threads, r \in LockShards : HasBit(u, r)' <=> HasBit(u, r)
    BY <1>a, <2>1, <2>2, <2>4 DEF HasBit
  <2>6. \A u \in Threads, r \in LockShards : HasShard(u, r)' <=> HasShard(u, r)
    BY <2>1, <2>2, <2>5 DEF HasShard, HasBit, ShardIndexes
  <2> QED
    BY <2>1, <2>2, <2>4, <2>5, <2>6
<1>12. ASSUME NEW t \in Threads, Unlock(t)
       PROVE  LockInv'
  <2>1. pc[t] = "unlock" /\ writer' = [writer EXCEPT ![at[t]] = NULL]
        /\ UNCHANGED <<indexVars, created, readers>>
    BY <1>12 DEF Unlock
  <2>2. at[t] \in ShardIndexes /\ at[t] \in LockShards /\ at[t] \in Nat /\ shardCount \in Nat
    BY <1>0, <2>1, ShardsOfLock DEF LockTypeOK
  <2>3. /\ pc' \in [Threads -> Steps] /\ at' \in [Threads -> Nat]
        /\ \/ pc'[t] = "idle" /\ at[t] = shardCount - 1
           \/ pc'[t] = "unlock" /\ at'[t] = at[t] + 1 /\ at[t] # shardCount - 1
        /\ \A u \in Threads \ {t} : pc'[u] = pc[u] /\ at'[u] = at[u]
    <3>1. CASE IsLast(at[t])
      BY <1>0, <1>12, <3>1, GotoStep DEF Unlock, IsLast, Steps
    <3>2. CASE ~IsLast(at[t])
      <4>1. Goto(t, "unlock", at[t] + 1) /\ at[t] + 1 \in Nat
        BY <1>12, <2>2, <3>2 DEF Unlock
      <4> QED
        BY <1>0, <3>2, <4>1, GotoStep DEF IsLast, Steps
    <3> QED
      BY <3>1, <3>2
  <2>4. LockTypeOK' /\ ShardIndexes' = ShardIndexes
    BY <1>0, <2>1, <2>2, <2>3 DEF LockTypeOK, indexVars, ShardIndexes
  <2>5. \A u \in Threads \ {t}, r \in LockShards :
          (HasBit(u, r)' <=> HasBit(u, r)) /\ (HasShard(u, r)' <=> HasShard(u, r))
    BY <2>3, <2>4 DEF HasBit, HasShard
  <2>6. \A r \in LockShards : /\ HasBit(t, r)' <=> HasBit(t, r) /\ r # at[t]
                              /\ HasShard(t, r)' => HasShard(t, r)
    <3> SUFFICES ASSUME NEW r \in LockShards
                 PROVE  /\ HasBit(t, r)' <=> HasBit(t, r) /\ r # at[t]
                        /\ HasShard(t, r)' => HasShard(t, r)
      OBVIOUS
    <3>1. r \in Nat /\ (r \in ShardIndexes)' = (r \in ShardIndexes)
      BY <1>a, <2>4
    <3>2. r \in ShardIndexes <=> r < shardCount
      BY <2>2, <3>1 DEF ShardIndexes
    <3>3. at[t] < shardCount
      BY <2>2 DEF ShardIndexes
    <3> HIDE DEF LockInv
    <3> QED
      BY <2>1, <2>2, <2>3, <3>1, <3>2, <3>3 DEF HasBit, HasShard
  <2>7. HasBit(t, at[t])
    BY <2>1, <2>2 DEF HasBit
  <2>8. \A u \in Threads, r \in LockShards : writer'[r] = u <=> HasBit(u, r)'
    BY <1>0, <2>1, <2>2, <2>5, <2>6, <2>7, LockThreadsAssumption DEF LockTypeOK
  <2> QED
    BY <2>1, <2>3, <2>4, <2>5, <2>6, <2>8
<1>13. ASSUME NEW t \in Threads, NEW u \in Threads, SendGuard(t, u)
       PROVE  LockInv'
  <2>1. /\ pc[t] = "writing" /\ pc[u] = "idle" /\ t # u
        /\ writer' = [s \in LockShards |-> IF writer[s] = t THEN u ELSE writer[s]]
        /\ pc' = [pc EXCEPT ![t] = "idle", ![u] = "writing"]
        /\ at' = [at EXCEPT ![t] = 0, ![u] = at[t]]
        /\ UNCHANGED <<indexVars, created, readers>>
    BY <1>13 DEF SendGuard
  <2>2. /\ pc' \in [Threads -> Steps] /\ at' \in [Threads -> Nat]
        /\ pc'[t] = "idle" /\ pc'[u] = "writing" /\ at'[u] = at[t]
        /\ \A v \in Threads \ {t, u} : pc'[v] = pc[v] /\ at'[v] = at[v]
    BY <1>0, <2>1 DEF LockTypeOK, Steps
  <2>3. ShardIndexes' = ShardIndexes
    BY <2>1 DEF indexVars, ShardIndexes
  <2>4. LockTypeOK'
    BY <1>0, <2>1, <2>2, <2>3 DEF LockTypeOK, indexVars
  <2>5. \A v \in Threads \ {t, u}, r \in LockShards :
          (HasBit(v, r)' <=> HasBit(v, r)) /\ (HasShard(v, r)' <=> HasShard(v, r))
    BY <2>2, <2>3 DEF HasBit, HasShard
  <2>6. \A r \in LockShards : /\ ~HasBit(u, r) /\ ~HasBit(t, r)'
                              /\ HasBit(u, r)' <=> HasBit(t, r)
                              /\ HasShard(u, r)' <=> HasShard(t, r)
                              /\ ~HasShard(t, r)'
    BY <2>1, <2>2, <2>3 DEF HasBit, HasShard
  <2>7. \A v \in Threads, r \in LockShards : writer'[r] = v <=> HasBit(v, r)'
    BY <1>0, <2>1, <2>5, <2>6, LockThreadsAssumption DEF LockTypeOK
  <2>8. \A v \in Threads, r \in LockShards : v \in readers'[r] <=> pc'[v] = "reading" /\ at'[v] = r
    BY <2>1, <2>2
  <2>9. \A v \in Threads, r \in LockShards : HasShard(v, r)' => readers'[r] = {}
    BY <2>1, <2>5, <2>6
  <2> QED
    BY <2>4, <2>7, <2>8, <2>9
<1> QED
  BY <1>1, <1>2, <1>3, <1>4, <1>5, <1>6, <1>7, <1>8, <1>9, <1>10, <1>11, <1>12, <1>13
  DEF Next, Continue

\* While a thread has the write guard nobody else has a guard, for every number
\* of threads and shards: the read and write loops of sharded_rwlock.rs keep the
\* promise of a read-write lock.
THEOREM LockExcludes == Spec => []MutualExclusion
<1>1. Spec => []LockInv
  BY IndexesInRange, InitLockInv, StepLockInv, PTL DEF Spec
<1> QED
  BY <1>1, InvExcludes, PTL

\* The lock's state is well typed in every state, and no loop leaves the shards.
THEOREM LockTypeCorrect == Spec => []LockTypeOK
<1>1. Spec => []LockInv
  BY IndexesInRange, InitLockInv, StepLockInv, PTL DEF Spec
<1>2. LockInv => LockTypeOK
  BY DEF LockInv
<1> QED
  BY <1>1, <1>2, PTL
=============================================================================
