------------------------ MODULE ChainDatabaseProofs -------------------------
(***************************************************************************)
(* Proofs about ChainDatabase, for any tree of blocks, any witnesses,      *)
(* transactions and history sizes, and any number of shutdowns and starts; *)
(* about WitnessSchedule, for any witnesses, elections and parameters; and *)
(* about TransactionPool, for any transactions, limits and forks.          *)
(***************************************************************************)
EXTENDS ChainDatabase, DataLemmas

-----------------------------------------------------------------------------
(* Lineages.                                                               *)

\* A sequence of blocks from number 1, each linking to the one before.
Path(c) ==
  /\ c \in Seq(Blocks)
  /\ \A i \in 1..Len(c) : Parent[c[i]] = IF i = 1 THEN Genesis ELSE c[i - 1]

\* A path that ends with b.
PathTo(b, c) == Path(c) /\ Len(c) > 0 /\ c[Len(c)] = b

\* Every block has a path.
LEMMA PathExists ==
  ASSUME NEW b \in Blocks
  PROVE  \E c \in Seq(Blocks) : PathTo(b, c)
<1> DEFINE S == {x \in Blocks : ~\E c \in Seq(Blocks) : PathTo(x, c)}
<1>1. ASSUME S # {} PROVE FALSE
  <2>1. PICK x \in S : Parent[x] \notin S
    BY <1>1, BlockTreeAssumption
  <2>2. x \in Blocks
    BY <2>1
  <2>3. CASE Parent[x] = Genesis
    <3>1. <<x>> \in Seq(Blocks) /\ Len(<<x>>) = 1 /\ <<x>>[1] = x
      BY <2>2
    <3>2. PathTo(x, <<x>>)
      BY <2>3, <3>1 DEF Path, PathTo
    <3> QED
      BY <2>1, <3>1, <3>2
  <2>4. CASE Parent[x] # Genesis
    <3>1. Parent[x] \in Blocks
      BY <2>2, <2>4, BlockTreeAssumption
    <3>2. PICK c \in Seq(Blocks) : PathTo(Parent[x], c)
      BY <2>1, <3>1
    <3> DEFINE d == Append(c, x)
    <3>3. /\ d \in Seq(Blocks) /\ Len(d) = Len(c) + 1 /\ d[Len(c) + 1] = x
          /\ \A i \in 1..Len(c) : d[i] = c[i]
      BY <2>2
    <3>4. Len(c) > 0 /\ c[Len(c)] = Parent[x] /\ Len(c) \in Nat
      BY <3>2 DEF PathTo
    <3>5. ASSUME NEW i \in 1..Len(d) PROVE Parent[d[i]] = IF i = 1 THEN Genesis ELSE d[i - 1]
      <4>1. CASE i = Len(c) + 1
        BY <3>3, <3>4, <4>1
      <4>2. CASE i # Len(c) + 1
        <5>1. i \in 1..Len(c) /\ (i # 1 => i - 1 \in 1..Len(c))
          BY <3>3, <3>4, <4>2
        <5> QED
          BY <3>2, <3>3, <5>1 DEF PathTo, Path
      <4> QED
        BY <4>1, <4>2
    <3>6. PathTo(x, d)
      <4> HIDE DEF d
      <4> QED
        BY <3>3, <3>4, <3>5 DEF Path, PathTo
    <3> QED
      BY <2>1, <3>3, <3>6
  <2> QED
    BY <2>3, <2>4
<1> QED
  BY <1>1

\* What is before the last block of a path.
LEMMA PathFront ==
  ASSUME NEW c, Path(c), Len(c) > 0
  PROVE  /\ c[Len(c)] \in Blocks
         /\ Len(c) = 1 => Parent[c[Len(c)]] = Genesis /\ c = <<c[1]>>
         /\ Len(c) # 1 => /\ Parent[c[Len(c)]] = c[Len(c) - 1]
                          /\ Parent[c[Len(c)]] \in Blocks
                          /\ PathTo(c[Len(c) - 1], SubSeq(c, 1, Len(c) - 1))
<1>1. c \in Seq(Blocks) /\ Len(c) \in Nat
  BY DEF Path
<1>2. c[Len(c)] \in Blocks
  BY <1>1
<1>3. ASSUME Len(c) = 1 PROVE Parent[c[Len(c)]] = Genesis /\ c = <<c[1]>>
  BY <1>1, <1>3 DEF Path
<1>4. ASSUME Len(c) # 1
      PROVE  /\ Parent[c[Len(c)]] = c[Len(c) - 1] /\ Parent[c[Len(c)]] \in Blocks
             /\ PathTo(c[Len(c) - 1], SubSeq(c, 1, Len(c) - 1))
  <2> DEFINE d == SubSeq(c, 1, Len(c) - 1)
  <2>1. /\ d \in Seq(Blocks) /\ Len(d) = Len(c) - 1 /\ Len(d) > 0
        /\ \A i \in 1..Len(d) : d[i] = c[i]
    BY <1>1, <1>4
  <2> DEFINE n == Len(c)
  <2>6. n \in 1..n /\ n - 1 \in 1..n /\ n # 1 /\ n \in Nat
    <3>1. n \in Nat /\ n > 0 /\ n # 1
      BY <1>1, <1>4
    <3> HIDE DEF n
    <3> QED
      BY <3>1
  <2>2. Parent[c[n]] = c[n - 1]
    BY <2>6 DEF Path
  <2>3. c[n - 1] \in Blocks
    BY <1>1, <2>6
  <2>4. ASSUME NEW i \in 1..Len(d) PROVE Parent[d[i]] = IF i = 1 THEN Genesis ELSE d[i - 1]
    <3>1. i \in 1..Len(c) /\ (i # 1 => i - 1 \in 1..Len(d))
      BY <1>1, <2>1
    <3> QED
      BY <2>1, <3>1 DEF Path
  <2> HIDE DEF d
  <2>5. PathTo(c[Len(c) - 1], d)
    BY <1>1, <2>1, <2>4 DEF Path, PathTo
  <2> QED
    BY <2>2, <2>3, <2>5 DEF d
<1> QED
  BY <1>2, <1>3, <1>4

\* A block has one path.
LEMMA PathUnique ==
  ASSUME NEW b \in Blocks, NEW c, PathTo(b, c), NEW d, PathTo(b, d)
  PROVE  c = d
<1> DEFINE S == {x \in Blocks : \E u, v \in Seq(Blocks) : PathTo(x, u) /\ PathTo(x, v) /\ u # v}
<1>1. ASSUME S # {} PROVE FALSE
  <2>1. PICK x \in S : Parent[x] \notin S
    BY <1>1, BlockTreeAssumption
  <2>2. PICK u \in Seq(Blocks), v \in Seq(Blocks) : PathTo(x, u) /\ PathTo(x, v) /\ u # v
    BY <2>1
  <2>3. x \in Blocks /\ Len(u) \in Nat \ {0} /\ Len(v) \in Nat \ {0} /\ u[Len(u)] = x /\ v[Len(v)] = x
    BY <2>1, <2>2 DEF PathTo
  <2>4. /\ Len(u) = 1 => Parent[x] = Genesis /\ u = <<x>>
        /\ Len(v) = 1 => Parent[x] = Genesis /\ v = <<x>>
        /\ Len(u) # 1 => Parent[x] \in Blocks /\ PathTo(Parent[x], SubSeq(u, 1, Len(u) - 1))
        /\ Len(v) # 1 => Parent[x] \in Blocks /\ PathTo(Parent[x], SubSeq(v, 1, Len(v) - 1))
    BY <2>2, <2>3, PathFront DEF PathTo
  <2>5. Len(u) # 1 /\ Len(v) # 1
    BY <2>2, <2>4, BlockTreeAssumption
  <2>6. SubSeq(u, 1, Len(u) - 1) = SubSeq(v, 1, Len(v) - 1)
    <3> DEFINE p == SubSeq(u, 1, Len(u) - 1)
               q == SubSeq(v, 1, Len(v) - 1)
    <3>1. PathTo(Parent[x], p) /\ PathTo(Parent[x], q) /\ Parent[x] \in Blocks
      BY <2>4, <2>5
    <3>2. p \in Seq(Blocks) /\ q \in Seq(Blocks)
      BY <3>1 DEF PathTo, Path
    <3> HIDE DEF p, q
    <3>3. p = q
      BY <2>1, <3>1, <3>2
    <3> QED
      BY <3>3 DEF p, q
  <2>7. Len(u) = Len(v)
    <3>1. Len(SubSeq(u, 1, Len(u) - 1)) = Len(u) - 1 /\ Len(SubSeq(v, 1, Len(v) - 1)) = Len(v) - 1
      <4>1. ASSUME NEW w \in Seq(Blocks), Len(w) \in Nat \ {0} PROVE Len(SubSeq(w, 1, Len(w) - 1)) = Len(w) - 1
        <5> DEFINE n == Len(w) - 1
        <5>1. n \in Nat /\ n <= Len(w)
          BY <4>1
        <5> HIDE DEF n
        <5>2. Len(SubSeq(w, 1, n)) = n
          BY <5>1, PrefixOf
        <5> QED
          BY <5>2 DEF n
      <4> QED
        BY <2>3, <4>1
    <3> QED
      BY <2>3, <2>6, <3>1
  <2>8. ASSUME NEW i \in 1..Len(u) PROVE u[i] = v[i]
    <3>1. CASE i = Len(u)
      BY <2>3, <2>7, <3>1
    <3>2. CASE i # Len(u)
      <4>1. i \in 1..(Len(u) - 1)
        BY <2>3, <3>2
      <4>2. u[i] = SubSeq(u, 1, Len(u) - 1)[i] /\ v[i] = SubSeq(v, 1, Len(v) - 1)[i]
        BY <2>2, <2>3, <2>7, <4>1
      <4> QED
        BY <2>6, <4>2
    <3> QED
      BY <3>1, <3>2
  <2> QED
    BY <2>2, <2>7, <2>8
<1>2. c \in Seq(Blocks) /\ d \in Seq(Blocks)
  BY DEF PathTo, Path
<1> QED
  BY <1>1, <1>2

\* The recursive definition of Lineage defines the path.
LEMMA LineageIsPath ==
  ASSUME NEW b \in Blocks
  PROVE  PathTo(b, Lineage[b])
<1> DEFINE g == [x \in Blocks |-> CHOOSE c \in Seq(Blocks) : PathTo(x, c)]
           Solves(f) == f = [x \in Blocks |-> IF Parent[x] = Genesis THEN <<x>> ELSE Append(f[Parent[x]], x)]
<1> HIDE DEF g
<1>1. \A x \in Blocks : g[x] \in Seq(Blocks) /\ PathTo(x, g[x])
  BY PathExists DEF g
<1>2. ASSUME NEW x \in Blocks
      PROVE  g[x] = IF Parent[x] = Genesis THEN <<x>> ELSE Append(g[Parent[x]], x)
  <2> DEFINE c == g[x]
  <2>1. c \in Seq(Blocks) /\ PathTo(x, c) /\ Len(c) \in Nat \ {0} /\ c[Len(c)] = x
    BY <1>1 DEF PathTo
  <2> HIDE DEF c
  <2>2. /\ Len(c) = 1 => Parent[x] = Genesis /\ c = <<x>>
        /\ Len(c) # 1 => Parent[x] \in Blocks /\ PathTo(Parent[x], SubSeq(c, 1, Len(c) - 1))
    BY <2>1, PathFront DEF PathTo
  <2>3. CASE Len(c) = 1
    BY <2>2, <2>3 DEF c
  <2>4. CASE Len(c) # 1
    <3>1. Parent[x] # Genesis /\ PathTo(Parent[x], g[Parent[x]])
      BY <1>1, <2>2, <2>4, BlockTreeAssumption
    <3>2. g[Parent[x]] = SubSeq(c, 1, Len(c) - 1)
      BY <2>2, <2>4, <3>1, PathUnique
    <3>3. c = Append(SubSeq(c, 1, Len(c) - 1), x)
      BY <2>1, <2>4
    <3> QED
      BY <3>1, <3>2, <3>3 DEF c
  <2> QED
    BY <2>3, <2>4
<1>3. Solves(g)
  <2>1. DOMAIN g = Blocks /\ g = [x \in Blocks |-> g[x]]
    BY DEF g
  <2> QED
    BY <1>2, <2>1
<1>4. Lineage = CHOOSE f : Solves(f)
  BY DEF Lineage
<1>5. Solves(Lineage)
  <2> HIDE DEF Solves
  <2> QED
    BY <1>3, <1>4
<1>6. \A x \in Blocks : Lineage[x] = IF Parent[x] = Genesis THEN <<x>> ELSE Append(Lineage[Parent[x]], x)
  BY <1>5
<1> DEFINE S == {x \in Blocks : Lineage[x] # g[x]}
<1>7. ASSUME S # {} PROVE FALSE
  <2>1. PICK x \in S : Parent[x] \notin S
    BY <1>7, BlockTreeAssumption
  <2>2. x \in Blocks /\ (Parent[x] # Genesis => Parent[x] \in Blocks)
    BY <2>1, BlockTreeAssumption
  <2>3. Lineage[x] = g[x]
    BY <1>2, <1>6, <2>1, <2>2
  <2> QED
    BY <2>1, <2>3
<1> QED
  BY <1>1, <1>7

\* A lineage, by numbers.
LEMMA LineageType ==
  ASSUME NEW b \in Blocks
  PROVE  /\ Lineage[b] \in Seq(Blocks) /\ Num(b) \in Nat \ {0} /\ Len(Lineage[b]) = Num(b)
         /\ Lineage[b][Num(b)] = b /\ Path(Lineage[b])
<1>1. PathTo(b, Lineage[b])
  BY LineageIsPath
<1> QED
  BY <1>1 DEF PathTo, Path, Num

\* A path is the lineage of its last block.
LEMMA PathIsLineage ==
  ASSUME NEW c, Path(c), c # << >>
  PROVE  /\ HeadOf(c) \in Blocks /\ HeadOf(c) = c[Len(c)] /\ Len(c) \in Nat \ {0}
         /\ c = Lineage[HeadOf(c)] /\ Num(HeadOf(c)) = Len(c)
<1>1. c \in Seq(Blocks) /\ Len(c) \in Nat \ {0} /\ HeadOf(c) = c[Len(c)]
  BY DEF Path, HeadOf, Last
<1>2. HeadOf(c) \in Blocks
  BY <1>1
<1>3. PathTo(HeadOf(c), c)
  BY <1>1 DEF PathTo
<1>4. c = Lineage[HeadOf(c)]
  BY <1>2, <1>3, LineageIsPath, PathUnique
<1> QED
  BY <1>1, <1>2, <1>4 DEF Num

\* The head of a path is Genesis or a block; the length tells which.
LEMMA HeadOfPath ==
  ASSUME NEW c, Path(c)
  PROVE  /\ c \in Seq(Blocks) /\ Len(c) \in Nat
         /\ HeadOf(c) = Genesis <=> c = << >>
         /\ HeadOf(c) = Genesis <=> Len(c) = 0
         /\ HeadOf(c) \in Blocks \cup {Genesis}
<1>1. c \in Seq(Blocks)
  BY DEF Path
<1>2. CASE c = << >>
  BY <1>1, <1>2 DEF HeadOf
<1>3. CASE c # << >>
  BY <1>1, <1>3, PathIsLineage, BlockTreeAssumption
<1> QED
  BY <1>2, <1>3

\* The beginning of a path is a path.
LEMMA PathPrefix ==
  ASSUME NEW c, Path(c), NEW n \in Nat, n <= Len(c)
  PROVE  Path(SubSeq(c, 1, n))
<1> DEFINE d == SubSeq(c, 1, n)
<1>1. c \in Seq(Blocks) /\ Len(c) \in Nat
  BY DEF Path
<1>2. d \in Seq(Blocks) /\ Len(d) = n /\ \A i \in 1..n : d[i] = c[i]
  BY <1>1, PrefixOf
<1>3. ASSUME NEW i \in 1..n PROVE Parent[d[i]] = IF i = 1 THEN Genesis ELSE d[i - 1]
  <2>1. i \in 1..Len(c) /\ (i # 1 => i - 1 \in 1..n)
    BY <1>1
  <2> QED
    BY <1>2, <2>1 DEF Path
<1> HIDE DEF d
<1>4. Path(d)
  BY <1>2, <1>3 DEF Path
<1> QED
  BY <1>4 DEF d

\* A block that links to the head makes the path longer by one.
LEMMA PathAppend ==
  ASSUME NEW c, Path(c), NEW b \in Blocks, Parent[b] = HeadOf(c)
  PROVE  Path(Append(c, b)) /\ Num(b) = Len(c) + 1 /\ Lineage[b] = Append(c, b)
<1> DEFINE d == Append(c, b)
<1>1. c \in Seq(Blocks) /\ Len(c) \in Nat
  BY DEF Path
<1>2. /\ d \in Seq(Blocks) /\ Len(d) = Len(c) + 1 /\ d[Len(c) + 1] = b
      /\ \A i \in 1..Len(c) : d[i] = c[i]
  BY <1>1
<1>3. ASSUME NEW i \in 1..(Len(c) + 1) PROVE Parent[d[i]] = IF i = 1 THEN Genesis ELSE d[i - 1]
  <2>1. CASE i = Len(c) + 1
    <3>1. CASE Len(c) = 0
      <4>1. HeadOf(c) = Genesis
        BY <3>1, HeadOfPath
      <4> QED
        BY <1>2, <2>1, <3>1, <4>1
    <3>2. CASE Len(c) # 0
      <4>1. HeadOf(c) = c[Len(c)]
        BY <3>2, <1>1, PathIsLineage
      <4>2. Len(c) \in 1..Len(c) /\ i # 1 /\ i - 1 = Len(c)
        BY <1>1, <2>1, <3>2
      <4> QED
        BY <1>2, <2>1, <4>1, <4>2
    <3> QED
      BY <3>1, <3>2
  <2>2. CASE i # Len(c) + 1
    <3>1. i \in 1..Len(c) /\ (i # 1 => i - 1 \in 1..Len(c))
      BY <1>1, <2>2
    <3> QED
      BY <1>2, <3>1 DEF Path
  <2> QED
    BY <2>1, <2>2
<1> HIDE DEF d
<1>4. Path(d)
  BY <1>2, <1>3 DEF Path
<1>5. d # << >> /\ Last(d) = b
  BY <1>1, <1>2 DEF Last
<1>6. HeadOf(d) = b
  BY <1>5 DEF HeadOf
<1>7. d = Lineage[b] /\ Num(b) = Len(d)
  BY <1>4, <1>5, <1>6, PathIsLineage
<1> QED
  BY <1>2, <1>4, <1>7 DEF d

\* The members of a lineage.
LEMMA LineageAt ==
  ASSUME NEW b \in Blocks, NEW i \in 1..Num(b)
  PROVE  /\ Lineage[b][i] \in Blocks /\ Num(Lineage[b][i]) = i
         /\ Lineage[Lineage[b][i]] = SubSeq(Lineage[b], 1, i)
         /\ i = 1 => Parent[Lineage[b][i]] = Genesis
         /\ i # 1 => Parent[Lineage[b][i]] = Lineage[b][i - 1] /\ i - 1 \in 1..Num(b)
<1> DEFINE L == Lineage[b]
           d == SubSeq(L, 1, i)
<1>1. L \in Seq(Blocks) /\ Num(b) \in Nat /\ Len(L) = Num(b) /\ Path(L)
  BY LineageType
<1>2. i \in Nat /\ i <= Num(b) /\ i # 0
  BY <1>1
<1> HIDE DEF L
<1>3. d \in Seq(Blocks) /\ Len(d) = i /\ d[i] = L[i]
  BY <1>1, <1>2, PrefixOf
<1>4. Path(d)
  BY <1>1, <1>2, PathPrefix
<1> HIDE DEF d
<1>5. d # << >> /\ HeadOf(d) = L[i]
  BY <1>2, <1>3 DEF HeadOf, Last
<1>6. L[i] \in Blocks /\ d = Lineage[L[i]] /\ Num(L[i]) = i
  BY <1>3, <1>4, <1>5, PathIsLineage
<1>7. /\ i = 1 => Parent[L[i]] = Genesis
      /\ i # 1 => Parent[L[i]] = L[i - 1] /\ i - 1 \in 1..Num(b)
  BY <1>1, <1>2 DEF Path
<1> QED
  BY <1>6, <1>7 DEF L, d

\* Every number is at most MaxNum.
LEMMA Numbers ==
  /\ MaxNum \in Nat
  /\ \A b \in Blocks : Num(b) \in 1..MaxNum
<1> DEFINE N == {Num(b) : b \in Blocks}
<1>1. N \subseteq Nat /\ N # {} /\ IsFiniteSet(N)
  <2>1. N \subseteq Nat /\ N # {}
    BY LineageType, BlockTreeAssumption
  <2>2. IsFiniteSet(N)
    <3> DEFINE f == [b \in Blocks |-> Num(b)]
    <3>1. f \in Surjection(Blocks, N)
      <4>1. f \in [Blocks -> N] /\ \A n \in N : \E b \in Blocks : f[b] = n
        OBVIOUS
      <4> HIDE DEF f, N
      <4> QED
        BY <4>1 DEF Surjection
    <3> HIDE DEF f, N
    <3> QED
      BY <3>1, FS_Surjection, BlockTreeAssumption
  <2> QED
    BY <2>1, <2>2
<1>2. \E n \in N : \A k \in N : k <= n
  BY <1>1, GreatestNumber
<1>3. MaxNum \in N /\ \A b \in Blocks : Num(b) <= MaxNum
  BY <1>2 DEF MaxNum
<1> QED
  BY <1>1, <1>3, LineageType

-----------------------------------------------------------------------------
(* The last irreversible block.                                            *)

\* The numbers that witnesses confirmed are those of blocks, or 0.
LEMMA ConfirmedType ==
  ASSUME NEW c \in Seq(Blocks), NEW w \in Witnesses
  PROVE  Confirmed(c, w) \in Nat /\ Confirmed(c, w) <= Len(c)
<1> DEFINE nums == {i \in DOMAIN c : Signer[c[i]] = w}
<1>1. Len(c) \in Nat /\ DOMAIN c = 1..Len(c)
  OBVIOUS
<1>2. nums \subseteq 1..Len(c) /\ nums \subseteq Nat
  BY <1>1
<1>3. IsFiniteSet(nums)
  <2>1. IsFiniteSet(1..Len(c))
    BY <1>1, FS_Interval
  <2> HIDE DEF nums
  <2> QED
    BY <1>2, <2>1, FS_Subset
<1>4. Confirmed(c, w) = IF nums = {} THEN 0 ELSE CHOOSE i \in nums : \A j \in nums : j <= i
  BY DEF Confirmed
<1> HIDE DEF nums
<1>5. CASE nums = {}
  BY <1>1, <1>4, <1>5
<1>6. CASE nums # {}
  <2>1. \E i \in nums : \A j \in nums : j <= i
    BY <1>2, <1>3, <1>6, GreatestNumber
  <2>2. Confirmed(c, w) \in nums
    BY <1>4, <1>6, <2>1
  <2>3. \A x \in nums : x \in Nat /\ x <= Len(c)
    BY <1>1, <1>2
  <2> QED
    BY <2>2, <2>3
<1> QED
  BY <1>5, <1>6

\* For every rank there is a number at that rank.
LEMMA RankExists ==
  ASSUME NEW f \in [Witnesses -> Nat], NEW N \in Nat, \A w \in Witnesses : f[w] <= N,
         NEW k \in Nat, k < Cardinality(Witnesses)
  PROVE  \E n \in Range(f) : /\ Cardinality({w \in Witnesses : f[w] < n}) <= k
                             /\ Cardinality({w \in Witnesses : f[w] <= n}) > k
<1> DEFINE Upto == [n \in Nat |-> {w \in Witnesses : f[w] <= n}]
           T == {n \in Nat : Cardinality(Upto[n]) > k}
<1>1. \A n \in Nat : Upto[n] = {w \in Witnesses : f[w] <= n} /\ Upto[n] \subseteq Witnesses
  OBVIOUS
<1> HIDE DEF Upto
<1>2. \A n \in Nat : Cardinality(Upto[n]) \in Nat
  BY <1>1, FS_Subset, FS_CardinalityType, WitnessAssumption
<1>3. N \in T
  <2>1. Upto[N] = Witnesses
    BY <1>1
  <2> QED
    BY <2>1
<1>4. PICK m \in T : \A y \in T : m <= y
  <2>1. T \subseteq Nat /\ T # {}
    BY <1>3
  <2> HIDE DEF T
  <2> QED
    BY <2>1, LeastNumber
<1>5. m \in Nat /\ Cardinality(Upto[m]) > k
  BY <1>4
<1> DEFINE Below == {w \in Witnesses : f[w] < m}
<1>6. Cardinality(Below) <= k /\ \E w \in Witnesses : f[w] = m
  <2>1. CASE m = 0
    <3>1. Below = {} /\ Cardinality({}) = 0
      BY <2>1, FS_EmptySet
    <3>2. Upto[m] # {}
      <4>1. ASSUME Upto[m] = {} PROVE FALSE
        <5>1. Cardinality(Upto[m]) = 0
          BY <3>1, <4>1
        <5> QED
          BY <1>5, <5>1
      <4> QED
        BY <4>1
    <3>3. PICK w \in Upto[m] : TRUE
      BY <3>2
    <3>4. w \in Witnesses /\ f[w] <= 0 /\ f[w] \in Nat
      BY <1>1, <1>5, <2>1, <3>3
    <3>5. f[w] = m
      BY <2>1, <3>4
    <3> QED
      BY <3>1, <3>4, <3>5
  <2>2. CASE m # 0
    <3>1. m - 1 \in Nat /\ ~(m <= m - 1)
      BY <1>5, <2>2
    <3>2. m - 1 \notin T
      BY <1>4, <3>1
    <3>3. ~(Cardinality(Upto[m - 1]) > k) /\ Cardinality(Upto[m - 1]) \in Nat
      BY <1>2, <3>1, <3>2
    <3>4. Below = Upto[m - 1]
      <4>1. \A w \in Witnesses : f[w] < m <=> f[w] <= m - 1
        BY <1>5
      <4> QED
        BY <1>1, <3>1, <4>1
    <3>5. ASSUME \A w \in Witnesses : f[w] # m PROVE FALSE
      <4>1. \A w \in Witnesses : f[w] <= m <=> f[w] < m
        BY <1>5, <3>5
      <4>2. Upto[m] = Below
        BY <1>1, <1>5, <4>1
      <4> QED
        BY <1>5, <3>3, <3>4, <4>2
    <3> HIDE DEF Below
    <3> QED
      BY <3>3, <3>4, <3>5
  <2> QED
    BY <2>1, <2>2
<1>7. m \in Range(f)
  BY <1>6 DEF Range
<1> QED
  BY <1>1, <1>5, <1>6, <1>7

\* update_last_irreversible_block never lowers the number and never passes the head.
LEMMA IrreversibleType ==
  ASSUME NEW c \in Seq(Blocks), NEW old \in Nat, old <= Len(c)
  PROVE  /\ LastIrreversible(c, old) \in Nat
         /\ old <= LastIrreversible(c, old) /\ LastIrreversible(c, old) <= Len(c)
<1> DEFINE k == (3 * Cardinality(Witnesses)) \div 10
           conf == [w \in Witnesses |-> Confirmed(c, w)]
           nth == NthConfirmed(c, k)
<1>1. Len(c) \in Nat
  OBVIOUS
<1>2. k \in Nat /\ k < Cardinality(Witnesses)
  <2>1. Cardinality(Witnesses) \in Nat \ {0}
    BY WitnessAssumption, FS_CardinalityType, FS_EmptySet
  <2> QED
    BY <2>1
<1>3. conf \in [Witnesses -> Nat] /\ \A w \in Witnesses : conf[w] <= Len(c)
  BY ConfirmedType
<1> HIDE DEF conf, k
<1>4. \E n \in Range(conf) : /\ Cardinality({w \in Witnesses : conf[w] < n}) <= k
                             /\ Cardinality({w \in Witnesses : conf[w] <= n}) > k
  BY <1>1, <1>2, <1>3, RankExists
<1>5. nth \in Range(conf)
  BY <1>4 DEF NthConfirmed, conf
<1>6. nth \in Nat /\ nth <= Len(c)
  BY <1>3, <1>5 DEF Range
<1>7. LastIrreversible(c, old) = IF nth > old THEN nth ELSE old
  BY DEF LastIrreversible, k
<1> HIDE DEF nth
<1> QED
  BY <1>1, <1>6, <1>7

-----------------------------------------------------------------------------
(* Transactions that are pushed again.                                     *)

\* One more transaction: kept when it applies.
Tried(inc, t, done) == IF TxApplies(t, inc \cup Range(done)) THEN Append(done, t) ELSE done

\* The equation that the fold inside of Repushed satisfies.
Retries(g, inc, acc, q, S) ==
  g = [s \in SUBSET S |-> IF s = {} THEN acc ELSE Tried(inc, q[Max(s)], g[s \ {Max(s)}])]

\* Places in a queue.
Places(S) == S \subseteq Nat /\ IsFiniteSet(S)

\* The maximum of a finite set of numbers is in it.
LEMMA MaxIn ==
  ASSUME NEW s, Places(s), s # {}
  PROVE  Max(s) \in s
<1>1. \E m \in s : \A y \in s : y <= m
  BY GreatestNumber DEF Places
<1>2. \E m \in s : \A y \in s : m >= y
  BY <1>1 DEF Places
<1> QED
  BY <1>2 DEF Max

\* A part of the places.
LEMMA SomePlaces ==
  ASSUME NEW S, Places(S), NEW s, s \subseteq S
  PROVE  Places(s) /\ IsFiniteSet(s)
BY FS_Subset DEF Places

\* What the iteration returns.
LEMMA RetryStep ==
  ASSUME NEW inc, NEW acc, NEW q, NEW S, NEW g, Retries(g, inc, acc, q, S), NEW s \in SUBSET S
  PROVE  /\ s = {} => g[s] = acc
         /\ s # {} => g[s] = Tried(inc, q[Max(s)], g[s \ {Max(s)}])
BY DEF Retries

\* It begins with what there is.
LEMMA RetryBegin ==
  ASSUME NEW inc, NEW acc, NEW q, NEW S, NEW g, Retries(g, inc, acc, q, S)
  PROVE  g[{}] = acc
BY DEF Retries

\* Two iterations agree where both are defined.
LEMMA RetryUnique ==
  ASSUME NEW inc, NEW acc, NEW q, NEW A, NEW B, Places(A), NEW g, NEW h,
         Retries(g, inc, acc, q, A), Retries(h, inc, acc, q, B), NEW s, s \subseteq A, s \subseteq B
  PROVE  g[s] = h[s]
<1> DEFINE T == {t \in SUBSET s : g[t] # h[t]}
<1>1. IsFiniteSet(s)
  BY SomePlaces
<1>2. ASSUME T # {} PROVE FALSE
  <2>1. PICK m \in T : \A y \in T : y \subseteq m => y = m
    <3>1. T \subseteq SUBSET s
      OBVIOUS
    <3> HIDE DEF T
    <3> QED
      BY <1>1, <1>2, <3>1, SmallestSubset
  <2>2. m \in SUBSET A /\ m \in SUBSET B
    BY <2>1
  <2>3. CASE m = {}
    BY <2>1, <2>2, <2>3, RetryStep
  <2>4. CASE m # {}
    <3> DEFINE x == Max(m)
    <3>1. x \in m
      <4>1. Places(m)
        BY <2>2, SomePlaces
      <4> QED
        BY <2>4, <4>1, MaxIn
    <3>2. m \ {x} \notin T
      BY <2>1, <3>1
    <3>3. g[m \ {x}] = h[m \ {x}]
      BY <3>2, <2>1
    <3>4. g[m] = Tried(inc, q[x], g[m \ {x}]) /\ h[m] = Tried(inc, q[x], h[m \ {x}])
      BY <2>2, <2>4, RetryStep
    <3> QED
      BY <3>3, <3>4, <2>1
  <2> QED
    BY <2>3, <2>4
<1> QED
  BY <1>2

\* What is kept of the members of a queue at the places S.
Kept(inc, acc, q, S) == (CHOOSE g : Retries(g, inc, acc, q, S))[S]

\* Every iteration over a larger set has the same value.
LEMMA RetryValue ==
  ASSUME NEW inc, NEW acc, NEW q, NEW S, Places(S), NEW g, Retries(g, inc, acc, q, S), NEW s \in SUBSET S,
         \E h : Retries(h, inc, acc, q, s)
  PROVE  Kept(inc, acc, q, s) = g[s]
<1> DEFINE h == CHOOSE h : Retries(h, inc, acc, q, s)
<1>1. Retries(h, inc, acc, q, s)
  OBVIOUS
<1>2. Places(s)
  BY SomePlaces
<1>3. Kept(inc, acc, q, s) = h[s]
  BY DEF Kept
<1> HIDE DEF h
<1>4. s \subseteq S /\ s \subseteq s
  OBVIOUS
<1>5. g[s] = h[s]
  BY <1>1, <1>2, <1>4, RetryUnique
<1> QED
  BY <1>3, <1>5

\* The iteration exists: the fold over the queue is meaningful.
LEMMA RetryExists ==
  ASSUME NEW inc, NEW acc, NEW q, NEW S, Places(S)
  PROVE  \E g : Retries(g, inc, acc, q, S)
<1> DEFINE T == {t \in SUBSET S : ~\E g : Retries(g, inc, acc, q, t)}
<1>2. IsFiniteSet(S)
  BY DEF Places
<1>1. ASSUME T # {} PROVE FALSE
  <2>1. PICK m \in T : \A y \in T : y \subseteq m => y = m
    <3>1. T \subseteq SUBSET S
      OBVIOUS
    <3> HIDE DEF T
    <3> QED
      BY <1>1, <1>2, <3>1, SmallestSubset
  <2>2. ASSUME NEW s \in SUBSET m, s # m PROVE \E g : Retries(g, inc, acc, q, s)
    BY <2>1, <2>2
  <2> DEFINE x(s) == Max(s)
             h == [s \in SUBSET m |-> IF s = {} THEN acc
                                      ELSE IF s = m THEN Tried(inc, q[x(m)], Kept(inc, acc, q, m \ {x(m)}))
                                      ELSE Kept(inc, acc, q, s)]
             step(s) == IF s = {} THEN acc ELSE Tried(inc, q[x(s)], h[s \ {x(s)}])
  <2>3. Kept(inc, acc, q, {}) = acc \/ m = {}
    <3>1. CASE m # {}
      <4>1. PICK g : Retries(g, inc, acc, q, {})
        BY <2>2, <3>1
      <4>2. Kept(inc, acc, q, {}) = g[{}]
        <5>1. Places({}) /\ {} \in SUBSET {}
          BY FS_EmptySet DEF Places
        <5> QED
          BY <4>1, <5>1, RetryValue
      <4> QED
        BY <4>1, <4>2, RetryStep
    <3> QED
      BY <3>1
  <2>4. ASSUME NEW s \in SUBSET m PROVE h[s] = step(s)
    <3>1. CASE s = {}
      BY <3>1
    <3>2. CASE s # {} /\ s = m
      <4>1. x(m) \in m /\ m \ {x(m)} # m
        <5>1. Places(m)
          BY <2>1, SomePlaces
        <5>2. Max(m) \in m
          BY <3>2, <5>1, MaxIn
        <5> QED
          BY <5>2
      <4>2. h[m \ {x(m)}] = Kept(inc, acc, q, m \ {x(m)})
        BY <4>1, <2>3, <3>2
      <4> QED
        BY <3>2, <4>2
    <3>3. CASE s # {} /\ s # m
      <4>1. PICK g : Retries(g, inc, acc, q, s)
        BY <3>3, <2>2
      <4>2. x(s) \in s /\ s \ {x(s)} # m /\ s \ {x(s)} \in SUBSET s /\ s \ {x(s)} \in SUBSET m
        <5>1. Places(s)
          BY <2>1, SomePlaces
        <5>2. Max(s) \in s
          BY <3>3, <5>1, MaxIn
        <5> QED
          BY <3>3, <5>2
      <4>3. Places(s)
        BY <2>1, SomePlaces
      <4>4. Kept(inc, acc, q, s) = g[s]
        BY <4>1, <4>3, RetryValue
      <4>5. Kept(inc, acc, q, s \ {x(s)}) = g[s \ {x(s)}]
        <5>1. \E k : Retries(k, inc, acc, q, s \ {x(s)})
          BY <4>2, <2>2
        <5> HIDE DEF x
        <5> QED
          BY <4>1, <4>2, <4>3, <5>1, RetryValue
      <4>6. g[s] = Tried(inc, q[x(s)], g[s \ {x(s)}])
        BY <4>1, <3>3, RetryStep
      <4>7. h[s \ {x(s)}] = Kept(inc, acc, q, s \ {x(s)})
        BY <4>2, <2>3, <3>3
      <4>8. h[s] = Kept(inc, acc, q, s)
        BY <3>3
      <4> QED
        BY <3>3, <4>4, <4>5, <4>6, <4>7, <4>8
    <3> QED
      BY <3>1, <3>2, <3>3
  <2>5. h = [s \in SUBSET m |-> step(s)]
    <3> HIDE DEF step
    <3> QED
      BY <2>4
  <2>6. Retries(h, inc, acc, q, m)
    BY <2>5 DEF Retries
  <2> QED
    BY <2>1, <2>6
<1> QED
  BY <1>1

\* Repushed unfolded.
LEMMA RepushedIs ==
  ASSUME NEW acc, NEW q
  PROVE  Repushed(acc, q) = Kept(Included(chain), acc, q, DOMAIN q)
BY DEF Repushed, FoldLeft, MapThenFoldSet, Kept, Retries, Tried

\* What Repushed promises: transactions of the queue, none of which got lost unless
\* something uses up the same.
LEMMA RepushedKeeps ==
  ASSUME NEW acc \in Seq(Transactions), NEW q \in Seq(Transactions)
  PROVE  /\ Repushed(acc, q) \in Seq(Transactions)
         /\ \A i \in DOMAIN q : \E u \in Included(chain) \cup Range(Repushed(acc, q)) : Spends[u] = Spends[q[i]]
<1> DEFINE inc == Included(chain)
           S == DOMAIN q
<1>1. Places(S) /\ IsFiniteSet(S)
  <2>1. S = 1..Len(q) /\ Len(q) \in Nat
    OBVIOUS
  <2> QED
    BY <2>1, FS_Interval DEF Places
<1> HIDE DEF inc
<1>2. PICK g : Retries(g, inc, acc, q, S)
  BY <1>1, RetryExists
<1>3. Repushed(acc, q) = g[S]
  <2>1. S \in SUBSET S
    OBVIOUS
  <2> HIDE DEF S
  <2>2. Kept(inc, acc, q, S) = g[S]
    BY <1>1, <1>2, <2>1, RetryValue
  <2> QED
    BY <2>2, RepushedIs DEF inc, S
<1> DEFINE Good(s) == /\ g[s] \in Seq(Transactions)
                      /\ \A i \in s : \E u \in inc \cup Range(g[s]) : Spends[u] = Spends[q[i]]
           T == {s \in SUBSET S : ~Good(s)}
<1>4. ASSUME T # {} PROVE FALSE
  <2>1. PICK m \in T : \A y \in T : y \subseteq m => y = m
    <3>1. T \subseteq SUBSET S
      OBVIOUS
    <3> HIDE DEF T, S
    <3> QED
      BY <1>1, <1>4, <3>1, SmallestSubset
  <2>2. m \in SUBSET S /\ ~Good(m)
    BY <2>1
  <2>3. m # {}
    <3>1. ASSUME m = {} PROVE FALSE
      <4>1. g[m] = acc
        <5> HIDE DEF S, Good, T
        <5>1. g[{}] = acc
          BY ONLY <1>2, RetryBegin
        <5> QED
          BY <3>1, <5>1
      <4> QED
        BY <2>2, <3>1, <4>1
    <3> QED
      BY <3>1
  <2> DEFINE x == Max(m)
             r == m \ {x}
             done == g[r]
  <2>4. x \in m
    <3>1. Places(m)
      BY <1>1, <2>2, SomePlaces
    <3> QED
      BY <2>3, <3>1, MaxIn
  <2>5. g[m] = Tried(inc, q[x], done)
    <3> HIDE DEF S, Good, T
    <3> QED
      BY ONLY <1>2, <2>2, <2>3, RetryStep DEF x, r, done
  <2> HIDE DEF x
  <2>6. Good(r)
    <3>1. r \in SUBSET S /\ r \subseteq m /\ r # m
      BY <2>2, <2>4
    <3> HIDE DEF Good, r
    <3> QED
      BY <2>1, <3>1
  <2>7. done \in Seq(Transactions) /\ \A i \in r : \E u \in inc \cup Range(done) : Spends[u] = Spends[q[i]]
    BY <2>6
  <2>8. q[x] \in Transactions
    BY <2>2, <2>4
  <2> HIDE DEF done
  <2>9. /\ g[m] \in Seq(Transactions) /\ Range(done) \subseteq Range(g[m])
        /\ \E u \in inc \cup Range(g[m]) : Spends[u] = Spends[q[x]]
    <3>1. CASE TxApplies(q[x], inc \cup Range(done))
      <4>1. g[m] = Append(done, q[x])
        BY <2>5, <3>1 DEF Tried
      <4>2. /\ g[m] \in Seq(Transactions) /\ Len(g[m]) = Len(done) + 1 /\ g[m][Len(done) + 1] = q[x]
            /\ \A i \in 1..Len(done) : g[m][i] = done[i]
        BY <2>7, <2>8, <4>1
      <4>3. DOMAIN g[m] = 1..(Len(done) + 1) /\ DOMAIN done = 1..Len(done) /\ Len(done) \in Nat
        BY <2>7, <4>2
      <4>4. Range(done) \subseteq Range(g[m]) /\ q[x] \in Range(g[m])
        BY <4>2, <4>3 DEF Range
      <4> QED
        BY <4>2, <4>4
    <3>2. CASE ~TxApplies(q[x], inc \cup Range(done))
      <4>1. g[m] = done
        BY <2>5, <3>2 DEF Tried
      <4> QED
        BY <2>7, <3>2, <4>1 DEF TxApplies
    <3> QED
      BY <3>1, <3>2
  <2>10. \A i \in m : \E u \in inc \cup Range(g[m]) : Spends[u] = Spends[q[i]]
    BY <2>7, <2>9
  <2> QED
    BY <2>2, <2>9, <2>10
<1>5. Good(S)
  BY <1>4
<1> QED
  BY <1>3, <1>5 DEF inc

-----------------------------------------------------------------------------
(* The inductive invariant.                                                *)

\* The chain is a path, and the undo history has the beginnings of it, one for each
\* of the latest blocks.
ChainOK ==
  /\ Path(chain) /\ lib \in Nat /\ lib <= Len(chain)
  /\ undo \in Seq(Versions) /\ Len(undo) <= Len(chain)
  /\ \A i \in 1..Len(undo) :
       /\ undo[i].lib <= Len(undo[i].chain)
       /\ undo[i].chain = SubSeq(chain, 1, Len(chain) - Len(undo) + i - 1)

TypesOK ==
  /\ undoMax \in Nat /\ forkMax \in Nat
  /\ session \in BOOLEAN /\ recording \in BOOLEAN
  /\ forkIndex \subseteq Blocks /\ linked \subseteq Blocks
  /\ forkHead \in Blocks \cup {None}
  /\ pending \in Seq(Transactions) /\ popped \in Seq(Transactions)
  /\ log \in [1..MaxNum -> Blocks \cup {None}]
  /\ unsynced # None => unsynced.old \in Blocks \cup {None}
  /\ disk \in Versions /\ Path(disk.chain) /\ disk.lib <= Len(disk.chain)
  /\ pc \in Steps
  /\ crashes \in Nat

PushRecords ==
  [block : Blocks \cup {None}, new : Seq(Blocks), old : Seq(Blocks), saved : Seq(Transactions),
   failed : BOOLEAN, before : Seq(Blocks), irreversible : Nat, known : SUBSET Transactions,
   cutoff : Nat, last : Nat, todo : Seq(Blocks), gap : BOOLEAN]

Switching == {"pop", "switch", "unwind", "reapply"}

\* The block to extend the chain with is there, and reindex has a block that it pushes.
PushOK ==
  /\ push \in PushRecords /\ (pc = "extend" => push.block \in Blocks)
  /\ push.last # 0 => \/ pc \in {"reindex", "dead"}
                      \/ pc \in Switching \cup {"extend", "restore"} /\ push.todo # << >>

\* The blocks from number m to b.
Branch(m, q, b) == m \in 1..Num(b) /\ q = SubSeq(Lineage[b], m, Num(b))

\* A chain on the way to b.
On(c, b) == Len(c) <= Num(b) /\ \A i \in 1..Len(c) : c[i] = Lineage[b][i]

\* In a switch the two branches part at a number m, and the chain is on one of them.
Forked(m, f, s) ==
  /\ Branch(m, push.new, f) /\ Branch(m, push.old, s)
  /\ Parent[Lineage[f][m]] = Parent[Lineage[s][m]]
  /\ m - 1 <= Len(chain)
  /\ On(chain, IF pc \in {"pop", "reapply"} THEN s ELSE f)

ForkOK == pc \in Switching => \E m \in 1..MaxNum, f \in Blocks, s \in Blocks : Forked(m, f, s)

\* Inside of push_block the transactions of popped blocks and those set aside are at hand.
KnownOK ==
  pc \in Switching \cup {"extend", "restore"} =>
    push.known \subseteq Included(chain) \cup Range(popped) \cup Range(push.saved)

\* Nothing is popped below the object database on disk, and undo is only disabled in
\* the first part of reindex, before there is any history.
StartOK ==
  /\ pc # "closed" => Len(disk.chain) <= Len(chain) - Len(undo)
  /\ pc = "closed" => chain = << >> /\ undo = << >>
  /\ recording /\ push.last # 0 => Len(disk.chain) + 1 >= UndoPoint(push.last)
  /\ ~recording => pc \in {"reindex", "dead"} /\ undo = << >>

Holds(c) == \A n \in 1..Len(c) : log[n] = c[n]

\* Without crashes the block log has no gaps and holds the chain and the chain on disk,
\* and reindex replays what it holds.
LogOK ==
  crashes = 0 =>
    /\ Holds(chain) /\ Holds(disk.chain)
    /\ \A n \in 1..MaxNum : log[n] # None => \A m \in 1..n : log[m] # None
    /\ ~push.gap
    /\ pc = "reindex" /\ ~recording => \A i \in 1..Len(push.todo) : push.todo[i] = log[Len(chain) + i]

IInv == ChainOK /\ TypesOK /\ PushOK /\ ForkOK /\ KnownOK /\ StartOK /\ LogOK

-----------------------------------------------------------------------------
(* The chain and its undo history.                                         *)

\* What KeepLast keeps.
LEMMA KeptLast ==
  ASSUME NEW S, NEW q \in Seq(S), NEW n \in Int
  PROVE  /\ KeepLast(q, n) \in Seq(S) /\ Len(KeepLast(q, n)) \in Nat /\ Len(KeepLast(q, n)) <= Len(q)
         /\ \A i \in 1..Len(KeepLast(q, n)) : KeepLast(q, n)[i] = q[Len(q) - Len(KeepLast(q, n)) + i]
<1>1. Len(q) \in Nat
  OBVIOUS
<1>2. CASE ~(Len(q) > n)
  BY <1>1, <1>2 DEF KeepLast
<1>3. CASE Len(q) > n /\ n >= 0
  <2> DEFINE m == Len(q) - n + 1
             k == Len(q)
             r == SubSeq(q, m, k)
  <2>1. m \in Nat \ {0} /\ k \in Nat /\ k <= Len(q) /\ m <= k + 1 /\ k - m + 1 = n
    BY <1>1, <1>3
  <2>2. KeepLast(q, n) = r
    BY <1>3 DEF KeepLast
  <2> HIDE DEF m, k
  <2>3. r \in Seq(S) /\ Len(r) = k - m + 1 /\ \A i \in 1..(k - m + 1) : r[i] = q[m + i - 1]
    BY <2>1, PartOf
  <2> HIDE DEF r
  <2>4. \A i \in 1..n : r[i] = q[Len(q) - n + i]
    <3>1. ASSUME NEW i \in 1..n PROVE m + i - 1 = Len(q) - n + i
      BY <1>1, <1>3 DEF m
    <3> QED
      BY <2>1, <2>3, <3>1
  <2>5. Len(r) = n /\ n \in Nat /\ n <= Len(q)
    BY <1>1, <1>3, <2>1, <2>3
  <2> QED
    BY <2>2, <2>3, <2>4, <2>5
<1>4. CASE n < 0
  <2>1. KeepLast(q, n) = << >>
    <3> DEFINE m == Len(q) - n + 1
    <3>1. m \in Nat /\ m > Len(q)
      BY <1>1, <1>4
    <3>2. KeepLast(q, n) = SubSeq(q, m, Len(q))
      BY <1>1, <1>4 DEF KeepLast
    <3> HIDE DEF m
    <3> QED
      BY <1>1, <3>1, <3>2
  <2> QED
    BY <1>1, <2>1
<1> QED
  BY <1>2, <1>3, <1>4

\* v has the latest versions of u.
Latest(v, u) ==
  /\ v \in Seq(Versions) /\ Len(v) \in Nat /\ Len(v) <= Len(u)
  /\ \A i \in 1..Len(v) : v[i] = u[Len(u) - Len(v) + i]

\* KeepLast leaves the latest, and so do two of them.
LEMMA KeptLatest ==
  ASSUME NEW u \in Seq(Versions), NEW n \in Int
  PROVE  Latest(KeepLast(u, n), u) /\ Latest(u, u)
<1>1. Latest(KeepLast(u, n), u)
  BY KeptLast DEF Latest
<1>2. Len(u) \in Nat /\ \A i \in 1..Len(u) : Len(u) - Len(u) + i = i
  OBVIOUS
<1> QED
  BY <1>1, <1>2 DEF Latest

LEMMA LatestTwice ==
  ASSUME NEW u \in Seq(Versions), NEW v, Latest(v, u), NEW w, Latest(w, v)
  PROVE  Latest(w, u)
<1>1. Len(u) \in Nat /\ Len(v) \in Nat /\ Len(w) \in Nat /\ Len(w) <= Len(v) /\ Len(v) <= Len(u)
  BY DEF Latest
<1>2. ASSUME NEW i \in 1..Len(w) PROVE w[i] = u[Len(u) - Len(w) + i]
  <2> DEFINE j == Len(v) - Len(w) + i
  <2>1. j \in 1..Len(v) /\ Len(u) - Len(v) + j = Len(u) - Len(w) + i
    BY <1>1
  <2>2. w[i] = v[j]
    BY DEF Latest
  <2> HIDE DEF j
  <2>3. v[j] = u[Len(u) - Len(v) + j]
    BY <2>1 DEF Latest
  <2> QED
    BY <2>1, <2>2, <2>3
<1> QED
  BY <1>1, <1>2 DEF Latest

\* Dropping old versions keeps the history of the chain.
LEMMA DropKeeps ==
  ASSUME ChainOK, NEW u, Latest(u, undo)
  PROVE  /\ u \in Seq(Versions) /\ Len(u) \in Nat /\ Len(u) <= Len(undo) /\ Len(undo) <= Len(chain)
         /\ \A i \in 1..Len(u) :
              /\ u[i].lib <= Len(u[i].chain)
              /\ u[i].chain = SubSeq(chain, 1, Len(chain) - Len(u) + i - 1)
<1>1. /\ u \in Seq(Versions) /\ Len(u) \in Nat /\ Len(u) <= Len(undo)
      /\ \A i \in 1..Len(u) : u[i] = undo[Len(undo) - Len(u) + i]
  BY DEF Latest
<1>2. Len(undo) \in Nat /\ Len(chain) \in Nat /\ Len(undo) <= Len(chain)
  BY DEF ChainOK, Path
<1>3. ASSUME NEW i \in 1..Len(u)
      PROVE  /\ u[i].lib <= Len(u[i].chain)
             /\ u[i].chain = SubSeq(chain, 1, Len(chain) - Len(u) + i - 1)
  <2> DEFINE j == Len(undo) - Len(u) + i
  <2>1. j \in 1..Len(undo) /\ Len(chain) - Len(undo) + j - 1 = Len(chain) - Len(u) + i - 1
    BY <1>1, <1>2
  <2>2. u[i] = undo[j]
    BY <1>1
  <2> HIDE DEF j
  <2>3. undo[j].lib <= Len(undo[j].chain) /\ undo[j].chain = SubSeq(chain, 1, Len(chain) - Len(undo) + j - 1)
    BY <2>1 DEF ChainOK
  <2> QED
    BY <2>1, <2>2, <2>3
<1> QED
  BY <1>1, <1>2, <1>3

\* The same, for a step that only drops.
LEMMA DropStep ==
  ASSUME ChainOK, Latest(undo', undo), UNCHANGED <<chain, lib>>
  PROVE  ChainOK' /\ Len(undo') \in Nat /\ Len(undo') <= Len(undo)
<1>1. /\ undo' \in Seq(Versions) /\ Len(undo') \in Nat /\ Len(undo') <= Len(undo) /\ Len(undo) <= Len(chain)
      /\ \A i \in 1..Len(undo') :
           /\ undo'[i].lib <= Len(undo'[i].chain)
           /\ undo'[i].chain = SubSeq(chain, 1, Len(chain) - Len(undo') + i - 1)
  BY DropKeeps
<1>2. Path(chain') /\ lib' \in Nat /\ lib' <= Len(chain') /\ chain' = chain
  BY DEF ChainOK
<1>3. Len(undo') <= Len(chain)
  BY <1>1 DEF ChainOK, Path
<1> QED
  BY <1>1, <1>2, <1>3 DEF ChainOK

\* A block that applies.
LEMMA ApplyStep ==
  ASSUME ChainOK, undoMax \in Nat, NEW b \in Blocks, Applies(b), ApplyAndStore(b)
  PROVE  /\ ChainOK' /\ undoMax' \in Nat /\ forkMax' \in Nat
         /\ chain' = Append(chain, b) /\ Len(chain) \in Nat /\ Num(b) = Len(chain) + 1
         /\ Len(chain) - Len(undo) <= Len(chain') - Len(undo')
<1>1. chain' = Append(chain, b) /\ lib' = LastIrreversible(Append(chain, b), lib)
  BY DEF ApplyAndStore, ApplyWith
<1>2. undo' = Append(KeepLast(undo, undoMax), Version)
  BY DEF ApplyAndStore, ApplyWith
<1>3. undoMax' = Num(b) - lib + 1 /\ forkMax' = Num(b) - lib + 1
  BY DEF ApplyAndStore, ApplyWith, BlockSize
<1>4. /\ Path(chain) /\ chain \in Seq(Blocks) /\ Len(chain) \in Nat /\ lib \in Nat /\ lib <= Len(chain)
      /\ undo \in Seq(Versions) /\ Len(undo) \in Nat /\ Len(undo) <= Len(chain)
  BY DEF ChainOK, Path
<1>5. Parent[b] = HeadOf(chain)
  BY DEF Applies, Head_
<1>6. Path(chain') /\ Num(b) = Len(chain) + 1
  BY <1>1, <1>4, <1>5, PathAppend
<1>7. chain' \in Seq(Blocks) /\ Len(chain') = Len(chain) + 1 /\ \A i \in 1..Len(chain) : chain'[i] = chain[i]
  BY <1>1, <1>4
<1>8. lib' \in Nat /\ lib' <= Len(chain')
  <2>1. lib <= Len(chain')
    BY <1>4, <1>7
  <2> QED
    BY <1>1, <1>4, <1>7, <2>1, IrreversibleType
<1>9. undoMax' \in Nat /\ forkMax' \in Nat
  BY <1>3, <1>4, <1>6
<1> DEFINE u == KeepLast(undo, undoMax)
<1>10. /\ u \in Seq(Versions) /\ Len(u) \in Nat /\ Len(u) <= Len(undo)
       /\ \A i \in 1..Len(u) :
            /\ u[i].lib <= Len(u[i].chain)
            /\ u[i].chain = SubSeq(chain, 1, Len(chain) - Len(u) + i - 1)
  <2>1. undoMax \in Int
    OBVIOUS
  <2>2. Latest(u, undo)
    BY <1>4, <2>1, KeptLatest
  <2> HIDE DEF u
  <2> QED
    BY <2>2, DropKeeps
<1> HIDE DEF u
<1>11. Version \in Versions /\ Version.chain = chain /\ Version.lib = lib
  BY <1>4 DEF Version, Versions
<1>12. /\ undo' \in Seq(Versions) /\ Len(undo') = Len(u) + 1 /\ undo'[Len(u) + 1] = Version
       /\ \A i \in 1..Len(u) : undo'[i] = u[i]
  <2> HIDE DEF Version
  <2> QED
    BY <1>2, <1>10, <1>11 DEF u
<1>13. ASSUME NEW i \in 1..Len(undo')
       PROVE  /\ undo'[i].lib <= Len(undo'[i].chain)
              /\ undo'[i].chain = SubSeq(chain', 1, Len(chain') - Len(undo') + i - 1)
  <2> DEFINE n == Len(chain) - Len(u) + i - 1
  <2>1. /\ Len(chain') - Len(undo') + i - 1 = n /\ n \in Nat /\ n <= Len(chain)
        /\ i \in 1..Len(u) \/ i = Len(u) + 1
    BY <1>4, <1>7, <1>10, <1>12
  <2>2. SubSeq(chain', 1, n) = SubSeq(chain, 1, n)
    <3> HIDE DEF n
    <3> DEFINE x == SubSeq(chain, 1, n)
               y == SubSeq(chain', 1, n)
    <3>1. x \in Seq(Blocks) /\ Len(x) = n /\ \A k \in 1..n : x[k] = chain[k]
      BY <1>4, <2>1, PrefixOf
    <3>2. n <= Len(chain')
      BY <1>4, <1>7, <2>1
    <3>3. y \in Seq(Blocks) /\ Len(y) = n /\ \A k \in 1..n : y[k] = chain'[k]
      BY <1>7, <2>1, <3>2, PrefixOf
    <3> HIDE DEF x, y
    <3>4. \A k \in 1..n : k \in 1..Len(chain)
      BY <1>4, <2>1
    <3>5. \A k \in 1..n : x[k] = y[k]
      BY <1>7, <3>1, <3>3, <3>4
    <3>6. x = y
      BY <3>1, <3>3, <3>5, SameSeq
    <3> QED
      BY <3>6 DEF x, y
  <2>3. CASE i \in 1..Len(u)
    <3>1. undo'[i] = u[i]
      BY <1>12, <2>3
    <3>2. u[i].lib <= Len(u[i].chain) /\ u[i].chain = SubSeq(chain, 1, n)
      BY <1>10, <2>3
    <3> QED
      BY <2>1, <2>2, <3>1, <3>2
  <2>4. CASE i = Len(u) + 1
    <3>1. n = Len(chain)
      BY <1>4, <1>10, <2>4
    <3>2. SubSeq(chain, 1, Len(chain)) = chain
      BY <1>4
    <3> HIDE DEF n, Version
    <3> QED
      BY <1>4, <1>11, <1>12, <2>1, <2>2, <2>4, <3>1, <3>2
  <2> QED
    BY <2>1, <2>3, <2>4
<1>14. Len(undo') <= Len(chain') /\ Len(chain) - Len(undo) <= Len(chain') - Len(undo')
  BY <1>4, <1>7, <1>10, <1>12
<1>15. ChainOK'
  BY <1>6, <1>8, <1>12, <1>13, <1>14 DEF ChainOK
<1> QED
  BY <1>1, <1>4, <1>6, <1>9, <1>14, <1>15

\* A version that is popped is the chain without its head.
LEMMA PopStep ==
  ASSUME ChainOK, undo # << >>, PopVersion
  PROVE  /\ ChainOK' /\ chain # << >> /\ Len(chain) \in Nat \ {0}
         /\ chain' = SubSeq(chain, 1, Len(chain) - 1)
         /\ Len(chain') = Len(chain) - 1 /\ \A i \in 1..(Len(chain) - 1) : chain'[i] = chain[i]
         /\ Head_ = chain[Len(chain)] /\ Head_ \in Blocks /\ popped' = Txs[Head_] \o popped
         /\ Len(chain') - Len(undo') = Len(chain) - Len(undo)
<1>1. /\ Path(chain) /\ chain \in Seq(Blocks) /\ Len(chain) \in Nat
      /\ undo \in Seq(Versions) /\ Len(undo) \in Nat \ {0} /\ Len(undo) <= Len(chain)
  BY DEF ChainOK, Path
<1>2. /\ Front(undo) \in Seq(Versions) /\ Len(Front(undo)) = Len(undo) - 1
      /\ \A i \in 1..(Len(undo) - 1) : Front(undo)[i] = undo[i]
      /\ Last(undo) = undo[Len(undo)] /\ Last(undo) \in Versions
  BY <1>1, FrontOf
<1>3. chain' = Last(undo).chain /\ lib' = Last(undo).lib /\ undo' = Front(undo) /\ popped' = Txs[Head_] \o popped
  BY DEF PopVersion
<1> DEFINE n == Len(chain) - 1
<1>4. n \in Nat /\ n <= Len(chain) /\ Len(undo) \in 1..Len(undo) /\ Len(chain) - Len(undo) + Len(undo) - 1 = n
  BY <1>1
<1>5. chain' = SubSeq(chain, 1, n) /\ lib' <= Len(chain') /\ lib' \in Nat
  <2>1. /\ undo[Len(undo)].lib <= Len(undo[Len(undo)].chain)
        /\ undo[Len(undo)].chain = SubSeq(chain, 1, Len(chain) - Len(undo) + Len(undo) - 1)
    BY <1>4 DEF ChainOK
  <2> QED
    BY <1>2, <1>3, <1>4, <2>1 DEF Versions
<1> HIDE DEF n
<1>6. Path(chain') /\ Len(chain') = n /\ \A i \in 1..n : chain'[i] = chain[i]
  BY <1>1, <1>4, <1>5, PathPrefix, PrefixOf
<1>7. chain # << >> /\ Head_ = chain[Len(chain)] /\ Head_ \in Blocks
  <2>1. chain # << >>
    BY <1>1
  <2> QED
    BY <1>1, <2>1, PathIsLineage DEF Head_
<1>8. undo' \in Seq(Versions) /\ Len(undo') = Len(undo) - 1 /\ \A i \in 1..Len(undo') : undo'[i] = undo[i]
  BY <1>2, <1>3
<1>9. Len(undo') <= Len(chain') /\ Len(chain') - Len(undo') = Len(chain) - Len(undo)
  BY <1>1, <1>6, <1>8 DEF n
<1>10. ASSUME NEW i \in 1..Len(undo')
       PROVE  /\ undo'[i].lib <= Len(undo'[i].chain)
              /\ undo'[i].chain = SubSeq(chain', 1, Len(chain') - Len(undo') + i - 1)
  <2> DEFINE k == Len(chain) - Len(undo) + i - 1
  <2>1. i \in 1..Len(undo) /\ k \in Nat /\ k <= n /\ Len(chain') - Len(undo') + i - 1 = k /\ k <= Len(chain)
    <3>1. i \in Nat /\ i >= 1 /\ i <= Len(undo) - 1
      BY <1>1, <1>8
    <3>2. Len(chain') - Len(undo') = Len(chain) - Len(undo)
      BY <1>9
    <3> QED
      BY <1>1, <3>1, <3>2 DEF n
  <2>2. undo[i].lib <= Len(undo[i].chain) /\ undo[i].chain = SubSeq(chain, 1, k)
    BY <2>1 DEF ChainOK
  <2> HIDE DEF k
  <2>3. SubSeq(chain', 1, k) = SubSeq(chain, 1, k)
    <3> DEFINE x == SubSeq(chain, 1, k)
               y == SubSeq(chain', 1, k)
    <3>1. x \in Seq(Blocks) /\ Len(x) = k /\ \A j \in 1..k : x[j] = chain[j]
      BY <1>1, <2>1, PrefixOf
    <3>2. k <= Len(chain') /\ chain' \in Seq(Blocks)
      BY <1>6, <2>1 DEF Path
    <3>3. y \in Seq(Blocks) /\ Len(y) = k /\ \A j \in 1..k : y[j] = chain'[j]
      BY <2>1, <3>2, PrefixOf
    <3> HIDE DEF x, y
    <3>4. \A j \in 1..k : j \in 1..n
      BY <1>4, <2>1
    <3>5. \A j \in 1..k : x[j] = y[j]
      BY <1>6, <3>1, <3>3, <3>4
    <3>6. x = y
      BY <3>1, <3>3, <3>5, SameSeq
    <3> QED
      BY <3>6 DEF x, y
  <2> QED
    BY <1>8, <2>1, <2>2, <2>3
<1>11. ChainOK'
  BY <1>5, <1>6, <1>8, <1>9, <1>10 DEF ChainOK
<1> QED
  BY <1>1, <1>3, <1>5, <1>6, <1>7, <1>9, <1>11 DEF n

-----------------------------------------------------------------------------
(* Branches.                                                               *)

\* What fetch_branch_from returns: two branches from a common previous block.
LEMMA BranchesOK ==
  ASSUME NEW f \in Blocks, NEW s \in Blocks
  PROVE  \E m \in 1..MaxNum : /\ Branch(m, Branches(f, s).new, f) /\ Branch(m, Branches(f, s).old, s)
                              /\ Parent[Lineage[f][m]] = Parent[Lineage[s][m]]
<1> DEFINE lf == Lineage[f]
           ls == Lineage[s]
           common == {m \in 1..Len(lf) : m <= Len(ls) /\ Parent[lf[m]] = Parent[ls[m]]}
           m == CHOOSE m \in common : \A k \in common : k <= m
<1>1. /\ Len(lf) = Num(f) /\ Num(f) \in Nat \ {0} /\ Len(ls) = Num(s) /\ Num(s) \in Nat \ {0}
      /\ 1 \in 1..Num(f) /\ 1 \in 1..Num(s)
  BY LineageType
<1>2. Parent[lf[1]] = Genesis /\ Parent[ls[1]] = Genesis
  BY <1>1, LineageAt
<1>3. 1 \in common
  BY <1>1, <1>2
<1>4. common \subseteq Nat /\ common \subseteq 1..Num(f) /\ common # {}
  BY <1>1, <1>3
<1>5. IsFiniteSet(common)
  <2>1. IsFiniteSet(1..Num(f))
    BY <1>1, FS_Interval
  <2> HIDE DEF common
  <2> QED
    BY <1>4, <2>1, FS_Subset
<1>6. m \in common
  <2> HIDE DEF common
  <2>1. \E k \in common : \A j \in common : j <= k
    BY <1>4, <1>5, GreatestNumber
  <2> QED
    BY <2>1
<1>7. Branches(f, s) = [new |-> SubSeq(lf, m, Len(lf)), old |-> SubSeq(ls, m, Len(ls))]
  BY DEF Branches
<1>8. Branches(f, s).new = SubSeq(lf, m, Len(lf)) /\ Branches(f, s).old = SubSeq(ls, m, Len(ls))
  <2> DEFINE x == SubSeq(lf, m, Len(lf))
             y == SubSeq(ls, m, Len(ls))
  <2>1. Branches(f, s) = [new |-> x, old |-> y]
    BY <1>7
  <2> HIDE DEF x, y
  <2>2. Branches(f, s).new = x /\ Branches(f, s).old = y
    BY <2>1
  <2> QED
    BY <2>2 DEF x, y
<1> HIDE DEF m
<1>9. m \in 1..Num(f) /\ m \in 1..Num(s) /\ Parent[lf[m]] = Parent[ls[m]]
  BY <1>1, <1>6
<1>10. m \in 1..MaxNum
  <2>1. Num(f) \in 1..MaxNum /\ MaxNum \in Nat
    BY Numbers
  <2> QED
    BY <1>1, <1>9, <2>1
<1> QED
  BY <1>1, <1>8, <1>9, <1>10 DEF Branch

\* The members of a branch.
LEMMA BranchAt ==
  ASSUME NEW b \in Blocks, NEW m, NEW q, Branch(m, q, b)
  PROVE  /\ q \in Seq(Blocks) /\ q # << >> /\ m \in 1..Num(b) /\ m \in Nat \ {0} /\ Num(b) \in Nat
         /\ q[1] = Lineage[b][m] /\ q[1] \in Blocks /\ Num(q[1]) = m /\ Last(q) = b
         /\ \A n \in m..Num(b) : q[n - m + 1] = Lineage[b][n] /\ q[n - m + 1] \in Blocks
<1> DEFINE L == Lineage[b]
           k == Num(b)
<1>1. L \in Seq(Blocks) /\ k \in Nat \ {0} /\ Len(L) = k /\ L[k] = b
  BY LineageType
<1>2. m \in 1..k /\ q = SubSeq(L, m, k)
  BY DEF Branch
<1>3. L[m] \in Blocks /\ Num(L[m]) = m
  BY <1>2, LineageAt
<1> HIDE DEF L, k
<1>4. m \in Nat \ {0} /\ m <= k /\ m <= k + 1
  BY <1>1, <1>2
<1>5. q \in Seq(Blocks) /\ Len(q) = k - m + 1 /\ \A i \in 1..(k - m + 1) : q[i] = L[m + i - 1]
  BY <1>1, <1>2, <1>4, PartOf
<1>6. ASSUME NEW n \in m..k PROVE q[n - m + 1] = L[n] /\ q[n - m + 1] \in Blocks
  <2> DEFINE i == n - m + 1
  <2>1. i \in 1..(k - m + 1) /\ m + i - 1 = n /\ n \in 1..k
    BY <1>1, <1>4
  <2>2. q[i] = L[n]
    BY <1>5, <2>1
  <2> QED
    BY <1>1, <2>1, <2>2
<1>7. q[1] = L[m]
  <2>1. m \in m..k /\ m - m + 1 = 1
    BY <1>1, <1>4
  <2> QED
    BY <1>6, <2>1
<1>8. q # << >> /\ Last(q) = b
  <2>1. k \in m..k /\ k - m + 1 \in Nat /\ k - m + 1 # 0
    BY <1>1, <1>4
  <2>2. q[k - m + 1] = b
    BY <1>1, <1>6, <2>1
  <2>3. q # << >>
    BY <1>5, <2>1
  <2> QED
    BY <1>5, <2>2, <2>3 DEF Last
<1> QED
  BY <1>1, <1>2, <1>3, <1>4, <1>5, <1>6, <1>7, <1>8 DEF L, k

\* Where a chain on a branch is, by its head.
LEMMA OnBranch ==
  ASSUME NEW b \in Blocks, NEW m, NEW q, Branch(m, q, b), NEW c, Path(c), On(c, b), m - 1 <= Len(c)
  PROVE  /\ HeadOf(c) = Parent[q[1]] <=> Len(c) = m - 1
         /\ HeadOf(c) # Parent[q[1]] => m <= Len(c)
         /\ HeadOf(c) # Last(q) => /\ Len(c) + 1 \in m..Num(b)
                                   /\ q[Len(c) - Num(q[1]) + 2] = Lineage[b][Len(c) + 1]
                                   /\ q[Len(c) - Num(q[1]) + 2] \in Blocks
<1>1. /\ q \in Seq(Blocks) /\ q # << >> /\ m \in 1..Num(b) /\ m \in Nat \ {0} /\ Num(b) \in Nat
      /\ q[1] = Lineage[b][m] /\ q[1] \in Blocks /\ Num(q[1]) = m /\ Last(q) = b
      /\ \A n \in m..Num(b) : q[n - m + 1] = Lineage[b][n] /\ q[n - m + 1] \in Blocks
  BY BranchAt
<1>2. c \in Seq(Blocks) /\ Len(c) \in Nat /\ (HeadOf(c) = Genesis <=> Len(c) = 0)
  BY HeadOfPath
<1>3. ASSUME Len(c) # 0
      PROVE  /\ HeadOf(c) = c[Len(c)] /\ Num(HeadOf(c)) = Len(c) /\ HeadOf(c) = Lineage[b][Len(c)]
             /\ HeadOf(c) \in Blocks
  <2>1. c # << >>
    BY <1>2, <1>3
  <2>2. HeadOf(c) = c[Len(c)] /\ Num(HeadOf(c)) = Len(c) /\ HeadOf(c) \in Blocks
    BY <2>1, PathIsLineage
  <2>3. Len(c) \in 1..Len(c)
    BY <1>2, <1>3
  <2> QED
    BY <2>2, <2>3 DEF On
<1>4. /\ m = 1 => Parent[q[1]] = Genesis
      /\ m # 1 => Parent[q[1]] = Lineage[b][m - 1] /\ Num(Parent[q[1]]) = m - 1 /\ Parent[q[1]] \in Blocks
  <2>1. /\ m = 1 => Parent[Lineage[b][m]] = Genesis
        /\ m # 1 => Parent[Lineage[b][m]] = Lineage[b][m - 1] /\ m - 1 \in 1..Num(b)
    BY <1>1, LineageAt
  <2>2. m # 1 => Num(Lineage[b][m - 1]) = m - 1 /\ Lineage[b][m - 1] \in Blocks
    BY <2>1, LineageAt
  <2> QED
    BY <1>1, <2>1, <2>2
<1>5. ASSUME Len(c) = m - 1 PROVE HeadOf(c) = Parent[q[1]]
  <2>1. CASE m = 1
    BY <1>2, <1>4, <1>5, <2>1
  <2>2. CASE m # 1
    <3>1. Len(c) # 0
      BY <1>1, <1>5, <2>2
    <3>2. HeadOf(c) = Lineage[b][Len(c)]
      BY <1>3, <3>1
    <3> QED
      BY <1>4, <1>5, <2>2, <3>2
  <2> QED
    BY <2>1, <2>2
<1>6. ASSUME HeadOf(c) = Parent[q[1]] PROVE Len(c) = m - 1
  <2>1. CASE m = 1
    BY <1>2, <1>4, <1>6, <2>1
  <2>2. CASE m # 1
    <3>1. Len(c) # 0
      BY <1>2, <1>4, <1>6, <2>2, BlockTreeAssumption
    <3> QED
      BY <1>3, <1>4, <1>6, <2>2, <3>1
  <2> QED
    BY <2>1, <2>2
<1>7. HeadOf(c) # Parent[q[1]] => m <= Len(c)
  BY <1>1, <1>2, <1>5
<1>8. ASSUME HeadOf(c) # Last(q)
      PROVE  /\ Len(c) + 1 \in m..Num(b)
             /\ q[Len(c) - Num(q[1]) + 2] = Lineage[b][Len(c) + 1]
             /\ q[Len(c) - Num(q[1]) + 2] \in Blocks
  <2>1. Len(c) <= Num(b)
    BY DEF On
  <2>2. Len(c) # Num(b)
    <3>1. ASSUME Len(c) = Num(b) PROVE FALSE
      <4>1. Num(b) # 0
        BY <1>1
      <4>2. HeadOf(c) = Lineage[b][Num(b)]
        BY <1>3, <3>1, <4>1
      <4> QED
        BY <1>1, <1>8, <4>2, LineageType
    <3> QED
      BY <3>1
  <2> DEFINE n == Len(c) + 1
  <2>3. n \in m..Num(b) /\ Len(c) - m + 2 = n - m + 1
    BY <1>1, <1>2, <2>1, <2>2
  <2>4. q[n - m + 1] = Lineage[b][n] /\ q[n - m + 1] \in Blocks
    BY <1>1, <2>3
  <2>5. Len(c) - Num(q[1]) + 2 = n - m + 1
    BY <1>1, <2>3
  <2> QED
    BY <2>3, <2>4, <2>5
<1> QED
  BY <1>5, <1>6, <1>7, <1>8

\* Below the number where they part, the two branches are the same.
LEMMA SameBase ==
  ASSUME NEW f \in Blocks, NEW s \in Blocks, NEW m \in 1..Num(f), m \in 1..Num(s),
         Parent[Lineage[f][m]] = Parent[Lineage[s][m]], NEW c, On(c, f), Len(c) \in Nat, Len(c) = m - 1
  PROVE  On(c, s)
<1>1. Num(f) \in Nat /\ Num(s) \in Nat /\ Lineage[f] \in Seq(Blocks) /\ Lineage[s] \in Seq(Blocks)
      /\ Len(Lineage[f]) = Num(f) /\ Len(Lineage[s]) = Num(s)
  BY LineageType
<1>2. Len(c) <= Num(s)
  BY <1>1
<1>3. ASSUME NEW i \in 1..Len(c) PROVE Lineage[f][i] = Lineage[s][i]
  <2>1. m # 1 /\ m \in Nat /\ i \in 1..(m - 1)
    BY <1>1
  <2>2. /\ Parent[Lineage[f][m]] = Lineage[f][m - 1] /\ m - 1 \in 1..Num(f)
        /\ Parent[Lineage[s][m]] = Lineage[s][m - 1] /\ m - 1 \in 1..Num(s)
    BY <2>1, LineageAt
  <2> DEFINE k == m - 1
  <2>3. k \in 1..Num(f) /\ k \in 1..Num(s) /\ k \in Nat /\ k <= Num(f) /\ k <= Num(s) /\ Lineage[f][k] = Lineage[s][k]
    <3>1. k \in 1..Num(f) /\ k \in 1..Num(s) /\ Lineage[f][k] = Lineage[s][k]
      BY <2>2
    <3> HIDE DEF k
    <3> QED
      BY <1>1, <3>1
  <2> HIDE DEF k
  <2>4. SubSeq(Lineage[f], 1, k) = SubSeq(Lineage[s], 1, k)
    <3>1. Lineage[Lineage[f][k]] = SubSeq(Lineage[f], 1, k)
      BY <2>3, LineageAt
    <3>2. Lineage[Lineage[s][k]] = SubSeq(Lineage[s], 1, k)
      BY <2>3, LineageAt
    <3> QED
      BY <2>3, <3>1, <3>2
  <2>5. \A j \in 1..k : SubSeq(Lineage[f], 1, k)[j] = Lineage[f][j] /\ SubSeq(Lineage[s], 1, k)[j] = Lineage[s][j]
    BY <1>1, <2>3, PrefixOf
  <2> QED
    BY <2>1, <2>4, <2>5 DEF k
<1> QED
  BY <1>2, <1>3 DEF On

-----------------------------------------------------------------------------
(* Steps that leave the chain, the block log and the disk alone.           *)

\* The fields of a push.
LEMMA PushType ==
  ASSUME PushOK
  PROVE  /\ push \in PushRecords
         /\ push.block \in Blocks \cup {None} /\ push.new \in Seq(Blocks) /\ push.old \in Seq(Blocks)
         /\ push.saved \in Seq(Transactions) /\ push.failed \in BOOLEAN /\ push.before \in Seq(Blocks)
         /\ push.irreversible \in Nat /\ push.known \in SUBSET Transactions /\ push.cutoff \in Nat
         /\ push.last \in Nat /\ push.todo \in Seq(Blocks) /\ push.gap \in BOOLEAN
<1>1. push \in PushRecords
  BY DEF PushOK
<1> QED
  BY <1>1 DEF PushRecords

\* A push that has not begun.
LEMMA NoPushType ==
  /\ NoPush \in PushRecords /\ NoPush.last = 0 /\ NoPush.gap = FALSE
  /\ \A n \in Nat : /\ [NoPush EXCEPT !.cutoff = n] \in PushRecords
                    /\ [NoPush EXCEPT !.cutoff = n].last = 0 /\ [NoPush EXCEPT !.cutoff = n].gap = FALSE
<1>1. << >> \in Seq(Blocks) /\ << >> \in Seq(Transactions) /\ {} \in SUBSET Transactions
  OBVIOUS
<1> QED
  BY <1>1 DEF NoPush, PushRecords

\* Undo is recorded wherever blocks are pushed, popped or applied.
LEMMA Recording ==
  ASSUME IInv, pc \notin {"reindex", "dead"}
  PROVE  recording /\ recording = TRUE
<1>1. recording \in BOOLEAN /\ (~recording => pc \in {"reindex", "dead"})
  BY DEF IInv, TypesOK, StartOK
<1> QED
  BY <1>1

\* A step inside of the running node that at most drops undo versions.
LEMMA QuietStep ==
  ASSUME IInv, recording, UNCHANGED <<chain, disk, recording, log, crashes>>,
         ChainOK', Len(undo') <= Len(undo), TypesOK', PushOK', ForkOK', KnownOK',
         pc # "closed", pc' # "closed",
         push'.last = push.last \/ push'.last = 0, push'.gap => push.gap
  PROVE  IInv'
<1>1. Len(chain) \in Nat /\ Len(undo) \in Nat /\ Len(undo') \in Nat
  BY DEF IInv, ChainOK, Path
<1>2. StartOK'
  <2>1. Len(disk.chain) <= Len(chain) - Len(undo) /\ (push.last # 0 => Len(disk.chain) + 1 >= UndoPoint(push.last))
    BY DEF IInv, StartOK
  <2>2. Len(disk.chain) \in Nat
    BY DEF IInv, TypesOK, Path
  <2>3. Len(disk'.chain) <= Len(chain') - Len(undo')
    BY <1>1, <2>1, <2>2
  <2>4. push'.last # 0 => Len(disk'.chain) + 1 >= UndoPoint(push'.last)
    BY <2>1
  <2> QED
    BY <2>3, <2>4 DEF StartOK, UndoPoint
<1>3. LogOK'
  <2>1. SUFFICES ASSUME crashes = 0 PROVE LogOK'
    BY DEF LogOK
  <2>2. /\ Holds(chain) /\ Holds(disk.chain)
        /\ \A n \in 1..MaxNum : log[n] # None => \A m \in 1..n : log[m] # None
        /\ ~push.gap
    BY <2>1 DEF IInv, LogOK
  <2> QED
    BY <2>2 DEF LogOK, Holds
<1> QED
  BY <1>2, <1>3 DEF IInv

\* An unchanged chain with an unchanged undo history.
LEMMA SameChain ==
  ASSUME IInv, UNCHANGED <<chain, lib, undo>>
  PROVE  ChainOK' /\ Len(undo') <= Len(undo)
<1>1. Len(undo) \in Nat
  BY DEF IInv, ChainOK
<1> QED
  BY <1>1 DEF IInv, ChainOK

\* pop_block and remove leave the fork database with a block of it as its head.
LEMMA ForkHeads ==
  ASSUME IInv
  PROVE  /\ PopOutcome.head \in Blocks \cup {None}
         /\ PopOutcome.ok => undo # << >>
         /\ \A b \in Blocks, index \in SUBSET Blocks, head \in Blocks \cup {None} :
              /\ ForkRemove(b, index, head).index \subseteq Blocks
              /\ ForkRemove(b, index, head).head \in Blocks \cup {None}
<1>1. /\ forkIndex \subseteq Blocks /\ forkHead \in Blocks \cup {None}
      /\ push.new \in Seq(Blocks) /\ push.old \in Seq(Blocks)
  BY PushType DEF IInv, TypesOK
<1>2. Held \subseteq Blocks
  BY <1>1 DEF Held, Range
<1>3. \A b \in Blocks, index \in SUBSET Blocks : Locks(b, index) => Parent[b] \in Blocks
  BY <1>2 DEF Locks
<1>4. \A b \in Blocks, index \in SUBSET Blocks, head \in Blocks \cup {None} :
        /\ ForkRemove(b, index, head).index \subseteq Blocks
        /\ ForkRemove(b, index, head).head \in Blocks \cup {None}
  BY <1>3 DEF ForkRemove
<1>5. PopOutcome.head \in Blocks \cup {None} /\ (PopOutcome.ok => undo # << >>)
  <2>1. CASE forkHead = None
    BY <2>1 DEF PopOutcome
  <2>2. CASE forkHead # None /\ forkHead = Head_ /\ ~Locks(forkHead, forkIndex)
    BY <1>1, <2>2 DEF PopOutcome
  <2>3. CASE forkHead # None /\ forkHead = Head_ /\ Locks(forkHead, forkIndex)
    <3>1. Parent[forkHead] \in Blocks
      BY <1>1, <1>3, <2>3
    <3> QED
      BY <2>3, <3>1 DEF PopOutcome
  <2>4. CASE forkHead # None /\ forkHead # Head_
    BY <1>1, <2>4 DEF PopOutcome
  <2> QED
    BY <2>1, <2>2, <2>3, <2>4
<1> QED
  BY <1>4, <1>5

\* The transactions of a chain.
LEMMA IncludedType ==
  ASSUME NEW c \in Seq(Blocks)
  PROVE  Included(c) \subseteq Transactions
<1>1. \A i \in DOMAIN c : Txs[c[i]] \in Seq(Transactions)
  BY BlockTreeAssumption
<1>2. \A i \in DOMAIN c : Range(Txs[c[i]]) \subseteq Transactions
  BY <1>1 DEF Range
<1> QED
  BY <1>2 DEF Included

\* A longer chain has more transactions, and a shorter one what its last block had not.
LEMMA IncludedMore ==
  ASSUME NEW c \in Seq(Blocks), NEW d \in Seq(Blocks), Len(c) = Len(d) + 1,
         \A i \in 1..Len(d) : c[i] = d[i]
  PROVE  Included(d) \subseteq Included(c) /\ Included(c) \subseteq Included(d) \cup Range(Txs[c[Len(c)]])
<1>1. DOMAIN c = 1..Len(c) /\ DOMAIN d = 1..Len(d) /\ Len(c) \in Nat /\ Len(d) \in Nat
  OBVIOUS
<1>2. \A i \in DOMAIN d : i \in DOMAIN c /\ c[i] = d[i]
  BY <1>1
<1>3. \A i \in DOMAIN c : i \in DOMAIN d \/ i = Len(c)
  BY <1>1
<1>4. Included(d) \subseteq Included(c)
  BY <1>2 DEF Included
<1>5. Included(c) \subseteq Included(d) \cup Range(Txs[c[Len(c)]])
  <2> SUFFICES ASSUME NEW t \in Included(c) PROVE t \in Included(d) \cup Range(Txs[c[Len(c)]])
    OBVIOUS
  <2>1. PICK i \in DOMAIN c : t \in Range(Txs[c[i]])
    BY DEF Included
  <2>2. CASE i = Len(c)
    BY <2>1, <2>2
  <2>3. CASE i \in DOMAIN d
    <3>1. t \in Range(Txs[d[i]])
      BY <1>2, <2>1, <2>3
    <3> QED
      BY <2>3, <3>1 DEF Included
  <2> QED
    BY <1>3, <2>2, <2>3
<1> QED
  BY <1>4, <1>5

-----------------------------------------------------------------------------
(* Steps that apply or pop a block.                                        *)

\* Every step that applies a block stores it at its number.
LEMMA ApplyKeeps ==
  ASSUME IInv, pc \in {"extend", "switch", "reapply"}, NEW b \in Blocks, Applies(b), ApplyAndStore(b),
         UNCHANGED <<session, recording, forkHead, linked, pending, popped, disk, crashes>>,
         pc' \in Switching \cup {"restore"}, PushOK', ForkOK', push'.last = push.last, push'.gap = push.gap,
         push'.known = push.known, push'.saved = push.saved
  PROVE  IInv'
<1>1. recording
  BY Recording
<1>2. ChainOK /\ undoMax \in Nat
  BY DEF IInv, TypesOK
<1>3. /\ ChainOK' /\ undoMax' \in Nat /\ forkMax' \in Nat
      /\ chain' = Append(chain, b) /\ Len(chain) \in Nat /\ Num(b) = Len(chain) + 1
      /\ Len(chain) - Len(undo) <= Len(chain') - Len(undo')
  BY <1>2, ApplyStep
<1>4. /\ forkIndex' = Resized(BlockSize(b), forkIndex)
      /\ log' = [log EXCEPT ![Num(b)] = b]
      /\ unsynced' = [num |-> Num(b), old |-> log[Num(b)]]
  BY DEF ApplyAndStore, ApplyWith
<1>5. /\ chain \in Seq(Blocks) /\ chain' \in Seq(Blocks) /\ Len(chain') = Len(chain) + 1 /\ chain'[Len(chain) + 1] = b
      /\ \A i \in 1..Len(chain) : chain'[i] = chain[i]
  BY <1>2, <1>3 DEF ChainOK, Path
<1>6. Num(b) \in 1..MaxNum /\ MaxNum \in Nat
  BY Numbers
<1>7. TypesOK'
  <2>1. forkIndex' \subseteq Blocks
    BY <1>4 DEF Resized, Erase, IInv, TypesOK
  <2>2. log' \in [1..MaxNum -> Blocks \cup {None}] /\ unsynced'.old \in Blocks \cup {None}
    BY <1>4, <1>6 DEF IInv, TypesOK
  <2>3. pc' \in Steps
    BY DEF Switching, Steps
  <2> QED
    BY <1>3, <2>1, <2>2, <2>3 DEF IInv, TypesOK
<1>8. KnownOK'
  <2>1. Included(chain) \subseteq Included(chain')
    BY <1>5, IncludedMore
  <2>2. push.known \subseteq Included(chain) \cup Range(popped) \cup Range(push.saved)
    BY DEF IInv, KnownOK, Switching
  <2> QED
    BY <2>1, <2>2 DEF KnownOK
<1>9. Len(disk.chain) \in Nat /\ Len(disk.chain) <= Len(chain) - Len(undo) /\ Len(undo) \in Nat /\ Len(undo') \in Nat
  <2>1. Len(disk.chain) <= Len(chain) - Len(undo)
    BY DEF IInv, StartOK
  <2>2. disk.chain \in Seq(Blocks)
    BY DEF IInv, TypesOK, Path
  <2>3. undo \in Seq(Versions) /\ (undo \in Seq(Versions))'
    BY <1>2, <1>3 DEF ChainOK
  <2>4. Len(undo) \in Nat /\ Len(undo') \in Nat
    BY <2>3
  <2> QED
    BY <2>1, <2>2, <2>4
<1>10. StartOK'
  <2>1. Len(disk'.chain) <= Len(chain') - Len(undo')
    BY <1>3, <1>5, <1>9
  <2>2. push'.last # 0 => Len(disk'.chain) + 1 >= UndoPoint(push'.last)
    BY <1>1 DEF IInv, StartOK
  <2>3. pc' # "closed" /\ recording'
    BY <1>1 DEF Switching
  <2> QED
    BY <2>1, <2>2, <2>3 DEF StartOK, UndoPoint
<1>11. LogOK'
  <2>1. SUFFICES ASSUME crashes = 0 PROVE LogOK'
    BY DEF LogOK
  <2>2. /\ Holds(chain) /\ Holds(disk.chain)
        /\ \A n \in 1..MaxNum : log[n] # None => \A m \in 1..n : log[m] # None
        /\ ~push.gap
    BY <2>1 DEF IInv, LogOK
  <2>3. /\ log'[Len(chain) + 1] = b /\ Len(chain) + 1 <= MaxNum
        /\ \A n \in 1..MaxNum : n # Len(chain) + 1 => log'[n] = log[n]
    BY <1>3, <1>4, <1>6 DEF IInv, TypesOK
  <2>4. \A n \in 1..Len(chain) : n \in 1..MaxNum /\ n # Len(chain) + 1
    BY <1>3, <1>6, <2>3
  <2>5. \A n \in 1..(Len(chain) + 1) : log'[n] = chain'[n]
    <3>1. ASSUME NEW n \in 1..(Len(chain) + 1) PROVE n = Len(chain) + 1 \/ n \in 1..Len(chain)
      BY <1>3
    <3> QED
      BY <1>5, <2>2, <2>3, <2>4, <3>1 DEF Holds
  <2>6. \A n \in 1..Len(disk.chain) : log'[n] = disk.chain[n]
    <3>1. \A n \in 1..Len(disk.chain) : n \in 1..Len(chain)
      BY <1>3, <1>9
    <3> QED
      BY <2>2, <2>3, <2>4, <3>1 DEF Holds
  <2>7. ASSUME NEW n \in 1..MaxNum, log'[n] # None, NEW m \in 1..n PROVE log'[m] # None
    <3>1. CASE m \in 1..(Len(chain) + 1)
      <4>1. chain'[m] \in Blocks
        BY <1>5, <3>1
      <4> QED
        BY <2>5, <3>1, <4>1, BlockTreeAssumption
    <3>2. CASE m \notin 1..(Len(chain) + 1)
      <4>1. m # Len(chain) + 1 /\ n # Len(chain) + 1 /\ m \in 1..MaxNum
        BY <1>3, <1>6, <3>2
      <4> QED
        BY <2>2, <2>3, <2>7, <4>1
    <3> QED
      BY <3>1, <3>2
  <2>8. Holds(chain)' /\ Holds(disk.chain)'
    BY <1>5, <2>5, <2>6 DEF Holds
  <2>9. \A n \in 1..MaxNum : log'[n] # None => \A m \in 1..n : log'[m] # None
    BY <2>7
  <2>10. pc' # "reindex" /\ ~push'.gap
    BY <2>2 DEF Switching
  <2> QED
    BY <2>8, <2>9, <2>10 DEF LogOK
<1> QED
  BY <1>3, <1>7, <1>8, <1>10, <1>11 DEF IInv

\* Every step that pops a block keeps its transactions.
LEMMA PopKeeps ==
  ASSUME IInv, pc \in {"pop", "unwind", "closing"}, PopOutcome.ok, PopVersion,
         UNCHANGED <<undoMax, session, recording, linked, forkMax, pending, log, unsynced, disk, crashes, pc, push>>,
         forkIndex' \subseteq Blocks, forkHead' \in Blocks \cup {None}, ForkOK'
  PROVE  IInv'
<1>1. recording /\ undo # << >> /\ ChainOK
  BY Recording, ForkHeads DEF IInv
<1>2. /\ ChainOK' /\ Len(chain) \in Nat \ {0}
      /\ Len(chain') = Len(chain) - 1 /\ \A i \in 1..(Len(chain) - 1) : chain'[i] = chain[i]
      /\ Head_ = chain[Len(chain)] /\ Head_ \in Blocks /\ popped' = Txs[Head_] \o popped
      /\ Len(chain') - Len(undo') = Len(chain) - Len(undo)
  BY <1>1, PopStep
<1>3. chain \in Seq(Blocks) /\ chain' \in Seq(Blocks) /\ Len(chain) = Len(chain') + 1
  BY <1>1, <1>2 DEF ChainOK, Path
<1>4. Txs[Head_] \in Seq(Transactions) /\ popped \in Seq(Transactions)
  BY <1>2, BlockTreeAssumption DEF IInv, TypesOK
<1>5. popped' \in Seq(Transactions) /\ Range(popped') = Range(Txs[Head_]) \cup Range(popped)
  <2> DEFINE x == Txs[Head_]
  <2>1. x \in Seq(Transactions) /\ popped' = x \o popped
    BY <1>2, <1>4
  <2> HIDE DEF x
  <2>2. popped' \in Seq(Transactions)
    BY <1>4, <2>1
  <2>3. Range(popped') = Range(x) \cup Range(popped)
    BY <1>4, <2>1, RangeConcat
  <2> QED
    BY <2>2, <2>3 DEF x
<1>6. TypesOK'
  BY <1>5 DEF IInv, TypesOK
<1>7. PushOK'
  BY DEF IInv, PushOK
<1>8. KnownOK'
  <2>1. Included(chain) \subseteq Included(chain') \cup Range(Txs[Head_])
    BY <1>2, <1>3, IncludedMore
  <2>2. CASE pc = "closing"
    BY <2>2 DEF KnownOK, Switching
  <2>3. CASE pc # "closing"
    <3>1. push.known \subseteq Included(chain) \cup Range(popped) \cup Range(push.saved)
      BY <2>3 DEF IInv, KnownOK, Switching
    <3> HIDE DEF Head_
    <3> QED
      BY <1>5, <2>1, <3>1 DEF KnownOK
  <2> QED
    BY <2>2, <2>3
<1>9. StartOK'
  <2>1. Len(disk.chain) <= Len(chain) - Len(undo) /\ (push.last # 0 => Len(disk.chain) + 1 >= UndoPoint(push.last))
    BY <1>1 DEF IInv, StartOK
  <2>2. Len(disk'.chain) <= Len(chain') - Len(undo')
    BY <1>2, <2>1
  <2> QED
    BY <1>1, <2>1, <2>2 DEF StartOK, UndoPoint
<1>10. LogOK'
  <2>1. SUFFICES ASSUME crashes = 0 PROVE LogOK'
    BY DEF LogOK
  <2>2. /\ Holds(chain) /\ Holds(disk.chain)
        /\ \A n \in 1..MaxNum : log[n] # None => \A m \in 1..n : log[m] # None
        /\ ~push.gap
    BY <2>1 DEF IInv, LogOK
  <2>3. \A n \in 1..Len(chain') : n \in 1..Len(chain) /\ chain'[n] = chain[n]
    BY <1>2, <1>3
  <2> QED
    BY <2>2, <2>3 DEF LogOK, Holds
<1> QED
  BY <1>2, <1>6, <1>7, <1>8, <1>9, <1>10 DEF IInv

-----------------------------------------------------------------------------
(* The steps of push_block.                                                *)

\* Moving on to another step, or finishing, changes no other field of the push.
LEMMA FinishType ==
  ASSUME IInv, pc \in Switching \cup {"extend"}, NEW r \in BOOLEAN, Finish(r)
  PROVE  /\ pc' = "restore" /\ PushOK' /\ ForkOK'
         /\ push'.last = push.last /\ push'.gap = push.gap /\ push'.known = push.known
         /\ push'.saved = push.saved
<1>1. pc' = "restore" /\ push' = [push EXCEPT !.failed = r]
  BY DEF Finish
<1>2. push \in PushRecords /\ (push.last # 0 => push.todo # << >>)
  BY DEF IInv, PushOK, Switching
<1>3. push' \in PushRecords /\ push'.last = push.last /\ push'.gap = push.gap
      /\ push'.known = push.known /\ push'.saved = push.saved /\ push'.todo = push.todo
  BY <1>1, <1>2 DEF PushRecords
<1> QED
  BY <1>1, <1>2, <1>3 DEF PushOK, ForkOK, Switching

\* Inside of push_block nothing is known that is not at hand, whatever the next step.
LEMMA StillKnown ==
  ASSUME IInv, pc \in Switching \cup {"extend", "restore"}, UNCHANGED <<chain, popped>>,
         push'.known = push.known, push'.saved = push.saved
  PROVE  KnownOK'
BY DEF IInv, KnownOK

\* Finishing without having changed the chain.
LEMMA FinishKeeps ==
  ASSUME IInv, pc \in Switching \cup {"extend"}, NEW r \in BOOLEAN, Finish(r),
         UNCHANGED <<chain, lib, popped, pending, session, recording, undoMax, forkMax, linked, disk, log, unsynced, crashes>>,
         undo' = undo \/ undo' = KeepLast(undo, undoMax),
         forkIndex' \subseteq Blocks, forkHead' \in Blocks \cup {None}
  PROVE  IInv'
<1>1. /\ pc' = "restore" /\ PushOK' /\ ForkOK'
      /\ push'.last = push.last /\ push'.gap = push.gap /\ push'.known = push.known
      /\ push'.saved = push.saved
  BY FinishType
<1>2. recording
  BY Recording DEF Switching
<1>3. ChainOK /\ undoMax \in Int /\ undo \in Seq(Versions)
  BY DEF IInv, TypesOK, ChainOK
<1>8. Latest(undo', undo)
  BY <1>3, KeptLatest
<1>4. ChainOK' /\ Len(undo') <= Len(undo)
  BY <1>3, <1>8, DropStep
<1>5. TypesOK'
  BY <1>1 DEF IInv, TypesOK, Steps
<1>6. KnownOK'
  BY <1>1, StillKnown
<1>7. pc # "closed" /\ pc' # "closed"
  BY <1>1 DEF Switching
<1> QED
  BY <1>1, <1>2, <1>4, <1>5, <1>6, <1>7, QuietStep

\* extend: the block applies, or it leaves the fork database again.
LEMMA ExtendStep ==
  ASSUME IInv, Extend
  PROVE  IInv'
<1>1. pc = "extend" /\ push.block \in Blocks
  BY DEF Extend, IInv, PushOK
<1>2. UNCHANGED <<session, recording, linked, pending, popped, disk, crashes>>
  BY DEF Extend, txVars
<1>3. CASE Applies(push.block)
  <2>1. ApplyAndStore(push.block) /\ Finish(FALSE) /\ UNCHANGED forkHead
    BY <1>3 DEF Extend
  <2>2. /\ pc' = "restore" /\ PushOK' /\ ForkOK'
        /\ push'.last = push.last /\ push'.gap = push.gap /\ push'.known = push.known
        /\ push'.saved = push.saved
    BY <1>1, <2>1, FinishType
  <2> QED
    BY <1>1, <1>2, <1>3, <2>1, <2>2, ApplyKeeps
<1>4. CASE ~Applies(push.block)
  <2>1. /\ undo' = KeepLast(undo, undoMax) /\ Finish(TRUE)
        /\ forkIndex' = ForkRemove(push.block, forkIndex, forkHead).index
        /\ forkHead' = ForkRemove(push.block, forkIndex, forkHead).head
        /\ UNCHANGED <<chain, lib, undoMax, forkMax, log, unsynced>>
    BY <1>4 DEF Extend, ThrowInSession
  <2>2. forkIndex \in SUBSET Blocks /\ forkHead \in Blocks \cup {None}
    BY DEF IInv, TypesOK
  <2>3. forkIndex' \subseteq Blocks /\ forkHead' \in Blocks \cup {None}
    BY <1>1, <2>1, <2>2, ForkHeads
  <2> QED
    BY <1>1, <1>2, <2>1, <2>3, FinishKeeps
<1> QED
  BY <1>3, <1>4

\* Popping toward the common previous block.
LEMMA PopFails ==
  ASSUME IInv, pc \in {"pop", "unwind"}, forkHead' = PopOutcome.head, Finish(TRUE),
         UNCHANGED <<chain, lib, undo, popped, undoMax, session, recording, forkIndex, linked, forkMax, pending, log, unsynced, disk, crashes>>
  PROVE  IInv'
<1>1. forkIndex' \subseteq Blocks /\ forkHead' \in Blocks \cup {None}
  BY ForkHeads DEF IInv, TypesOK
<1> QED
  BY <1>1, FinishKeeps DEF Switching

\* A pop that succeeds stays on the branch, above the common block.
LEMMA PopOnBranch ==
  ASSUME IInv, pc \in {"pop", "unwind"}, Head_ # Parent[push.old[1]], PopOutcome.ok, PopVersion,
         UNCHANGED <<pc, push>>
  PROVE  ForkOK'
<1>1. undo # << >> /\ ChainOK /\ Path(chain)
  BY ForkHeads DEF IInv, ChainOK
<1>2. /\ Len(chain) \in Nat \ {0} /\ Len(chain') = Len(chain) - 1
      /\ \A i \in 1..(Len(chain) - 1) : chain'[i] = chain[i]
  BY <1>1, PopStep
<1>3. PICK m \in 1..MaxNum, f \in Blocks, s \in Blocks : Forked(m, f, s)
  BY DEF IInv, ForkOK, Switching
<1> DEFINE b == IF pc \in {"pop", "reapply"} THEN s ELSE f
           q == IF pc \in {"pop", "reapply"} THEN push.old ELSE push.new
<1>4. /\ b \in Blocks /\ Branch(m, q, b) /\ On(chain, b) /\ m - 1 <= Len(chain)
      /\ Branch(m, push.new, f) /\ Branch(m, push.old, s)
      /\ Parent[Lineage[f][m]] = Parent[Lineage[s][m]]
  BY <1>3 DEF Forked
<1>5. push.new[1] = Lineage[f][m] /\ push.old[1] = Lineage[s][m] /\ m \in Nat
  BY <1>4, BranchAt
<1>6. Parent[q[1]] = Parent[push.old[1]]
  BY <1>4, <1>5
<1> HIDE DEF q, b
<1>7. m <= Len(chain)
  <2>1. HeadOf(chain) # Parent[q[1]]
    BY <1>6 DEF Head_
  <2> QED
    BY <1>1, <1>4, <2>1, OnBranch
<1>8. Num(b) \in Nat
  BY <1>4, LineageType
<1>9. On(chain, b)'
  <2>1. Len(chain') <= Num(b) /\ \A i \in 1..Len(chain') : i \in 1..Len(chain) /\ i \in 1..(Len(chain) - 1)
    BY <1>2, <1>4, <1>8 DEF On
  <2> QED
    BY <1>2, <1>4, <2>1 DEF On, b
<1>10. m - 1 <= Len(chain')
  BY <1>2, <1>5, <1>7
<1>11. Forked(m, f, s)'
  BY <1>4, <1>9, <1>10 DEF Forked, b, Branch, Num, On
<1> QED
  BY <1>3, <1>11 DEF ForkOK

LEMMA PopForSwitchStep ==
  ASSUME IInv, PopForSwitch \/ PopForUnwind
  PROVE  IInv'
<1>1. /\ pc \in {"pop", "unwind"} /\ Head_ # Parent[push.old[1]] /\ forkHead' = PopOutcome.head
      /\ UNCHANGED <<undoMax, session, recording, forkIndex, linked, forkMax, pending, log, unsynced, disk, crashes>>
  BY DEF PopForSwitch, PopForUnwind, diskVars, boundVars
<1>2. CASE PopOutcome.ok
  <2>1. PopVersion /\ UNCHANGED <<pc, push>>
    BY <1>2 DEF PopForSwitch, PopForUnwind
  <2>2. ForkOK'
    BY <1>1, <1>2, <2>1, PopOnBranch
  <2>3. forkIndex' \subseteq Blocks /\ forkHead' \in Blocks \cup {None}
    BY <1>1, ForkHeads DEF IInv, TypesOK
  <2> QED
    BY <1>1, <1>2, <2>1, <2>2, <2>3, PopKeeps
<1>3. CASE ~PopOutcome.ok
  <2>1. UNCHANGED <<chain, lib, undo, popped>> /\ Finish(TRUE)
    BY <1>3 DEF PopForSwitch, PopForUnwind
  <2> QED
    BY <1>1, <2>1, PopFails
<1> QED
  BY <1>2, <1>3

\* Where the branches part the chain is on both.
LEMMA PoppedStep ==
  ASSUME IInv, PoppedForSwitch \/ PoppedForUnwind
  PROVE  IInv'
<1>1. /\ pc \in {"pop", "unwind"} /\ Head_ = Parent[push.old[1]]
      /\ pc = "pop" => pc' = "switch"
      /\ pc = "unwind" => pc' = "reapply"
      /\ UNCHANGED <<chain, lib, undo, undoMax, session, recording, forkIndex, forkHead, linked, forkMax, pending, popped, log, unsynced, disk, push, crashes>>
  BY DEF PoppedForSwitch, PoppedForUnwind, diskVars, boundVars, chainVars, forkVars, txVars
<1>2. recording /\ Path(chain)
  BY <1>1, Recording DEF IInv, ChainOK
<1>3. PICK m \in 1..MaxNum, f \in Blocks, s \in Blocks : Forked(m, f, s)
  BY <1>1 DEF IInv, ForkOK, Switching
<1>4. /\ Branch(m, push.new, f) /\ Branch(m, push.old, s) /\ m - 1 <= Len(chain)
      /\ Parent[Lineage[f][m]] = Parent[Lineage[s][m]]
      /\ On(chain, IF pc \in {"pop", "reapply"} THEN s ELSE f)
  BY <1>3 DEF Forked
<1>5. /\ push.new[1] = Lineage[f][m] /\ push.old[1] = Lineage[s][m] /\ m \in Nat
      /\ m \in 1..Num(f) /\ m \in 1..Num(s)
  BY <1>4, BranchAt
<1>6. HeadOf(chain) = Parent[push.old[1]] /\ HeadOf(chain) = Parent[push.new[1]]
  BY <1>1, <1>4, <1>5 DEF Head_
<1>7. Len(chain) = m - 1 /\ Len(chain) \in Nat
  <2>1. CASE pc = "pop"
    <3>1. On(chain, s) /\ Len(chain) \in Nat
      BY <1>2, <1>4, <2>1, HeadOfPath
    <3>2. Branch(m, push.old, s) /\ m - 1 <= Len(chain) /\ HeadOf(chain) = Parent[push.old[1]]
      BY <1>4, <1>6
    <3> QED
      BY <1>2, <3>1, <3>2, OnBranch
  <2>2. CASE pc = "unwind"
    <3>1. On(chain, f) /\ Len(chain) \in Nat
      BY <1>2, <1>4, <2>2, HeadOfPath
    <3> QED
      BY <1>2, <1>4, <1>6, <3>1, OnBranch
  <2> QED
    BY <1>1, <2>1, <2>2
<1>8. On(chain, IF pc = "pop" THEN f ELSE s)
  <2>1. CASE pc = "pop"
    <3>1. On(chain, s)
      BY <1>4, <2>1
    <3>2. On(chain, f)
      BY <1>4, <1>5, <1>7, <3>1, SameBase
    <3> QED
      BY <2>1, <3>2
  <2>2. CASE pc = "unwind"
    <3>1. On(chain, f)
      BY <1>4, <2>2
    <3>2. On(chain, s)
      BY <1>4, <1>5, <1>7, <3>1, SameBase
    <3> QED
      BY <2>2, <3>2
  <2> QED
    BY <1>1, <2>1, <2>2
<1>9. Forked(m, f, s)'
  <2>1. On(chain, IF pc' \in {"pop", "reapply"} THEN s ELSE f)
    BY <1>1, <1>8
  <2> QED
    BY <1>1, <1>4, <2>1 DEF Forked, Branch, Num, On
<1>10. ForkOK'
  BY <1>9 DEF ForkOK
<1>11. ChainOK' /\ Len(undo') <= Len(undo)
  BY <1>1, SameChain
<1>12. pc' \in Steps /\ pc # "closed" /\ pc' # "closed" /\ pc' # "extend"
  BY <1>1 DEF Steps
<1>13. TypesOK' /\ PushOK'
  BY <1>1, <1>12 DEF IInv, TypesOK, PushOK, Switching
<1>14. KnownOK'
  BY <1>1, StillKnown DEF Switching
<1> QED
  BY <1>1, <1>2, <1>10, <1>11, <1>12, <1>13, <1>14, QuietStep

\* The next block of a branch brings the chain nearer to its end.
LEMMA ApplyOnBranch ==
  ASSUME NEW b \in Blocks, NEW m, NEW q, Branch(m, q, b), Path(chain), On(chain, b), m - 1 <= Len(chain),
         Head_ # Last(q), NEW x, x = q[Len(chain) - Num(q[1]) + 2], chain' = Append(chain, x)
  PROVE  x \in Blocks /\ On(chain', b) /\ m - 1 <= Len(chain')
<1>1. /\ Len(chain) + 1 \in m..Num(b) /\ x = Lineage[b][Len(chain) + 1] /\ x \in Blocks
  BY OnBranch DEF Head_
<1>2. chain \in Seq(Blocks) /\ Len(chain) \in Nat /\ Num(b) \in Nat /\ m \in Nat
  BY BranchAt, HeadOfPath
<1>3. Len(chain') = Len(chain) + 1 /\ chain'[Len(chain) + 1] = x /\ \A i \in 1..Len(chain) : chain'[i] = chain[i]
  BY <1>1, <1>2
<1>4. Len(chain') <= Num(b) /\ m - 1 <= Len(chain')
  BY <1>1, <1>2, <1>3
<1>5. ASSUME NEW i \in 1..Len(chain') PROVE chain'[i] = Lineage[b][i]
  <2>1. i \in 1..Len(chain) \/ i = Len(chain) + 1
    BY <1>2, <1>3
  <2> QED
    BY <1>1, <1>3, <2>1 DEF On
<1> QED
  BY <1>1, <1>4, <1>5 DEF On

\* Applying the blocks of the branch switched to, or of the old one again.
LEMMA SwitchApplyStep ==
  ASSUME IInv, SwitchApply \/ Reapply
  PROVE  IInv'
<1> DEFINE q == IF pc = "reapply" THEN push.old ELSE push.new
           x == q[Len(chain) - Num(q[1]) + 2]
<1>1. /\ pc \in {"switch", "reapply"} /\ Head_ # Last(q) /\ Applies(x) /\ ApplyAndStore(x)
      /\ UNCHANGED <<session, recording, forkHead, linked, pending, popped, disk, pc, push, crashes>>
  BY DEF SwitchApply, Reapply, Toward, txVars
<1>2. Path(chain) /\ chain' = Append(chain, x)
  BY <1>1 DEF IInv, ChainOK, ApplyAndStore, ApplyWith
<1>3. PICK m \in 1..MaxNum, f \in Blocks, s \in Blocks : Forked(m, f, s)
  BY <1>1 DEF IInv, ForkOK, Switching
<1> DEFINE b == IF pc = "reapply" THEN s ELSE f
<1>4. /\ Branch(m, push.new, f) /\ Branch(m, push.old, s) /\ m - 1 <= Len(chain)
      /\ Parent[Lineage[f][m]] = Parent[Lineage[s][m]]
      /\ b \in Blocks /\ Branch(m, q, b) /\ On(chain, b)
  BY <1>1, <1>3 DEF Forked
<1>5. x \in Blocks /\ On(chain', b) /\ m - 1 <= Len(chain')
  <2> DEFINE y == x
  <2>1. y = q[Len(chain) - Num(q[1]) + 2] /\ chain' = Append(chain, y)
    BY <1>2
  <2> HIDE DEF y, q, b
  <2>2. y \in Blocks /\ On(chain', b) /\ m - 1 <= Len(chain')
    BY <1>1, <1>2, <1>4, <2>1, ApplyOnBranch
  <2> QED
    BY <2>2 DEF y
<1>6. Forked(m, f, s)'
  <2>1. On(chain', IF pc' \in {"pop", "reapply"} THEN s ELSE f)
    BY <1>1, <1>5
  <2> HIDE DEF q, b
  <2> QED
    BY <1>1, <1>4, <1>5, <2>1 DEF Forked, Branch, Num, On
<1>7. ForkOK' /\ PushOK'
  BY <1>1, <1>6 DEF ForkOK, IInv, PushOK
<1>8. pc' \in Switching \cup {"restore"}
  BY <1>1 DEF Switching
<1> DEFINE z == x
<1>9. z \in Blocks /\ Applies(z) /\ ApplyAndStore(z)
  BY <1>1, <1>5
<1> HIDE DEF z, q, b
<1> QED
  BY <1>1, <1>7, <1>8, <1>9, ApplyKeeps

\* A block of the new branch does not apply.
LEMMA SwitchFailsStep ==
  ASSUME IInv, SwitchFails
  PROVE  IInv'
<1>1. /\ pc = "switch" /\ pc' = "unwind" /\ undo' = KeepLast(undo, undoMax)
      /\ forkIndex' \subseteq forkIndex /\ forkHead' = Last(push.old)
      /\ UNCHANGED <<chain, lib, undoMax, session, recording, linked, forkMax, pending, popped, log, unsynced, disk, push, crashes>>
  BY DEF SwitchFails, ThrowInSession, diskVars, boundVars, txVars
<1>11. recording
  BY <1>1, Recording
<1>2. ChainOK /\ undoMax \in Int /\ undo \in Seq(Versions)
  BY DEF IInv, TypesOK, ChainOK
<1>10. Latest(undo', undo)
  BY <1>1, <1>2, KeptLatest
<1>3. ChainOK' /\ Len(undo') <= Len(undo)
  BY <1>1, <1>2, <1>10, DropStep
<1>4. PICK m \in 1..MaxNum, f \in Blocks, s \in Blocks : Forked(m, f, s)
  BY <1>1 DEF IInv, ForkOK, Switching
<1>5. Last(push.old) \in Blocks
  BY <1>4, BranchAt DEF Forked
<1>6. Forked(m, f, s)'
  BY <1>1, <1>4 DEF Forked, Branch, Num, On
<1>7. ForkOK'
  BY <1>6 DEF ForkOK
<1>8. TypesOK' /\ PushOK'
  BY <1>1, <1>5 DEF IInv, TypesOK, PushOK, Steps, Switching
<1>9. KnownOK'
  BY <1>1, StillKnown DEF Switching
<1> QED
  BY <1>1, <1>11, <1>3, <1>7, <1>8, <1>9, QuietStep

\* The end of either branch is reached.
LEMMA SwitchedStep ==
  ASSUME IInv, Switched \/ Reapplied
  PROVE  IInv'
<1>1. /\ pc \in {"switch", "reapply"} /\ (Finish(TRUE) \/ Finish(FALSE))
      /\ UNCHANGED <<chain, lib, undo, undoMax, session, recording, forkIndex, forkHead, linked, forkMax, pending, popped, log, unsynced, disk, crashes>>
  BY DEF Switched, Reapplied, diskVars, boundVars, chainVars, forkVars, txVars
<1>2. PICK r \in BOOLEAN : Finish(r)
  BY <1>1
<1>3. forkIndex' \subseteq Blocks /\ forkHead' \in Blocks \cup {None} /\ pc \in Switching \cup {"extend"}
  BY <1>1 DEF IInv, TypesOK, Switching
<1> QED
  BY <1>1, <1>2, <1>3, FinishKeeps

\* fork_database::push_block keeps blocks, and one of them as its head.
LEMMA ForkPushType ==
  ASSUME IInv, NEW b \in Blocks, ForkPush(b)
  PROVE  forkHead' \in Blocks /\ forkIndex' \subseteq Blocks /\ linked' \subseteq Blocks
<1>1. forkIndex \subseteq Blocks /\ linked \subseteq Blocks /\ forkHead \in Blocks \cup {None}
  BY DEF IInv, TypesOK
<1>2. linked' \subseteq Blocks
  BY <1>1 DEF ForkPush
<1>3. CASE forkHead = None \/ Num(b) > Num(forkHead)
  <2>1. /\ forkHead' = b
        /\ forkIndex' = forkIndex \cup {b} \/ forkIndex' = Erase(forkIndex \cup {b}, Floor(Num(b), forkMax))
    BY <1>3 DEF ForkPush
  <2>2. forkIndex' \subseteq forkIndex \cup {b}
    BY <2>1 DEF Erase
  <2> QED
    BY <1>1, <1>2, <2>1, <2>2
<1>4. CASE ~(forkHead = None \/ Num(b) > Num(forkHead))
  BY <1>1, <1>2, <1>4 DEF ForkPush
<1> QED
  BY <1>3, <1>4

\* push_block begins: the pending transactions are set aside, nothing is lost.
LEMMA BeginPushStep ==
  ASSUME IInv, recording, pc = "idle" \/ (pc = "reindex" /\ push.todo # << >>), NEW b \in Blocks, BeginPush(b)
  PROVE  IInv'
<1> DEFINE begun == [push EXCEPT !.block = b, !.saved = pending,
                                 !.before = chain, !.irreversible = lib,
                                 !.known = Included(chain) \cup Range(pending)]
<1>1. /\ pending' = << >> /\ session' = FALSE
      /\ UNCHANGED <<chain, lib, undo, undoMax, recording, forkMax, popped, log, unsynced, disk, crashes>>
  BY DEF BeginPush, diskVars, boundVars
<1>2. Path(chain) /\ chain \in Seq(Blocks) /\ lib \in Nat /\ pending \in Seq(Transactions)
  BY DEF IInv, ChainOK, Path, TypesOK
<1>3. Included(chain) \cup Range(pending) \in SUBSET Transactions
  <2>1. Range(pending) \subseteq Transactions
    BY <1>2 DEF Range
  <2> QED
    BY <1>2, <2>1, IncludedType
<1>4. push \in PushRecords /\ (push.last # 0 => push.todo # << >>)
  BY DEF IInv, PushOK, Switching
<1>5. /\ begun.todo = push.todo /\ begun \in PushRecords /\ begun.block = b /\ begun.last = push.last /\ begun.gap = push.gap
      /\ begun.saved = pending /\ begun.known = Included(chain) \cup Range(pending)
  BY <1>2, <1>3, <1>4 DEF PushRecords
<1>6. \/ /\ UNCHANGED <<forkIndex, forkHead, linked>> /\ pc' = "restore"
         /\ push' = [begun EXCEPT !.failed = TRUE]
      \/ /\ ForkPush(b)
         /\ \/ pc' \in {"extend", "restore"} /\ push' = begun
            \/ pc' = "restore" /\ push' = [begun EXCEPT !.failed = TRUE]
            \/ /\ CanFetch(forkHead', Head_, forkIndex', linked') /\ pc' = "pop"
               /\ push' = [begun EXCEPT !.new = Branches(forkHead', Head_).new, !.old = Branches(forkHead', Head_).old]
  BY DEF BeginPush
<1> HIDE DEF begun
<1>7. forkHead' \in Blocks \cup {None} /\ forkIndex' \subseteq Blocks /\ linked' \subseteq Blocks
  BY <1>6, ForkPushType DEF IInv, TypesOK
<1>8. pc' \in {"restore", "extend", "pop"}
  BY <1>6
<1>9. TypesOK'
  <2>1. pc' \in Steps
    BY <1>8 DEF Steps
  <2>2. pending' \in Seq(Transactions)
    BY <1>1
  <2>3. session' \in BOOLEAN
    BY <1>1
  <2> QED
    BY <1>1, <1>7, <2>1, <2>2, <2>3 DEF IInv, TypesOK
<1>10. ASSUME pc' # "pop"
       PROVE  /\ PushOK' /\ ForkOK' /\ push'.last = push.last /\ push'.gap = push.gap
              /\ push'.saved = pending /\ push'.known = Included(chain) \cup Range(pending)
  <2>1. (pc' \in {"extend", "restore"} /\ push' = begun) \/ (pc' = "restore" /\ push' = [begun EXCEPT !.failed = TRUE])
    BY <1>6, <1>10
  <2>2. push' \in PushRecords /\ push'.block = b /\ push'.last = push.last /\ push'.gap = push.gap /\ push'.todo = push.todo
        /\ push'.saved = pending /\ push'.known = Included(chain) \cup Range(pending)
    BY <1>5, <2>1 DEF PushRecords
  <2>3. pc' \notin Switching
    BY <2>1 DEF Switching
  <2> QED
    BY <1>4, <2>1, <2>2, <2>3 DEF PushOK, ForkOK
<1>11. ASSUME pc' = "pop"
       PROVE  /\ PushOK' /\ ForkOK' /\ push'.last = push.last /\ push'.gap = push.gap
              /\ push'.saved = pending /\ push'.known = Included(chain) \cup Range(pending)
  <2>10. PICK f, s : f = forkHead' /\ s = Head_
    OBVIOUS
  <2> DEFINE new == Branches(f, s).new
             old == Branches(f, s).old
  <2>1. ForkPush(b) /\ CanFetch(f, s, forkIndex', linked') /\ push' = [begun EXCEPT !.new = new, !.old = old]
    BY <1>6, <1>11, <2>10
  <2>2. f \in Blocks /\ s \in Blocks
    BY <1>7, <2>1, <2>10, ForkPushType DEF CanFetch
  <2>3. chain = Lineage[s] /\ Num(s) = Len(chain) /\ Len(chain) \in Nat
    <3>1. chain # << >>
      BY <2>2, <2>10, BlockTreeAssumption DEF Head_, HeadOf
    <3> QED
      BY <1>2, <2>10, <3>1, PathIsLineage DEF Head_
  <2>4. PICK m \in 1..MaxNum : Branch(m, new, f) /\ Branch(m, old, s) /\ Parent[Lineage[f][m]] = Parent[Lineage[s][m]]
    BY <2>2, BranchesOK
  <2> HIDE DEF new, old
  <2>5. new \in Seq(Blocks) /\ old \in Seq(Blocks) /\ m \in 1..Num(s)
    BY <2>2, <2>4, BranchAt
  <2>6. /\ push' \in PushRecords /\ push'.new = new /\ push'.old = old
        /\ push'.last = push.last /\ push'.gap = push.gap /\ push'.todo = push.todo
        /\ push'.saved = pending /\ push'.known = Included(chain) \cup Range(pending)
    BY <1>5, <2>1, <2>5 DEF PushRecords
  <2>7. m - 1 <= Len(chain) /\ On(chain, s)
    BY <2>3, <2>5 DEF On
  <2>8. Forked(m, f, s)'
    <3>1. On(chain', IF pc' \in {"pop", "reapply"} THEN s ELSE f) /\ m - 1 <= Len(chain')
      BY <1>1, <1>11, <2>7
    <3>2. Branch(m, push'.new, f) /\ Branch(m, push'.old, s)
      BY <2>4, <2>6
    <3> QED
      BY <2>4, <3>1, <3>2 DEF Forked, Branch, On, Num
  <2>9. ForkOK'
    BY <2>2, <2>4, <2>8 DEF ForkOK
  <2> QED
    BY <1>4, <1>11, <2>6, <2>9 DEF PushOK, Switching
<1>12. /\ PushOK' /\ ForkOK' /\ push'.last = push.last /\ push'.gap = push.gap
       /\ push'.saved = pending /\ push'.known = Included(chain) \cup Range(pending)
  BY <1>10, <1>11
<1>13. KnownOK'
  BY <1>1, <1>12 DEF KnownOK, Included
<1>14. ChainOK' /\ Len(undo') <= Len(undo)
  BY <1>1, SameChain
<1>15. pc # "closed" /\ pc' # "closed"
  BY <1>8
<1> QED
  BY <1>1, <1>9, <1>12, <1>13, <1>14, <1>15, QuietStep

\* push_block, called by the node or by reindex.
LEMMA PushBlockStep ==
  ASSUME IInv, (\E b \in Blocks : PushBlock(b)) \/ ReindexPush
  PROVE  IInv'
<1>1. CASE \E b \in Blocks : PushBlock(b)
  <2>1. PICK b \in Blocks : PushBlock(b)
    BY <1>1
  <2>2. pc = "idle" /\ BeginPush(b)
    BY <2>1 DEF PushBlock
  <2>3. recording
    BY <2>2, Recording
  <2> QED
    BY <2>2, <2>3, BeginPushStep
<1>2. CASE ReindexPush
  <2>1. pc = "reindex" /\ recording /\ push.todo # << >> /\ BeginPush(push.todo[1])
    BY <1>2 DEF ReindexPush
  <2>2. push.todo[1] \in Blocks
    <3>1. push.todo \in Seq(Blocks)
      BY PushType DEF IInv
    <3> QED
      BY <2>1, <3>1
  <2> QED
    BY <2>1, <2>2, BeginPushStep
<1> QED
  BY <1>1, <1>2

-----------------------------------------------------------------------------
(* Transactions.                                                           *)

\* A transaction is pushed: it is pending when it applies.
LEMMA PushTransactionStep ==
  ASSUME IInv, NEW t \in Transactions, PushTransaction(t)
  PROVE  IInv'
<1>1. /\ pc = "idle" /\ pending' = Repushed(pending, <<t>>) /\ undo' = AfterTxSessions(undo) /\ session' = TRUE
      /\ UNCHANGED <<chain, lib, undoMax, recording, forkIndex, forkHead, linked, forkMax, popped, log, unsynced, disk, pc, push, crashes>>
  BY DEF PushTransaction, forkVars, diskVars, boundVars
<1>2. recording
  BY <1>1, Recording
<1>3. ChainOK /\ undo \in Seq(Versions) /\ undoMax \in Int /\ undoMax - 1 \in Int
  BY DEF IInv, TypesOK, ChainOK
<1>4. Latest(undo', undo)
  <2> DEFINE u == IF session THEN undo ELSE KeepLast(undo, undoMax)
  <2>1. Latest(u, undo)
    BY <1>3, KeptLatest
  <2>2. u \in Seq(Versions)
    BY <2>1 DEF Latest
  <2>3. undo' = KeepLast(u, undoMax - 1)
    BY <1>1 DEF AfterTxSessions
  <2> HIDE DEF u
  <2>4. Latest(undo', u)
    BY <1>3, <2>2, <2>3, KeptLatest
  <2> QED
    BY <1>3, <2>1, <2>4, LatestTwice
<1>5. ChainOK' /\ Len(undo') <= Len(undo)
  BY <1>1, <1>3, <1>4, DropStep
<1>6. pending' \in Seq(Transactions)
  <2>1. pending \in Seq(Transactions) /\ <<t>> \in Seq(Transactions)
    BY DEF IInv, TypesOK
  <2> DEFINE q == <<t>>
  <2> HIDE DEF q
  <2>2. Repushed(pending, q) \in Seq(Transactions)
    BY <2>1, RepushedKeeps DEF q
  <2> QED
    BY <1>1, <2>2 DEF q
<1>7. session' \in BOOLEAN
  BY <1>1
<1>8. TypesOK'
  BY <1>1, <1>6, <1>7 DEF IInv, TypesOK
<1>9. PushOK' /\ ForkOK' /\ KnownOK'
  BY <1>1 DEF IInv, PushOK, ForkOK, KnownOK, Switching
<1>10. pc # "closed" /\ pc' # "closed" /\ push'.last = push.last /\ (push'.gap => push.gap)
  BY <1>1
<1> QED
  BY <1>1, <1>2, <1>5, <1>8, <1>9, <1>10, QuietStep

\* The queue that is pushed again when push_block is over.
LEMMA QueueType ==
  ASSUME IInv
  PROVE  /\ popped \o push.saved \in Seq(Transactions)
         /\ Range(popped \o push.saved) = Range(popped) \cup Range(push.saved)
<1> DEFINE r == push.saved
<1>1. popped \in Seq(Transactions) /\ r \in Seq(Transactions)
  BY PushType DEF IInv, TypesOK
<1> HIDE DEF r
<1>2. popped \o r \in Seq(Transactions) /\ Range(popped \o r) = Range(popped) \cup Range(r)
  BY <1>1, RangeConcat
<1> QED
  BY <1>2 DEF r

\* push_block is over.
LEMMA RestoreStep ==
  ASSUME IInv, Restore
  PROVE  IInv'
<1> DEFINE q == popped \o push.saved
           unknown == SelectSeq(q, LAMBDA t : t \notin Included(chain))
<1>1. /\ pc = "restore" /\ pending' = Repushed(<< >>, q) /\ popped' = << >>
      /\ session' = (unknown # << >>)
      /\ undo' = undo \/ undo' = KeepLast(KeepLast(undo, undoMax), undoMax - 1)
      /\ linked' \subseteq linked
      /\ pc' = IF push.last = 0 THEN "idle" ELSE IF push.failed THEN "dead" ELSE "reindex"
      /\ push' = IF push.last = 0 THEN NoPush
                 ELSE [NoPush EXCEPT !.last = push.last, !.todo = Tail(push.todo), !.gap = push.gap]
      /\ UNCHANGED <<chain, lib, undoMax, recording, forkIndex, forkHead, forkMax, log, unsynced, disk, crashes>>
  BY DEF Restore, RestoreQueue, diskVars, boundVars
<1>2. recording
  BY <1>1, Recording
<1>3. ChainOK /\ undo \in Seq(Versions) /\ undoMax \in Int /\ undoMax - 1 \in Int
  BY DEF IInv, TypesOK, ChainOK
<1>4. Latest(undo', undo)
  <2> DEFINE u == KeepLast(undo, undoMax)
  <2>1. Latest(u, undo) /\ Latest(undo, undo)
    BY <1>3, KeptLatest
  <2>2. u \in Seq(Versions)
    BY <2>1 DEF Latest
  <2> DEFINE w == KeepLast(u, undoMax - 1)
  <2>3. undo' = undo \/ undo' = w
    BY <1>1
  <2> HIDE DEF u
  <2>4. Latest(w, u)
    BY <1>3, <2>2, KeptLatest
  <2> HIDE DEF w
  <2>5. Latest(w, undo)
    BY <1>3, <2>1, <2>4, LatestTwice
  <2> QED
    BY <2>1, <2>3, <2>5
<1>5. ChainOK' /\ Len(undo') <= Len(undo)
  BY <1>1, <1>3, <1>4, DropStep
<1>6. pending' \in Seq(Transactions) /\ popped' \in Seq(Transactions)
  <2>1. << >> \in Seq(Transactions) /\ q \in Seq(Transactions)
    BY QueueType
  <2> HIDE DEF q
  <2> QED
    BY <1>1, <2>1, RepushedKeeps
<1>7. session' \in BOOLEAN
  <2> HIDE DEF unknown
  <2> QED
    BY <1>1
<1>8. pc' \in {"idle", "dead", "reindex"}
  BY <1>1
<1>9. TypesOK'
  <2>1. pc' \in Steps
    BY <1>8 DEF Steps
  <2>2. linked' \subseteq Blocks
    BY <1>1 DEF IInv, TypesOK
  <2> HIDE DEF q, unknown
  <2> QED
    BY <1>1, <1>6, <1>7, <2>1, <2>2 DEF IInv, TypesOK
<1>10. PushOK' /\ (push'.last = push.last \/ push'.last = 0) /\ (push'.gap => push.gap)
  <2>1. CASE push.last = 0
    <3>1. push' = NoPush
      BY <1>1, <2>1
    <3> QED
      BY <1>8, <3>1, NoPushType DEF PushOK
  <2>2. CASE push.last # 0
    <3> DEFINE todo == Tail(push.todo)
    <3>1. push.todo # << >> /\ push.todo \in Seq(Blocks) /\ push.last \in Nat /\ push.gap \in BOOLEAN
      BY <1>1, <2>2, PushType DEF IInv, PushOK
    <3>2. todo \in Seq(Blocks)
      BY <3>1
    <3>3. push' = [NoPush EXCEPT !.last = push.last, !.todo = todo, !.gap = push.gap] /\ pc' \in {"dead", "reindex"}
      BY <1>1, <2>2
    <3> HIDE DEF todo
    <3>4. push' \in PushRecords /\ push'.last = push.last /\ push'.gap = push.gap
      BY <3>1, <3>2, <3>3, NoPushType DEF PushRecords
    <3> QED
      BY <3>3, <3>4 DEF PushOK
  <2> QED
    BY <2>1, <2>2
<1>11. ForkOK' /\ KnownOK'
  BY <1>8 DEF ForkOK, KnownOK, Switching
<1>12. pc # "closed" /\ pc' # "closed"
  BY <1>1, <1>8
<1> QED
  BY <1>1, <1>2, <1>5, <1>9, <1>10, <1>11, <1>12, QuietStep

-----------------------------------------------------------------------------
(* Shutdown and crash.                                                     *)

\* close() begins, or has rewound enough.
LEMMA CloseStep ==
  ASSUME IInv, Close \/ CloseRewound
  PROVE  IInv'
<1>1. /\ pc \in {"idle", "closing"} /\ pc' \in {"closing", "flush"}
      /\ UNCHANGED <<chain, lib, undo, undoMax, recording, forkIndex, forkHead, linked, forkMax, popped, log, unsynced, disk, crashes>>
      /\ (pending' = << >> /\ session' = FALSE) \/ UNCHANGED <<pending, session>>
      /\ (push' = [NoPush EXCEPT !.cutoff = lib]) \/ (push' = push)
  BY DEF Close, CloseAt, CloseRewound, forkVars, diskVars, boundVars, chainVars, txVars
<1>2. recording
  BY <1>1, Recording
<1>3. ChainOK' /\ Len(undo') <= Len(undo)
  BY <1>1, SameChain
<1>4. pending' \in Seq(Transactions)
  <2>1. pending' = << >> \/ pending' = pending
    BY <1>1
  <2>2. pending \in Seq(Transactions) /\ << >> \in Seq(Transactions)
    BY DEF IInv, TypesOK
  <2> QED
    BY <2>1, <2>2
<1>5. session' \in BOOLEAN
  BY <1>1 DEF IInv, TypesOK
<1>6. pc' \in Steps /\ pc' # "extend" /\ pc' \notin Switching \cup {"extend", "restore"}
  BY <1>1 DEF Steps, Switching
<1>7. TypesOK'
  BY <1>1, <1>4, <1>5, <1>6 DEF IInv, TypesOK
<1>8. lib \in Nat
  BY DEF IInv, ChainOK
<1>9. push'.last = 0 /\ push' \in PushRecords /\ (push'.gap => push.gap)
  <2>1. CASE push' = [NoPush EXCEPT !.cutoff = lib]
    BY <1>8, <2>1, NoPushType
  <2>2. CASE push' = push
    BY <1>1, <2>2 DEF IInv, PushOK, Switching
  <2> QED
    BY <1>1, <2>1, <2>2
<1>10. PushOK' /\ ForkOK' /\ KnownOK'
  BY <1>6, <1>9 DEF PushOK, ForkOK, KnownOK
<1>11. pc # "closed" /\ pc' # "closed"
  BY <1>1
<1> QED
  BY <1>1, <1>2, <1>3, <1>7, <1>9, <1>10, <1>11, QuietStep

\* close() pops a block, or cannot.
LEMMA CloseRewindStep ==
  ASSUME IInv, CloseRewind
  PROVE  IInv'
<1>1. /\ pc = "closing"
      /\ UNCHANGED <<undoMax, session, recording, linked, forkMax, pending, log, unsynced, disk, crashes>>
  BY DEF CloseRewind, diskVars, boundVars
<1>2. recording
  BY <1>1, Recording
<1>3. forkIndex \in SUBSET Blocks /\ PopOutcome.head \in Blocks \cup {None} /\ ChainOK
  BY ForkHeads DEF IInv, TypesOK
<1>4. CASE PopOutcome.ok
  <2>1. /\ PopVersion /\ UNCHANGED <<pc, push>>
        /\ forkIndex' = ForkRemove(Head_, forkIndex, PopOutcome.head).index
        /\ forkHead' = ForkRemove(Head_, forkIndex, PopOutcome.head).head
    BY <1>4 DEF CloseRewind
  <2>2. Head_ \in Blocks
    BY <1>3, <1>4, <2>1, ForkHeads, PopStep
  <2>3. forkIndex' \subseteq Blocks /\ forkHead' \in Blocks \cup {None}
    BY <1>3, <2>1, <2>2, ForkHeads
  <2>4. ForkOK'
    BY <1>1, <2>1 DEF ForkOK, Switching
  <2> QED
    BY <1>1, <1>4, <2>1, <2>3, <2>4, PopKeeps
<1>5. CASE ~PopOutcome.ok
  <2>1. forkHead' = PopOutcome.head /\ pc' = "flush" /\ UNCHANGED <<chain, lib, undo, popped, forkIndex, push>>
    BY <1>5 DEF CloseRewind
  <2>2. ChainOK' /\ Len(undo') <= Len(undo)
    BY <2>1, SameChain
  <2>3. TypesOK'
    BY <1>1, <1>3, <2>1 DEF IInv, TypesOK, Steps
  <2>4. PushOK' /\ ForkOK' /\ KnownOK'
    BY <1>1, <2>1 DEF IInv, PushOK, ForkOK, KnownOK, Switching
  <2>5. pc # "closed" /\ pc' # "closed" /\ push'.last = push.last /\ (push'.gap => push.gap)
    BY <1>1, <2>1
  <2> QED
    BY <1>1, <1>2, <2>1, <2>2, <2>3, <2>4, <2>5, QuietStep
<1> QED
  BY <1>4, <1>5

\* A process that is gone leaves what is on disk.
LEMMA StoppedKeeps ==
  ASSUME IInv, Stopped, log' \in [1..MaxNum -> Blocks \cup {None}], unsynced' = None \/ unsynced' = unsynced,
         disk' \in {disk, Version, GenesisVersion}, crashes' \in Nat,
         crashes' = 0 => crashes = 0 /\ log' = log
  PROVE  IInv'
<1>1. /\ chain' = << >> /\ lib' = 0 /\ undo' = << >>
      /\ undoMax' = MinUndoHistory /\ session' = FALSE /\ recording' = TRUE
      /\ forkIndex' = {} /\ forkHead' = None /\ linked' = {} /\ forkMax' = MaxForkSize
      /\ pending' = << >> /\ popped' = << >>
      /\ push' = NoPush /\ pc' = "closed"
  BY DEF Stopped
<1>2. << >> \in Seq(Blocks) /\ << >> \in Seq(Versions) /\ << >> \in Seq(Transactions) /\ Len(<< >>) = 0
  OBVIOUS
<1>3. Path(<< >>)
  BY <1>2 DEF Path
<1>4. ChainOK'
  BY <1>1, <1>2, <1>3 DEF ChainOK, Path
<1>5. disk' \in Versions /\ Path(disk'.chain) /\ disk'.lib <= Len(disk'.chain)
  <2>1. disk \in Versions /\ Path(disk.chain) /\ disk.lib <= Len(disk.chain)
    BY DEF IInv, TypesOK
  <2>2. Version \in Versions /\ Version.chain = chain /\ Version.lib = lib /\ Path(chain) /\ lib <= Len(chain)
    BY DEF Version, Versions, IInv, ChainOK, Path
  <2>3. GenesisVersion \in Versions /\ GenesisVersion.chain = << >> /\ GenesisVersion.lib = 0 /\ 0 <= 0
    BY <1>2 DEF GenesisVersion, Versions
  <2> QED
    BY <1>2, <1>3, <2>1, <2>2, <2>3
<1>6. undoMax' \in Nat /\ forkMax' \in Nat
  BY <1>1, HistoryAssumption
<1>7. session' \in BOOLEAN /\ recording' \in BOOLEAN
  BY <1>1
<1>8. TypesOK'
  <2>1. pc' \in Steps
    BY <1>1 DEF Steps
  <2>2. unsynced' # None => unsynced'.old \in Blocks \cup {None}
    BY DEF IInv, TypesOK
  <2> QED
    BY <1>1, <1>2, <1>5, <1>6, <1>7, <2>1, <2>2 DEF TypesOK, Path
<1>9. PushOK' /\ ForkOK' /\ KnownOK'
  BY <1>1, NoPushType DEF PushOK, ForkOK, KnownOK, Switching
<1>10. StartOK'
  BY <1>1, NoPushType DEF StartOK
<1>11. LogOK'
  <2>1. SUFFICES ASSUME crashes' = 0 PROVE LogOK'
    BY DEF LogOK
  <2>2. /\ Holds(chain) /\ Holds(disk.chain) /\ log' = log
        /\ \A n \in 1..MaxNum : log[n] # None => \A m \in 1..n : log[m] # None
    BY <2>1 DEF IInv, LogOK
  <2>3. \A n \in 1..Len(<< >>) : FALSE
    BY <1>2
  <2>4. Version.chain = chain /\ GenesisVersion.chain = << >>
    BY DEF Version, GenesisVersion
  <2>5. Holds(disk.chain)' /\ Holds(chain)'
    BY <1>1, <2>2, <2>3, <2>4 DEF Holds
  <2>6. ~push'.gap /\ pc' # "reindex"
    BY <1>1, NoPushType
  <2> QED
    BY <2>2, <2>5, <2>6 DEF LogOK
<1> QED
  BY <1>4, <1>8, <1>9, <1>10, <1>11 DEF IInv

\* Every end of a process.
LEMMA StopStep ==
  ASSUME IInv, CloseFlush \/ Crash \/ ForceReplay
  PROVE  IInv'
<1>1. log \in [1..MaxNum -> Blocks \cup {None}] /\ crashes \in Nat /\ (unsynced # None => unsynced.old \in Blocks \cup {None})
  BY DEF IInv, TypesOK
<1>2. CASE CloseFlush
  <2>1. disk' = Version /\ log' = log /\ unsynced' = None /\ Stopped /\ crashes' = crashes
    BY <1>2 DEF CloseFlush, boundVars
  <2> QED
    BY <1>1, <2>1, StoppedKeeps
<1>3. CASE Crash
  <2>1. /\ crashes' = crashes + 1 /\ unsynced' = None /\ Stopped /\ disk' \in {disk, Version, GenesisVersion}
        /\ \/ log' = log
           \/ unsynced # None /\ \E lost \in {unsynced.old, None} : log' = [log EXCEPT ![unsynced.num] = lost]
    BY <1>3 DEF Crash
  <2>2. log' \in [1..MaxNum -> Blocks \cup {None}]
    BY <1>1, <2>1
  <2>3. crashes' \in Nat /\ crashes' # 0
    BY <1>1, <2>1
  <2> QED
    BY <2>1, <2>2, <2>3, StoppedKeeps
<1>4. CASE ForceReplay
  <2>1. disk' = GenesisVersion /\ log' = log /\ unsynced' = unsynced /\ Stopped /\ crashes' = crashes
    BY <1>4 DEF ForceReplay, boundVars
  <2> QED
    BY <1>1, <2>1, StoppedKeeps
<1> QED
  BY <1>2, <1>3, <1>4

-----------------------------------------------------------------------------
(* Start and replay.                                                       *)

\* block_database::last().
LEMMA LastStoredType ==
  /\ LastStored \in Nat /\ LastStored <= MaxNum
  /\ LastStored # 0 => LastStored \in 1..MaxNum /\ log[LastStored] # None
  /\ \A m \in 1..MaxNum : log[m] # None => m <= LastStored
<1>1. MaxNum \in Nat
  BY Numbers
<1>2. Stored \subseteq 1..MaxNum /\ Stored \subseteq Nat /\ \A n \in 1..MaxNum : n \in Stored <=> log[n] # None
  BY <1>1 DEF Stored
<1>3. IsFiniteSet(Stored)
  <2>1. IsFiniteSet(1..MaxNum)
    BY <1>1, FS_Interval
  <2> QED
    BY <1>2, <2>1, FS_Subset
<1>4. CASE Stored = {}
  <2>1. LastStored = 0
    BY <1>4 DEF LastStored
  <2> QED
    BY <1>1, <1>2, <1>4, <2>1
<1>5. CASE Stored # {}
  <2> DEFINE S == Stored
  <2> HIDE DEF S
  <2>1. \E n \in S : \A m \in S : m <= n
    BY <1>2, <1>3, <1>5, GreatestNumber DEF S
  <2>2. LastStored = CHOOSE n \in S : \A m \in S : m <= n
    BY <1>5 DEF LastStored, S
  <2>3. LastStored \in S /\ \A m \in S : m <= LastStored
    BY <2>1, <2>2
  <2>4. LastStored \in Stored /\ \A m \in Stored : m <= LastStored
    BY <2>3 DEF S
  <2>5. LastStored \in Nat /\ LastStored <= MaxNum /\ LastStored \in 1..MaxNum
    <3> DEFINE l == LastStored
    <3>1. l \in 1..MaxNum
      BY <1>2, <2>4
    <3> HIDE DEF l
    <3>2. l \in Nat /\ l <= MaxNum
      BY <1>1, <3>1
    <3> QED
      BY <3>1, <3>2 DEF l
  <2> QED
    BY <1>2, <2>4, <2>5
<1> QED
  BY <1>4, <1>5

\* What reindex reads: stored blocks, in order, and all of them when there is no gap.
LEMMA ReadFromType ==
  ASSUME log \in [1..MaxNum -> Blocks \cup {None}], NEW n \in Nat \ {0}, n <= LastStored
  PROVE  /\ ReadFrom(n) \in Seq(Blocks) /\ Len(ReadFrom(n)) \in Nat
         /\ \A i \in 1..Len(ReadFrom(n)) : ReadFrom(n)[i] = log[n + i - 1]
         /\ (\A m \in 1..LastStored : log[m] # None) => Len(ReadFrom(n)) = LastStored - n + 1
<1> DEFINE l == LastStored
           E == {m \in n..(l + 1) : m > l \/ log[m] = None}
<1>1. l \in Nat /\ l <= MaxNum /\ MaxNum \in Nat /\ n <= l
  BY LastStoredType, Numbers
<1>2. ReadFrom(n) = LET end == CHOOSE m \in n..(l + 1) : (m > l \/ log[m] = None) /\ \A k \in n..(m - 1) : log[k] # None
                    IN  SubSeq(log, n, end - 1)
  BY DEF ReadFrom
<1> HIDE DEF l
<1>3. \E m \in n..(l + 1) : (m > l \/ log[m] = None) /\ \A k \in n..(m - 1) : log[k] # None
  <2>1. E \subseteq Nat /\ l + 1 \in E
    BY <1>1
  <2>2. PICK m \in E : \A y \in E : m <= y
    <3> HIDE DEF E
    <3> QED
      BY <2>1, LeastNumber
  <2>3. ASSUME NEW k \in n..(m - 1) PROVE log[k] # None
    <3>1. k \in n..(l + 1) /\ k < m
      BY <1>1, <2>1, <2>2
    <3>2. k \notin E
      BY <1>1, <2>1, <2>2, <3>1
    <3> QED
      BY <3>1, <3>2
  <2> QED
    BY <2>2, <2>3
<1> DEFINE end == CHOOSE m \in n..(l + 1) : (m > l \/ log[m] = None) /\ \A k \in n..(m - 1) : log[k] # None
<1>4. end \in n..(l + 1) /\ (end > l \/ log[end] = None) /\ \A k \in n..(end - 1) : log[k] # None
  BY <1>3
<1>5. ReadFrom(n) = SubSeq(log, n, end - 1)
  BY <1>2
<1> HIDE DEF end
<1> DEFINE e == end - 1
           q == SubSeq(log, n, e)
<1>6. e \in Nat /\ e <= MaxNum /\ n <= e + 1 /\ e <= l
  BY <1>1, <1>4
<1>7. log \in Seq(Blocks \cup {None}) /\ Len(log) = MaxNum
  BY <1>1
<1> HIDE DEF e
<1>8. q \in Seq(Blocks \cup {None}) /\ Len(q) = e - n + 1 /\ \A i \in 1..(e - n + 1) : q[i] = log[n + i - 1]
  BY <1>6, <1>7, PartOf
<1>9. ASSUME NEW i \in 1..(e - n + 1) PROVE q[i] \in Blocks
  <2>3. n + i - 1 \in n..e /\ n + i - 1 \in 1..MaxNum
    BY <1>1, <1>6
  <2>1. n + i - 1 \in n..(end - 1) /\ n + i - 1 \in 1..MaxNum
    BY <2>3 DEF e
  <2>2. log[n + i - 1] # None /\ log[n + i - 1] \in Blocks \cup {None}
    BY <1>4, <2>1
  <2> QED
    BY <1>8, <2>2
<1> HIDE DEF q
<1>10. q \in Seq(Blocks)
  BY <1>8, <1>9
<1>11. ASSUME \A m \in 1..l : log[m] # None PROVE Len(q) = l - n + 1
  <2>1. end > l
    BY <1>1, <1>4, <1>11
  <2>2. e = l
    BY <1>1, <1>4, <2>1 DEF e
  <2> QED
    BY <1>8, <2>2
<1>12. ReadFrom(n) = q
  BY <1>5 DEF q, e
<1>13. Len(q) \in Nat
  BY <1>10
<1> QED
  BY <1>8, <1>10, <1>11, <1>12, <1>13 DEF l

\* A start: the object database is loaded, and what the block log has more is read.
LEMMA OpenStep ==
  ASSUME IInv, Open
  PROVE  IInv'
<1> DEFINE last == LastStored
           head == Len(disk.chain)
           todo == ReadFrom(head + 1)
<1>1. /\ pc = "closed" /\ chain' = disk.chain /\ lib' = disk.lib
      /\ pc' \in (IF last = 0 THEN {"idle"} ELSE IF last < head THEN {"dead"} ELSE IF last > head THEN {"reindex"}
                 ELSE IF log[last] = Last(disk.chain) THEN {"idle"} ELSE {"idle", "dead"})
      /\ push' = IF last <= head THEN NoPush
                 ELSE [NoPush EXCEPT !.last = last, !.todo = todo, !.gap = (Len(todo) < last - head)]
      /\ recording' = (last <= head \/ head >= UndoPoint(last))
      /\ forkHead' = IF last > head /\ recording' /\ head > 0 THEN log[head] ELSE None
      /\ forkIndex' = IF forkHead' = None THEN {} ELSE {forkHead'}
      /\ UNCHANGED <<undo, undoMax, session, linked, forkMax, pending, popped, log, unsynced, disk, crashes>>
  BY DEF Open, txVars, diskVars
<1>2. /\ undo = << >> /\ undo' = << >> /\ Path(disk.chain) /\ disk.lib <= Len(disk.chain) /\ disk \in Versions
      /\ log \in [1..MaxNum -> Blocks \cup {None}]
  BY <1>1 DEF IInv, StartOK, TypesOK
<1>3. head \in Nat /\ disk.lib \in Nat
  BY <1>2 DEF Path, Versions
<1>4. /\ last \in Nat /\ last <= MaxNum /\ MaxNum \in Nat
      /\ \A m \in 1..MaxNum : log[m] # None => m <= last
      /\ last # 0 => last \in 1..MaxNum /\ log[last] # None
  BY LastStoredType, Numbers
<1>5. ASSUME last > head
      PROVE  /\ todo \in Seq(Blocks) /\ Len(todo) \in Nat
             /\ \A i \in 1..Len(todo) : todo[i] = log[head + i]
             /\ (\A m \in 1..last : log[m] # None) => Len(todo) = last - head
  <2> DEFINE n == head + 1
  <2>1. n \in Nat \ {0} /\ n <= last
    BY <1>3, <1>4, <1>5
  <2>2. \A i \in Nat : n + i - 1 = head + i
    BY <1>3
  <2>3. last - n + 1 = last - head
    BY <1>3, <1>4
  <2> HIDE DEF n
  <2>4. /\ ReadFrom(n) \in Seq(Blocks) /\ Len(ReadFrom(n)) \in Nat
        /\ \A i \in 1..Len(ReadFrom(n)) : ReadFrom(n)[i] = log[n + i - 1]
        /\ (\A m \in 1..last : log[m] # None) => Len(ReadFrom(n)) = last - n + 1
    BY <1>2, <2>1, ReadFromType
  <2>5. todo = ReadFrom(n)
    BY DEF n
  <2> HIDE DEF todo, last, head
  <2>6. \A i \in 1..Len(ReadFrom(n)) : i \in Nat
    BY <2>4
  <2> QED
    BY <2>2, <2>3, <2>4, <2>5, <2>6
<1> HIDE DEF last, todo, head
<1>16. pc' \in {"idle", "dead", "reindex"} /\ (last > head => pc' = "reindex")
  BY <1>1, <1>3, <1>4
<1>17. /\ recording' => last <= head \/ head >= UndoPoint(last)
       /\ ~recording' => ~(last <= head)
  BY <1>1
<1>6. ChainOK'
  BY <1>1, <1>2, <1>3 DEF ChainOK, head
<1>7. recording' \in BOOLEAN
  BY <1>1
<1>8. forkHead' \in Blocks \cup {None} /\ forkIndex' \subseteq Blocks
  <2>1. forkHead' \in Blocks \cup {None}
    <3>1. CASE last > head /\ recording' /\ head > 0
      <4>1. head \in 1..MaxNum
        BY <1>3, <1>4, <3>1
      <4> QED
        BY <1>1, <1>2, <3>1, <4>1
    <3>2. CASE ~(last > head /\ recording' /\ head > 0)
      BY <1>1, <3>2
    <3> QED
      BY <3>1, <3>2
  <2> QED
    BY <1>1, <2>1
<1>9. TypesOK'
  <2>1. pc' \in Steps
    BY <1>16 DEF Steps
  <2> QED
    BY <1>1, <1>7, <1>8, <2>1 DEF IInv, TypesOK
<1>10. ASSUME last > head
       PROVE  /\ push' \in PushRecords /\ push'.last = last /\ push'.todo = todo
              /\ push'.gap => Len(todo) < last - head
              /\ pc' = "reindex"
  <2> DEFINE g == (Len(todo) < last - head)
  <2>1. ~(last <= head) /\ last # 0
    BY <1>3, <1>4, <1>10
  <2>2. push' = [NoPush EXCEPT !.last = last, !.todo = todo, !.gap = g] /\ pc' = "reindex"
    BY <1>1, <1>10, <1>16, <2>1
  <2>3. g \in BOOLEAN
    OBVIOUS
  <2> HIDE DEF g
  <2>4. push' \in PushRecords /\ push'.last = last /\ push'.todo = todo /\ push'.gap = g
    BY <1>4, <1>5, <1>10, <2>2, <2>3, NoPushType DEF PushRecords
  <2> QED
    BY <2>2, <2>4 DEF g
<1>11. ASSUME ~(last > head) PROVE push' = NoPush
  BY <1>1, <1>3, <1>4, <1>11
<1>12. PushOK'
  BY <1>10, <1>11, <1>16, NoPushType DEF PushOK
<1>13. ForkOK' /\ KnownOK'
  BY <1>16 DEF ForkOK, KnownOK, Switching
<1>14. StartOK'
  <2>1. Len(undo') = 0 /\ Len(disk'.chain) = head /\ Len(chain') = head
    BY <1>1, <1>2 DEF head
  <2>2. Len(disk'.chain) <= Len(chain') - Len(undo')
    BY <1>3, <2>1
  <2>3. ASSUME recording', push'.last # 0 PROVE Len(disk'.chain) + 1 >= UndoPoint(push'.last)
    <3>1. last > head
      BY <1>11, <2>3, NoPushType
    <3>2. head >= UndoPoint(last)
      BY <1>3, <1>4, <1>17, <2>3, <3>1
    <3>3. UndoPoint(last) \in Int
      BY <1>4, HistoryAssumption DEF UndoPoint
    <3>4. Len(disk'.chain) + 1 >= UndoPoint(last)
      BY <1>3, <2>1, <3>2, <3>3
    <3> QED
      BY <1>10, <3>1, <3>4
  <2>4. ASSUME ~recording' PROVE pc' = "reindex"
    <3>1. last > head
      BY <1>3, <1>4, <1>17, <2>4
    <3> QED
      BY <1>10, <3>1
  <2>5. (push'.last # 0 => (recording' => Len(disk'.chain) + 1 >= UndoPoint(push'.last)))
    BY <2>3
  <2> QED
    BY <1>1, <1>2, <1>16, <2>2, <2>4, <2>5 DEF StartOK, UndoPoint
<1>15. LogOK'
  <2>1. SUFFICES ASSUME crashes = 0 PROVE LogOK'
    BY <1>1 DEF LogOK
  <2>2. /\ Holds(disk.chain)
        /\ \A n \in 1..MaxNum : log[n] # None => \A m \in 1..n : log[m] # None
    BY <2>1 DEF IInv, LogOK
  <2>3. Holds(chain)' /\ Holds(disk.chain)'
    BY <1>1, <2>2 DEF Holds
  <2>4. ~push'.gap
    <3>1. CASE last > head
      <4>1. \A m \in 1..last : log[m] # None
        BY <1>3, <1>4, <2>2, <3>1
      <4>2. Len(todo) = last - head
        BY <1>5, <3>1, <4>1
      <4> QED
        BY <1>3, <1>4, <1>10, <3>1, <4>2
    <3>2. CASE ~(last > head)
      BY <1>11, <3>2, NoPushType
    <3> QED
      BY <3>1, <3>2
  <2>5. ASSUME pc' = "reindex", ~recording' PROVE \A i \in 1..Len(push'.todo) : push'.todo[i] = log'[Len(chain') + i]
    <3>1. last > head
      BY <1>3, <1>4, <1>17, <2>5
    <3>2. Len(chain') = head
      BY <1>1 DEF head
    <3> QED
      BY <1>1, <1>5, <1>10, <3>1, <3>2
  <2> QED
    BY <1>1, <2>2, <2>3, <2>4, <2>5 DEF LogOK
<1> QED
  BY <1>6, <1>9, <1>12, <1>13, <1>14, <1>15 DEF IInv

\* A gap is only met after a crash.
LEMMA ReindexGapStep ==
  ASSUME IInv, ReindexGap
  PROVE  IInv'
<1>1. /\ pc = "reindex" /\ push.gap /\ push' = [push EXCEPT !.gap = FALSE] /\ unsynced' = None
      /\ log' = [n \in 1..MaxNum |-> IF n > Len(chain) + 1 THEN None ELSE log[n]]
      /\ UNCHANGED <<chain, lib, undo, undoMax, session, recording, forkIndex, forkHead, linked, forkMax, pending, popped, disk, pc, crashes>>
  BY DEF ReindexGap, AtGap, chainVars, forkVars, txVars, boundVars
<1>2. crashes # 0
  BY <1>1 DEF IInv, LogOK
<1>3. push \in PushRecords
  BY DEF IInv, PushOK
<1>4. push' \in PushRecords /\ push'.last = push.last
  BY <1>1, <1>3 DEF PushRecords
<1>5. log' \in [1..MaxNum -> Blocks \cup {None}]
  BY <1>1 DEF IInv, TypesOK
<1>6. TypesOK'
  BY <1>1, <1>5 DEF IInv, TypesOK
<1>7. ChainOK'
  BY <1>1, SameChain
<1>8. PushOK' /\ ForkOK' /\ KnownOK'
  BY <1>1, <1>4 DEF PushOK, ForkOK, KnownOK, Switching
<1>9. StartOK'
  BY <1>1, <1>4 DEF IInv, StartOK, UndoPoint
<1>10. LogOK'
  BY <1>1, <1>2 DEF LogOK
<1> QED
  BY <1>6, <1>7, <1>8, <1>9, <1>10 DEF IInv

\* Far below the end of the log there is no undo history.
LEMMA NotRecording ==
  ASSUME IInv, pc = "reindex", Len(chain) + 1 < UndoPoint(push.last)
  PROVE  ~recording /\ undo = << >>
<1>1. push.last \in Nat /\ Len(chain) \in Nat /\ Len(undo) \in Nat /\ Len(disk.chain) \in Nat
  <2>1. ChainOK /\ TypesOK /\ PushOK
    BY DEF IInv
  <2>2. push.last \in Nat
    BY <2>1, PushType
  <2>3. chain \in Seq(Blocks) /\ undo \in Seq(Versions)
    BY <2>1 DEF ChainOK, Path
  <2>4. disk.chain \in Seq(Blocks)
    BY <2>1 DEF TypesOK, Path
  <2> QED
    BY <2>2, <2>3, <2>4
<1>2. UndoPoint(push.last) \in Int /\ (push.last = 0 => UndoPoint(push.last) <= 0)
  BY <1>1, HistoryAssumption DEF UndoPoint
<1>3. push.last # 0
  BY <1>1, <1>2
<1>4. Len(disk.chain) <= Len(chain) - Len(undo)
  BY DEF IInv, StartOK
<1>5. ASSUME recording PROVE FALSE
  <2>1. Len(disk.chain) + 1 >= UndoPoint(push.last)
    BY <1>3, <1>5 DEF IInv, StartOK
  <2> QED
    BY <1>1, <1>2, <1>4, <2>1
<1> QED
  BY <1>5 DEF IInv, StartOK

\* A block is replayed without undo: it is the next one that the log holds.
LEMMA ReindexApplyStep ==
  ASSUME IInv, ReindexApply
  PROVE  IInv'
<1> DEFINE b == push.todo[1]
<1>1. /\ pc = "reindex" /\ push.todo # << >> /\ Len(chain) + 1 < UndoPoint(push.last)
      /\ UNCHANGED <<undo, session, recording, forkIndex, forkHead, linked, pending, popped, log, unsynced, disk, crashes>>
      /\ \/ /\ Applies(b) /\ chain' = Append(chain, b) /\ lib' = LastIrreversible(chain', lib)
            /\ undoMax' = Num(b) - lib + 1 /\ forkMax' = Num(b) - lib + 1
            /\ push' = [push EXCEPT !.todo = Tail(push.todo)] /\ pc' = pc
         \/ pc' = "dead" /\ UNCHANGED <<chain, lib, undoMax, forkMax, push>>
  BY DEF ReindexApply, txVars, diskVars, boundVars
<1>2. ~recording /\ undo = << >> /\ undo' = << >>
  BY <1>1, NotRecording
<1>3. push \in PushRecords /\ push.todo \in Seq(Blocks) /\ b \in Blocks
  <2>1. push \in PushRecords /\ push.todo \in Seq(Blocks)
    BY PushType DEF IInv
  <2> QED
    BY <1>1, <2>1
<1> HIDE DEF b
<1>4. CASE pc' = "dead" /\ UNCHANGED <<chain, lib, undoMax, forkMax, push>>
  <2>1. ChainOK'
    BY <1>1, <1>4, SameChain
  <2>2. TypesOK'
    BY <1>1, <1>4 DEF IInv, TypesOK, Steps
  <2>3. PushOK' /\ ForkOK' /\ KnownOK'
    BY <1>3, <1>4 DEF PushOK, ForkOK, KnownOK, Switching
  <2>4. StartOK'
    BY <1>1, <1>2, <1>4 DEF IInv, StartOK, UndoPoint
  <2>5. LogOK'
    <3>1. SUFFICES ASSUME crashes = 0 PROVE LogOK'
      BY <1>1 DEF LogOK
    <3>2. /\ Holds(chain) /\ Holds(disk.chain) /\ ~push.gap
          /\ \A n \in 1..MaxNum : log[n] # None => \A m \in 1..n : log[m] # None
      BY <3>1 DEF IInv, LogOK
    <3> QED
      BY <1>1, <1>4, <3>2 DEF LogOK, Holds
  <2> QED
    BY <2>1, <2>2, <2>3, <2>4, <2>5 DEF IInv
<1>5. CASE /\ Applies(b) /\ chain' = Append(chain, b) /\ lib' = LastIrreversible(chain', lib)
           /\ undoMax' = Num(b) - lib + 1 /\ forkMax' = Num(b) - lib + 1
           /\ push' = [push EXCEPT !.todo = Tail(push.todo)] /\ pc' = pc
  <2>1. Path(chain) /\ chain \in Seq(Blocks) /\ Len(chain) \in Nat /\ lib \in Nat /\ lib <= Len(chain)
    BY DEF IInv, ChainOK, Path
  <2>2. Parent[b] = HeadOf(chain)
    BY <1>5 DEF Applies, Head_
  <2>3. Path(chain') /\ Num(b) = Len(chain) + 1
    BY <1>3, <1>5, <2>1, <2>2, PathAppend
  <2>4. /\ chain' \in Seq(Blocks) /\ Len(chain') = Len(chain) + 1 /\ chain'[Len(chain) + 1] = b
        /\ \A i \in 1..Len(chain) : chain'[i] = chain[i]
    BY <1>3, <1>5, <2>1
  <2>5. lib' \in Nat /\ lib' <= Len(chain')
    <3>1. lib <= Len(chain')
      BY <2>1, <2>4
    <3> QED
      BY <1>5, <2>1, <2>4, <3>1, IrreversibleType
  <2>6. undoMax' \in Nat /\ forkMax' \in Nat
    BY <1>5, <2>1, <2>3
  <2>7. ChainOK'
    BY <1>2, <2>1, <2>3, <2>4, <2>5 DEF ChainOK
  <2>8. TypesOK'
    BY <1>1, <1>5, <2>6 DEF IInv, TypesOK
  <2> DEFINE rest == Tail(push.todo)
  <2>9. rest \in Seq(Blocks) /\ Len(rest) \in Nat /\ \A i \in 1..Len(rest) : rest[i] = push.todo[i + 1] /\ i + 1 \in 1..Len(push.todo)
    BY <1>1, <1>3
  <2>10. push' = [push EXCEPT !.todo = rest]
    BY <1>5
  <2> HIDE DEF rest
  <2>11. push' \in PushRecords /\ push'.todo = rest /\ push'.last = push.last /\ push'.gap = push.gap
    BY <1>3, <2>9, <2>10 DEF PushRecords
  <2>12. PushOK' /\ ForkOK' /\ KnownOK'
    BY <1>1, <1>5, <2>11 DEF PushOK, ForkOK, KnownOK, Switching
  <2>13. StartOK'
    <3>1. Len(disk.chain) <= Len(chain) - Len(undo) /\ Len(disk.chain) \in Nat
      BY <1>1 DEF IInv, StartOK, TypesOK, Path
    <3>2. Len(disk'.chain) <= Len(chain') - Len(undo')
      BY <1>1, <1>2, <2>1, <2>4, <3>1
    <3> QED
      BY <1>1, <1>2, <1>5, <3>2 DEF StartOK
  <2>14. LogOK'
    <3>1. SUFFICES ASSUME crashes = 0 PROVE LogOK'
      BY <1>1 DEF LogOK
    <3>2. /\ Holds(chain) /\ Holds(disk.chain) /\ ~push.gap
          /\ \A n \in 1..MaxNum : log[n] # None => \A m \in 1..n : log[m] # None
      BY <3>1 DEF IInv, LogOK
    <3>3. \A i \in 1..Len(push.todo) : push.todo[i] = log[Len(chain) + i]
      BY <1>1, <1>2, <3>1 DEF IInv, LogOK
    <3>4. 1 \in 1..Len(push.todo)
      BY <1>1, <1>3
    <3>5. log[Len(chain) + 1] = b
      BY <3>3, <3>4 DEF b
    <3>6. ASSUME NEW n \in 1..Len(chain') PROVE log[n] = chain'[n]
      <4>1. n \in 1..Len(chain) \/ n = Len(chain) + 1
        BY <2>1, <2>4
      <4> QED
        BY <2>4, <3>2, <3>5, <4>1 DEF Holds
    <3>7. ASSUME NEW i \in 1..Len(rest) PROVE rest[i] = log[Len(chain') + i]
      <4>1. Len(chain') + i = Len(chain) + (i + 1)
        BY <2>1, <2>4, <2>9
      <4> QED
        BY <2>9, <3>3, <4>1
    <3>8. Holds(chain)' /\ Holds(disk.chain)'
      BY <1>1, <3>2, <3>6 DEF Holds
    <3> QED
      BY <1>1, <2>11, <3>2, <3>7, <3>8 DEF LogOK
  <2> QED
    BY <2>7, <2>8, <2>12, <2>13, <2>14 DEF IInv
<1> QED
  BY <1>1, <1>4, <1>5

\* The object database is written before undo is recorded again.
LEMMA ReindexFlushStep ==
  ASSUME IInv, ReindexFlush
  PROVE  IInv'
<1>1. /\ pc = "reindex" /\ Len(chain) + 1 = UndoPoint(push.last) /\ ~recording /\ disk' = Version /\ recording' = TRUE
      /\ UNCHANGED <<chain, lib, undo, undoMax, session, forkIndex, forkHead, linked, forkMax, pending, popped, log, unsynced, pc, push, crashes>>
  BY DEF ReindexFlush, forkVars, txVars, boundVars
<1>2. undo = << >> /\ Len(undo) = 0
  BY <1>1 DEF IInv, StartOK
<1>3. /\ Version \in Versions /\ Version.chain = chain /\ Version.lib = lib
      /\ Path(chain) /\ lib <= Len(chain) /\ Len(chain) \in Nat
  BY DEF Version, Versions, IInv, ChainOK, Path
<1>4. recording' \in BOOLEAN
  BY <1>1
<1>5. TypesOK'
  BY <1>1, <1>3, <1>4 DEF IInv, TypesOK
<1>6. ChainOK' /\ PushOK' /\ ForkOK' /\ KnownOK'
  BY <1>1, SameChain DEF IInv, PushOK, ForkOK, KnownOK, Switching
<1>7. StartOK'
  <2>1. Len(disk'.chain) <= Len(chain') - Len(undo') /\ Len(disk'.chain) + 1 >= UndoPoint(push'.last)
    BY <1>1, <1>2, <1>3
  <2> QED
    BY <1>1, <2>1 DEF StartOK, UndoPoint
<1>8. LogOK'
  <2>1. SUFFICES ASSUME crashes = 0 PROVE LogOK'
    BY <1>1 DEF LogOK
  <2>2. /\ Holds(chain) /\ ~push.gap
        /\ \A n \in 1..MaxNum : log[n] # None => \A m \in 1..n : log[m] # None
    BY <2>1 DEF IInv, LogOK
  <2>3. Holds(chain)' /\ Holds(disk.chain)'
    BY <1>1, <1>3, <2>2 DEF Holds
  <2> QED
    BY <1>1, <2>2, <2>3 DEF LogOK
<1> QED
  BY <1>5, <1>6, <1>7, <1>8 DEF IInv

\* The replay is over.
LEMMA ReindexedStep ==
  ASSUME IInv, Reindexed
  PROVE  IInv'
<1>1. /\ pc = "reindex" /\ pc' = "idle" /\ push' = NoPush /\ recording' = TRUE
      /\ UNCHANGED <<chain, lib, undo, undoMax, session, forkIndex, forkHead, linked, forkMax, pending, popped, log, unsynced, disk, crashes>>
  BY DEF Reindexed, forkVars, txVars, diskVars
<1>2. recording' \in BOOLEAN
  BY <1>1
<1>3. TypesOK'
  BY <1>1, <1>2 DEF IInv, TypesOK, Steps
<1>4. ChainOK'
  BY <1>1, SameChain
<1>5. PushOK' /\ ForkOK' /\ KnownOK'
  BY <1>1, NoPushType DEF PushOK, ForkOK, KnownOK, Switching
<1>6. StartOK'
  BY <1>1, NoPushType DEF IInv, StartOK
<1>7. LogOK'
  <2>1. SUFFICES ASSUME crashes = 0 PROVE LogOK'
    BY <1>1 DEF LogOK
  <2>2. /\ Holds(chain) /\ Holds(disk.chain)
        /\ \A n \in 1..MaxNum : log[n] # None => \A m \in 1..n : log[m] # None
    BY <2>1 DEF IInv, LogOK
  <2> QED
    BY <1>1, <2>2, NoPushType DEF LogOK, Holds
<1> QED
  BY <1>3, <1>4, <1>5, <1>6, <1>7 DEF IInv

-----------------------------------------------------------------------------
(* The theorems.                                                           *)

LEMMA InitOK ==
  ASSUME Init
  PROVE  IInv
<1>1. << >> \in Seq(Blocks) /\ << >> \in Seq(Versions) /\ << >> \in Seq(Transactions) /\ Len(<< >>) = 0
  OBVIOUS
<1>2. Path(<< >>)
  BY <1>1 DEF Path
<1>3. ChainOK
  BY <1>1, <1>2 DEF Init, ChainOK
<1>4. session \in BOOLEAN /\ recording \in BOOLEAN
  BY DEF Init
<1>5. GenesisVersion \in Versions /\ GenesisVersion.chain = << >> /\ GenesisVersion.lib = 0 /\ 0 <= 0
  BY <1>1 DEF GenesisVersion, Versions
<1>6. log \in [1..MaxNum -> Blocks \cup {None}] /\ \A n \in 1..MaxNum : log[n] = None
  BY DEF Init
<1>7. TypesOK
  BY <1>1, <1>2, <1>4, <1>5, <1>6, HistoryAssumption DEF Init, TypesOK, Steps
<1>8. PushOK /\ ForkOK /\ KnownOK
  BY NoPushType DEF Init, PushOK, ForkOK, KnownOK, Switching
<1>9. StartOK
  BY <1>1, <1>5, NoPushType DEF Init, StartOK
<1>10. LogOK
  <2>1. \A n \in 1..Len(<< >>) : FALSE
    BY <1>1
  <2>2. Holds(chain) /\ Holds(disk.chain)
    BY <1>5, <2>1 DEF Init, Holds
  <2> QED
    BY <1>6, <2>2, NoPushType DEF Init, LogOK
<1> QED
  BY <1>3, <1>7, <1>8, <1>9, <1>10 DEF IInv

LEMMA NextOK ==
  ASSUME IInv, [Next]_vars
  PROVE  IInv'
<1>1. CASE UNCHANGED vars
  BY <1>1 DEF vars, chainVars, forkVars, txVars, diskVars, boundVars, IInv, ChainOK, TypesOK, PushOK, ForkOK, KnownOK,
              StartOK, LogOK, Holds, Forked, UndoPoint
<1>2. CASE \E b \in Blocks : PushBlock(b)
  BY <1>2, PushBlockStep
<1>3. CASE \E t \in Transactions : PushTransaction(t)
  BY <1>3, PushTransactionStep
<1>4. CASE PushSteps
  BY <1>4, PopForSwitchStep, PoppedStep, SwitchApplyStep, SwitchFailsStep, SwitchedStep, ExtendStep, RestoreStep DEF PushSteps
<1>5. CASE Close
  BY <1>5, CloseStep
<1>6. CASE Crash \/ ForceReplay
  BY <1>6, StopStep
<1>7. CASE StartSteps
  BY <1>7, OpenStep, ReindexGapStep, ReindexApplyStep, PushBlockStep, ReindexFlushStep, ReindexedStep DEF StartSteps
<1>8. CASE StopSteps
  BY <1>8, CloseRewindStep, CloseStep, StopStep DEF StopSteps
<1> QED
  BY <1>1, <1>2, <1>3, <1>4, <1>5, <1>6, <1>7, <1>8 DEF Next

\* The inductive invariant: in every reachable state the chain is a path in the tree
\* of blocks, the undo history has its latest beginnings, a switch is on one of its
\* two branches, no transaction is out of hand, and without crashes the block log
\* holds the chain and what is on disk.
THEOREM ChainInvariant == Spec => []IInv
BY InitOK, NextOK, PTL DEF Spec

\* Types of all variables, for every tree of blocks, set of witnesses and history size.
THEOREM ChainTypeCorrect == Spec => []TypeOK
<1>1. ASSUME IInv PROVE TypeOK
  <2>1. Version \in Versions /\ undo \in Seq(Versions)
    BY <1>1 DEF IInv, ChainOK, Path, Version, Versions
  <2> QED
    BY <1>1, <2>1 DEF IInv, TypesOK, TypeOK
<1> QED
  BY <1>1, ChainInvariant, PTL

\* After every push, switch, failed switch, shutdown and replay the block log holds the
\* chain of the node, as long as no process died.
THEOREM ChainLogKept == Spec => [](crashes = 0 => LogHoldsChain)
<1>1. ASSUME IInv PROVE crashes = 0 => LogHoldsChain
  <2>1. DOMAIN chain = 1..Len(chain)
    BY <1>1 DEF IInv, ChainOK, Path
  <2> QED
    BY <1>1, <2>1 DEF IInv, LogOK, Holds, LogHoldsChain
<1> QED
  BY <1>1, ChainInvariant, PTL

\* Only the end of push_block goes from restore to idle.
LEMMA RestoreOnly ==
  ASSUME [Next]_vars, pc = "restore", pc' = "idle"
  PROVE  Restore
<1>1. ~UNCHANGED vars
  BY DEF vars
<1>2. ~PushSteps \/ Restore
  BY DEF PushSteps, PopForSwitch, PoppedForSwitch, SwitchApply, SwitchFails, Switched, PopForUnwind, PoppedForUnwind,
         Reapply, Reapplied, Extend
<1>3. ~StartSteps /\ ~StopSteps
  BY DEF StartSteps, Open, ReindexGap, ReindexApply, ReindexPush, ReindexFlush, Reindexed,
         StopSteps, CloseRewind, CloseRewound, CloseFlush
<1>4. ~Close /\ ~Crash /\ ~ForceReplay
  BY DEF Close, CloseAt, Crash, ForceReplay, Stopped
<1>5. (\A b \in Blocks : ~PushBlock(b)) /\ (\A t \in Transactions : ~PushTransaction(t))
  BY DEF PushBlock, PushTransaction
<1> QED
  BY <1>1, <1>2, <1>3, <1>4, <1>5 DEF Next

\* No transaction is lost by a push, whatever it pops and whether it fails: what was on
\* the chain or pending when push_block was called is so when it returns, or something
\* that uses up the same is.
THEOREM ChainKeepsTransactions == Spec => NoTransactionLost
<1> DEFINE Kept1 == pc = "restore" /\ pc' = "idle" =>
       \A t \in push.known : \E u \in Included(chain') \cup Range(pending') : Spends[u] = Spends[t]
<1>1. ASSUME IInv, [Next]_vars PROVE Kept1
  <2>1. SUFFICES ASSUME pc = "restore", pc' = "idle", NEW t \in push.known
                 PROVE  \E u \in Included(chain') \cup Range(pending') : Spends[u] = Spends[t]
    OBVIOUS
  <2>2. Restore
    BY <1>1, <2>1, RestoreOnly
  <2> DEFINE q == popped \o push.saved
  <2>3. pending' = Repushed(<< >>, q) /\ chain' = chain
    BY <2>2 DEF Restore, RestoreQueue
  <2>4. q \in Seq(Transactions) /\ Range(q) = Range(popped) \cup Range(push.saved)
    BY <1>1, QueueType
  <2>5. push.known \subseteq Included(chain) \cup Range(popped) \cup Range(push.saved)
    BY <1>1, <2>1 DEF IInv, KnownOK
  <2> HIDE DEF q
  <2>6. << >> \in Seq(Transactions)
    OBVIOUS
  <2>7. \A i \in DOMAIN q : \E u \in Included(chain) \cup Range(Repushed(<< >>, q)) : Spends[u] = Spends[q[i]]
    BY <2>4, <2>6, RepushedKeeps
  <2>8. CASE t \in Included(chain)
    BY <2>3, <2>8
  <2>9. CASE t \in Range(q)
    <3>1. PICK i \in DOMAIN q : q[i] = t
      BY <2>9 DEF Range
    <3> QED
      BY <2>3, <2>7, <3>1
  <2> QED
    BY <2>4, <2>5, <2>8, <2>9
<1>2. ASSUME IInv, [Next]_vars PROVE [Kept1]_vars
  BY <1>1, <1>2
<1> HIDE DEF Kept1
<1>3. Spec => [][Kept1]_vars
  BY <1>2, ChainInvariant, PTL DEF Spec
<1> QED
  BY <1>3 DEF NoTransactionLost, Kept1

-----------------------------------------------------------------------------
(* Failed pushes.                                                          *)

\* Every step of push_block remembers the chain it began with.
Unwound ==
  /\ pc = "extend" => chain = push.before
  /\ pc \in Switching => push.before = Lineage[Last(push.old)]
  /\ FailedPushUnwinds

\* push_block begins with the chain of the old branch.
LEMMA BeginUnwound ==
  ASSUME IInv, NEW b \in Blocks, BeginPush(b)
  PROVE  Unwound'
<1> DEFINE begun == [push EXCEPT !.block = b, !.saved = pending,
                                 !.before = chain, !.irreversible = lib,
                                 !.known = Included(chain) \cup Range(pending)]
<1>1. push \in PushRecords /\ chain' = chain
  BY DEF IInv, PushOK, BeginPush
<1>2. begun.before = chain /\ [begun EXCEPT !.failed = TRUE].before = chain
  BY <1>1 DEF PushRecords
<1>3. \/ pc' \in {"extend", "restore"} /\ push' \in {begun, [begun EXCEPT !.failed = TRUE]}
      \/ /\ ForkPush(b) /\ CanFetch(forkHead', Head_, forkIndex', linked') /\ pc' = "pop"
         /\ push' = [begun EXCEPT !.new = Branches(forkHead', Head_).new, !.old = Branches(forkHead', Head_).old]
  BY DEF BeginPush
<1>4. CASE pc' \in {"extend", "restore"} /\ push' \in {begun, [begun EXCEPT !.failed = TRUE]}
  <2>1. push'.before = chain'
    BY <1>1, <1>2, <1>4
  <2> QED
    BY <1>4, <2>1 DEF Unwound, Switching, FailedPushUnwinds
<1>5. CASE /\ ForkPush(b) /\ CanFetch(forkHead', Head_, forkIndex', linked') /\ pc' = "pop"
           /\ push' = [begun EXCEPT !.new = Branches(forkHead', Head_).new, !.old = Branches(forkHead', Head_).old]
  <2> DEFINE f == forkHead'
             s == Head_
             new == Branches(f, s).new
             old == Branches(f, s).old
  <2>1. f \in Blocks /\ s \in Blocks
    BY <1>5, ForkPushType DEF CanFetch
  <2>2. chain = Lineage[s]
    <3>1. chain # << >> /\ Path(chain)
      BY <2>1, BlockTreeAssumption DEF Head_, HeadOf, IInv, ChainOK
    <3> QED
      BY <3>1, PathIsLineage DEF Head_
  <2>3. PICK m \in 1..MaxNum : Branch(m, old, s)
    <3> HIDE DEF f, s
    <3> QED
      BY <2>1, BranchesOK
  <2>4. push' = [begun EXCEPT !.new = new, !.old = old]
    BY <1>5
  <2> HIDE DEF f, s, new, old, begun
  <2>5. Last(old) = s
    BY <2>1, <2>3, BranchAt
  <2>6. push'.before = chain /\ push'.old = old
    <3>1. begun = [begun EXCEPT !.failed = begun.failed] /\ DOMAIN begun = DOMAIN push
      BY <1>1 DEF begun, PushRecords
    <3> QED
      BY <1>1, <1>2, <2>4 DEF begun, PushRecords
  <2>7. push'.before = Lineage[Last(push'.old)]
    BY <2>2, <2>5, <2>6
  <2> QED
    BY <1>5, <2>7 DEF Unwound, FailedPushUnwinds
<1> QED
  BY <1>3, <1>4, <1>5

\* The other steps of push_block, when no block that is popped is missing.
LEMMA PushUnwound ==
  ASSUME IInv, Unwound, PopNeverThrows, PushSteps
  PROVE  Unwound'
<1>1. push \in PushRecords
  BY DEF IInv, PushOK
<1>2. CASE Restore
  <2>1. pc' \in {"idle", "dead", "reindex"}
    BY <1>2 DEF Restore, RestoreQueue
  <2> QED
    BY <2>1 DEF Unwound, FailedPushUnwinds, Switching
<1>3. CASE PopForSwitch \/ PopForUnwind
  <2>1. pc \in {"pop", "unwind"} /\ PopOutcome.ok
    BY <1>3 DEF PopForSwitch, PopForUnwind, PopNeverThrows
  <2>2. UNCHANGED <<pc, push>>
    BY <1>3, <2>1 DEF PopForSwitch, PopForUnwind
  <2> QED
    BY <2>1, <2>2 DEF Unwound, FailedPushUnwinds
<1>4. CASE PoppedForSwitch \/ PoppedForUnwind \/ SwitchFails \/ SwitchApply \/ Reapply
  <2>1. pc \in Switching /\ pc' \in Switching /\ push' = push
    BY <1>4 DEF PoppedForSwitch, PoppedForUnwind, SwitchFails, SwitchApply, Reapply, Switching
  <2>2. pc' # "extend" /\ pc' # "restore"
    BY <2>1 DEF Switching
  <2> QED
    BY <2>1, <2>2 DEF Unwound, FailedPushUnwinds
<1>5. CASE Switched
  <2>1. pc' = "restore" /\ push' = [push EXCEPT !.failed = FALSE]
    BY <1>5 DEF Switched, Finish
  <2>2. push'.failed = FALSE
    BY <1>1, <2>1 DEF PushRecords
  <2> QED
    BY <2>1, <2>2 DEF Unwound, FailedPushUnwinds, Switching
<1>6. CASE Reapplied
  <2>1. pc' = "restore" /\ push' = [push EXCEPT !.failed = TRUE] /\ pc = "reapply" /\ Head_ = Last(push.old) /\ chain' = chain
    BY <1>6 DEF Reapplied, Finish, chainVars
  <2>2. push.before = Lineage[Last(push.old)]
    BY <2>1 DEF Unwound, Switching
  <2>3. PICK m \in 1..MaxNum, f \in Blocks, s \in Blocks : Branch(m, push.old, s)
    BY <2>1 DEF IInv, ForkOK, Forked, Switching
  <2>4. Last(push.old) \in Blocks
    BY <2>3, BranchAt
  <2>5. chain # << >> /\ Path(chain)
    BY <2>1, <2>4, BlockTreeAssumption DEF Head_, HeadOf, IInv, ChainOK
  <2>6. chain = Lineage[Last(push.old)]
    BY <2>1, <2>5, PathIsLineage DEF Head_
  <2>7. push'.before = push.before
    BY <1>1, <2>1 DEF PushRecords
  <2> QED
    BY <2>1, <2>2, <2>6, <2>7 DEF Unwound, FailedPushUnwinds, Switching
<1>7. CASE Extend
  <2>1. pc = "extend" /\ pc' = "restore"
    BY <1>7 DEF Extend, Finish
  <2>2. CASE Applies(push.block)
    <3>1. push' = [push EXCEPT !.failed = FALSE]
      BY <1>7, <2>2 DEF Extend, Finish
    <3>2. push'.failed = FALSE
      BY <1>1, <3>1 DEF PushRecords
    <3> QED
      BY <2>1, <3>2 DEF Unwound, FailedPushUnwinds, Switching
  <2>3. CASE ~Applies(push.block)
    <3>1. push' = [push EXCEPT !.failed = TRUE] /\ chain' = chain
      BY <1>7, <2>3 DEF Extend, Finish
    <3>2. push'.before = push.before
      BY <1>1, <3>1 DEF PushRecords
    <3> QED
      BY <2>1, <3>1, <3>2 DEF Unwound, FailedPushUnwinds, Switching
  <2> QED
    BY <2>2, <2>3
<1> QED
  BY <1>2, <1>3, <1>4, <1>5, <1>6, <1>7 DEF PushSteps

\* As long as no exception is thrown while blocks are popped, a push that fails leaves
\* the chain as it was: the other exceptions, of a block of the chain's own branch or of
\* the branch that is switched to, are all taken back.
THEOREM ChainFailuresUnwind == Spec /\ []PopNeverThrows => []FailedPushUnwinds
<1>1. ASSUME Init PROVE Unwound
  BY <1>1 DEF Init, Unwound, FailedPushUnwinds, Switching
<1>2. ASSUME IInv, Unwound, PopNeverThrows, [Next]_vars PROVE Unwound'
  <2>1. CASE UNCHANGED vars
    BY <1>2, <2>1 DEF vars, chainVars, Unwound, FailedPushUnwinds
  <2>2. CASE \E b \in Blocks : PushBlock(b)
    BY <1>2, <2>2, BeginUnwound DEF PushBlock
  <2>3. CASE PushSteps
    BY <1>2, <2>3, PushUnwound
  <2>4. CASE ReindexPush
    <3>1. push.todo \in Seq(Blocks) /\ push.todo # << >> /\ BeginPush(push.todo[1])
      BY <1>2, <2>4, PushType DEF ReindexPush, IInv
    <3>2. push.todo[1] \in Blocks
      BY <3>1
    <3> QED
      BY <1>2, <3>1, <3>2, BeginUnwound
  <2>5. CASE pc' \notin Switching \cup {"extend", "restore"}
    BY <2>5 DEF Unwound, FailedPushUnwinds
  <2>6. CASE \/ \E t \in Transactions : PushTransaction(t)
             \/ Close \/ Crash \/ ForceReplay \/ StopSteps
             \/ Open \/ ReindexGap \/ ReindexApply \/ ReindexFlush \/ Reindexed
    <3>1. pc' \in {"idle", "closing", "closed", "flush", "reindex", "dead"}
      BY <2>6 DEF PushTransaction, Close, CloseAt, Crash, ForceReplay, Stopped, StopSteps, CloseRewind, CloseRewound,
                  CloseFlush, Open, ReindexGap, ReindexApply, ReindexFlush, Reindexed
    <3> QED
      BY <2>5, <3>1 DEF Switching
  <2> QED
    BY <1>2, <2>1, <2>2, <2>3, <2>4, <2>6 DEF Next, StartSteps
<1>3. Unwound => FailedPushUnwinds
  BY DEF Unwound
<1>4. Spec /\ []PopNeverThrows => []Unwound
  BY <1>1, <1>2, ChainInvariant, PTL DEF Spec
<1> QED
  BY <1>3, <1>4, PTL

-----------------------------------------------------------------------------
\* The schedule of witnesses, with constants and variables of its own.
CONSTANTS
  Witness, Elections, Params, GenesisTime, SlotBits, Mine, WithKey, Required, StaleProduction, P2P,
  Prompt, MaxClock
VARIABLES
  headNum, headTime, flag, aslot, nextMaint, param, active, shuffled, filled, total_missed,
  clock, running, enabled, woke, result, skipped, slots
W == INSTANCE WitnessSchedule

-----------------------------------------------------------------------------
(* The schedule of witnesses: slots.                                       *)

\* The slots of a head lie after it, one interval apart.
LEMMA FirstSlot ==
  ASSUME W!ScheduleAssumption, W!TypeOK
  PROVE  /\ param.interval \in Nat \ {0} /\ param.maint \in Nat /\ param.skip \in Nat
         /\ param.interval < param.maint
         /\ W!get_slot_time(1) \in Nat /\ W!get_slot_time(1) > headTime
         /\ \A n \in Nat \ {0} : W!get_slot_time(n) = W!get_slot_time(1) + (n - 1) * param.interval
<1> DEFINE I == param.interval
           s == IF flag THEN param.skip ELSE 0
           k == headTime \div I
<1>1. /\ I \in Nat \ {0} /\ param.maint > I /\ param.skip \in Nat
      /\ headTime \in Nat /\ headNum \in Nat /\ flag \in BOOLEAN
  BY DEF W!ScheduleAssumption, W!TypeOK
<1>2. param.maint \in Nat
  BY DEF W!ScheduleAssumption, W!TypeOK
<1>3. s \in Nat
  BY <1>1
<1>4. \A n \in Nat \ {0} : W!get_slot_time(n) = IF headNum = 0 THEN headTime + n * I ELSE k * I + (n + s) * I
  BY DEF W!get_slot_time
<1> HIDE DEF I, s
<1>5. k \in Nat /\ I * k <= headTime /\ headTime < I * k + I
  BY <1>1, DivFloor
<1> HIDE DEF k
<1>6. CASE headNum = 0
  <2>1. W!get_slot_time(1) = headTime + I
    BY <1>1, <1>4, <1>6
  <2>2. ASSUME NEW n \in Nat \ {0} PROVE W!get_slot_time(n) = W!get_slot_time(1) + (n - 1) * I
    <3>1. n * I = I + (n - 1) * I
      BY <1>1
    <3> QED
      BY <1>1, <1>4, <1>6, <2>1, <3>1
  <2> QED
    BY <1>1, <1>2, <2>1, <2>2 DEF I
<1>7. CASE headNum # 0
  <2>1. W!get_slot_time(1) = k * I + (1 + s) * I
    BY <1>1, <1>4, <1>7
  <2>2. k * I = I * k /\ (1 + s) * I = I + s * I /\ s * I \in Nat /\ k * I \in Nat
    BY <1>1, <1>3, <1>5, MulNat
  <2>3. ASSUME NEW n \in Nat \ {0} PROVE W!get_slot_time(n) = W!get_slot_time(1) + (n - 1) * I
    <3>1. (n + s) * I = (1 + s) * I + (n - 1) * I
      BY <1>1, <1>3
    <3>2. (n + s) * I \in Nat /\ (1 + s) * I \in Nat /\ (n - 1) * I \in Nat
      BY <1>1, <1>3, MulNat
    <3> QED
      BY <1>1, <1>4, <1>7, <2>1, <2>2, <3>1, <3>2
  <2>4. W!get_slot_time(1) \in Nat /\ W!get_slot_time(1) > headTime
    BY <1>1, <1>5, <2>1, <2>2
  <2> QED
    BY <1>1, <1>2, <2>3, <2>4 DEF I
<1> QED
  BY <1>6, <1>7

\* The slot at a time is the last that begins until then.
LEMMA SlotAt ==
  ASSUME W!ScheduleAssumption, W!TypeOK, NEW when \in Nat
  PROVE  LET n == W!get_slot_at_time(when) IN
         /\ n \in Nat
         /\ n > 0 => /\ when > headTime /\ W!get_slot_time(n) <= when /\ W!get_slot_time(n) \in Nat
                     /\ W!get_slot_time(n) = W!get_slot_time(1) + (n - 1) * param.interval
                     /\ when < W!get_slot_time(n) + param.interval
                     /\ W!get_slot_time(n) > headTime
                     /\ W!get_slot_at_time(W!get_slot_time(n)) = n
         /\ n = 0 => when < W!get_slot_time(1)
         /\ when < W!get_slot_time(n + 1)
<1> DEFINE I == param.interval
           A == W!get_slot_time(1)
           n == W!get_slot_at_time(when)
           m == (when - A) \div I
<1>1. /\ I \in Nat \ {0} /\ A \in Nat /\ A > headTime /\ headTime \in Nat
      /\ \A x \in Nat \ {0} : W!get_slot_time(x) = A + (x - 1) * I
  BY FirstSlot DEF W!TypeOK
<1>2. \A x : W!get_slot_at_time(x) = IF x < A THEN 0 ELSE (x - A) \div I + 1
  BY DEF W!get_slot_at_time
<1> HIDE DEF I, A
<1>3. CASE when < A
  <2>1. n = 0
    BY <1>2, <1>3
  <2> QED
    BY <1>1, <1>3, <2>1 DEF A
<1>4. CASE ~(when < A)
  <2>1. when - A \in Nat
    BY <1>1, <1>4
  <2>2. m \in Nat /\ I * m <= when - A /\ when - A < I * m + I
    BY <1>1, <2>1, DivFloor
  <2>3. n = m + 1
    BY <1>2, <1>4
  <2> HIDE DEF m, n
  <2>4. W!get_slot_time(n) = A + m * I /\ W!get_slot_time(n + 1) = A + (m + 1) * I
    <3>1. n \in Nat \ {0} /\ n + 1 \in Nat \ {0} /\ n - 1 = m /\ (n + 1) - 1 = m + 1
      BY <2>2, <2>3
    <3> QED
      BY <1>1, <3>1
  <2>5. m * I = I * m /\ (m + 1) * I = m * I + I /\ m * I \in Nat
    BY <1>1, <2>2, MulNat
  <2>6. W!get_slot_at_time(W!get_slot_time(n)) = n
    <3>1. (m * I) \div I = m
      <4>1. (0 + m * I) \div I = (0 \div I) + m
        BY <1>1, <2>2, DivShift
      <4>2. 0 \div I = 0
        BY <1>1
      <4> QED
        BY <2>2, <2>5, <4>1, <4>2
    <3>2. W!get_slot_time(n) - A = m * I /\ ~(W!get_slot_time(n) < A)
      BY <1>1, <2>4, <2>5
    <3> QED
      BY <1>2, <2>3, <3>1, <3>2
  <2>7. /\ n \in Nat /\ n > 0 /\ when > headTime /\ W!get_slot_time(n) <= when /\ W!get_slot_time(n) \in Nat
        /\ W!get_slot_time(n) = A + (n - 1) * I /\ when < W!get_slot_time(n) + I
        /\ W!get_slot_time(n) > headTime /\ when < W!get_slot_time(n + 1)
    BY <1>1, <1>4, <2>1, <2>2, <2>3, <2>4, <2>5
  <2> QED
    BY <2>6, <2>7 DEF n, A, I
<1> QED
  BY <1>3, <1>4

\* What SlotInverse says.
LEMMA SlotsInverse ==
  ASSUME W!ScheduleAssumption, W!TypeOK
  PROVE  W!SlotInverse
<1> SUFFICES ASSUME NEW when \in headTime..(MaxClock + 2)
             PROVE  LET n == W!get_slot_at_time(when)
                    IN  /\ n > 0 => when > headTime /\ W!get_slot_time(n) <= when
                        /\ when < W!get_slot_time(n + 1)
                        /\ n > 0 => W!get_slot_time(n) > headTime
                                    /\ W!get_slot_at_time(W!get_slot_time(n)) = n
  BY DEF W!SlotInverse
<1>1. when \in Nat
  BY DEF W!ScheduleAssumption, W!TypeOK
<1> QED
  BY <1>1, SlotAt

-----------------------------------------------------------------------------
(* The schedule of witnesses: maintenance.                                 *)

\* The next of the times m0 + k * m after t is at most m away.
LEMMA NextAfter ==
  ASSUME NEW t \in Nat, NEW b \in Nat, b <= t, NEW m \in Nat \ {0}
  PROVE  LET x == b + ((t - b) \div m + 1) * m IN x \in Nat /\ t < x /\ x <= t + m
<1> DEFINE q == (t - b) \div m
<1>1. t - b \in Nat
  OBVIOUS
<1>2. q \in Nat /\ m * q <= t - b /\ t - b < m * q + m
  BY <1>1, DivFloor
<1> HIDE DEF q
<1>3. (q + 1) * m = m * q + m /\ m * q \in Nat
  BY <1>2, MulNat
<1> QED
  BY <1>2, <1>3 DEF q

\* The same for the multiples of m.
LEMMA NextMultiple ==
  ASSUME NEW t \in Nat, NEW m \in Nat \ {0}
  PROVE  LET x == (t \div m + 1) * m IN x \in Nat /\ t < x /\ x <= t + m
<1> DEFINE q == t \div m
<1>1. q \in Nat /\ m * q <= t /\ t < m * q + m
  BY DivFloor
<1> HIDE DEF q
<1>2. (q + 1) * m = m * q + m /\ m * q \in Nat
  BY <1>1, MulNat
<1> QED
  BY <1>1, <1>2 DEF q

-----------------------------------------------------------------------------
(* The schedule of witnesses: the shuffled witnesses.                      *)

\* The module's operators on sets and functions are those of the proofs.
LEMMA ScheduleOperators ==
  /\ \A S : W!IsFiniteSet(S) <=> IsFiniteSet(S)
  /\ \A S : W!Cardinality(S) = Cardinality(S)
  /\ \A f : W!IsInjective(f) <=> \A a, b \in DOMAIN f : f[a] = f[b] => a = b
  /\ \A f : W!ToSet(f) = {f[i] : i \in DOMAIN f}
<1>1. \A S : W!IsFiniteSet(S) <=> IsFiniteSet(S)
  BY DEF W!IsFiniteSet, IsFiniteSet
<1>2. \A S : W!Cardinality(S) = Cardinality(S)
  BY DEF W!Cardinality, Cardinality, W!IsFiniteSet, IsFiniteSet
<1>3. \A f : W!IsInjective(f) <=> \A a, b \in DOMAIN f : f[a] = f[b] => a = b
  BY DEF W!IsInjective
<1>4. \A f : W!ToSet(f) = {f[i] : i \in DOMAIN f}
  BY DEF W!ToSet
<1> QED
  BY <1>1, <1>2, <1>3, <1>4

\* A schedule of all members of S.
Order(q, S) ==
  /\ q \in Seq(Witness) /\ q # <<>> /\ W!IsInjective(q) /\ W!ToSet(q) = S

\* An injection from 1..n into an elected set of n is such a schedule.
LEMMA InjectionIsOrder ==
  ASSUME W!ScheduleAssumption, NEW S \in Elections,
         NEW q \in [1..Cardinality(S) -> S], \A i, j \in 1..Cardinality(S) : q[i] = q[j] => i = j
  PROVE  Order(q, S)
<1> DEFINE n == Cardinality(S)
<1>1. S \subseteq Witness /\ S # {} /\ IsFiniteSet(Witness)
  BY ScheduleOperators DEF W!ScheduleAssumption
<1>2. IsFiniteSet(S)
  BY <1>1, FS_Subset
<1>3. n \in Nat /\ n # 0
  BY <1>1, <1>2, FS_CardinalityType, FS_EmptySet
<1> HIDE DEF n
<1>4. q \in [1..n -> S] /\ \A i, j \in 1..n : q[i] = q[j] => i = j
  BY DEF n
<1>5. q \in Seq(Witness) /\ Len(q) = n /\ DOMAIN q = 1..n
  BY <1>1, <1>3, <1>4
<1>6. q # <<>>
  BY <1>3, <1>5
<1>7. q \in Injection(1..n, S)
  BY <1>4, <1>5 DEF Injection, IsInjective
<1>8. IsFiniteSet(1..n) /\ Cardinality(1..n) = Cardinality(S)
  <2>1. IsFiniteSet(1..n) /\ Cardinality(1..n) = IF 1 > n THEN 0 ELSE n - 1 + 1
    BY <1>3, FS_Interval
  <2>2. Cardinality(1..n) = n
    BY <1>3, <2>1
  <2> QED
    BY <2>1, <2>2 DEF n
<1>9. q \in Surjection(1..n, S)
  BY <1>2, <1>7, <1>8, FS_Injection
<1>10. {q[i] : i \in DOMAIN q} = S
  <2>1. \A t \in S : \E i \in 1..n : q[i] = t
    BY <1>9 DEF Surjection
  <2>2. \A i \in DOMAIN q : q[i] \in S
    BY <1>4, <1>5
  <2>3. \A t \in S : \E i \in DOMAIN q : q[i] = t
    BY <1>5, <2>1
  <2> QED
    BY ONLY <2>2, <2>3, Zenon
<1> QED
  BY <1>4, <1>5, <1>6, <1>10, ScheduleOperators DEF Order

\* update_witness_schedule leaves a schedule of an elected set.
LEMMA ScheduleIs ==
  ASSUME W!ScheduleAssumption, NEW num, NEW S \in Elections, NEW old, NEW q \in W!Schedules(num, S, old)
  PROVE  q = old \/ Order(q, S)
<1>1. CASE q \in W!SetToSeqs(S)
  <2>1. /\ q \in [1..Cardinality(S) -> S]
        /\ \A i, j \in 1..Cardinality(S) : i # j => q[i] # q[j]
    BY <1>1, ScheduleOperators DEF W!SetToSeqs
  <2> QED
    BY <2>1, InjectionIsOrder
<1>2. CASE q \notin W!SetToSeqs(S)
  BY <1>2 DEF W!Schedules
<1> QED
  BY <1>1, <1>2

\* The first schedule.
LEMMA FirstSchedule ==
  ASSUME W!ScheduleAssumption, NEW S \in Elections
  PROVE  Order(W!SetToSeq(S), S)
<1>1. S \subseteq Witness /\ IsFiniteSet(Witness)
  BY ScheduleOperators DEF W!ScheduleAssumption
<1>2. IsFiniteSet(S)
  BY <1>1, FS_Subset
<1>3. PICK f \in [1..Cardinality(S) -> S] : IsInjective(f)
  BY <1>2, FS_CardinalityType DEF ExistsBijection, Bijection, Injection
<1>4. W!IsInjective(f)
  BY <1>3, ScheduleOperators DEF IsInjective
<1> DEFINE q == W!SetToSeq(S)
<1>5. q = CHOOSE g \in [1..Cardinality(S) -> S] : W!IsInjective(g)
  BY ScheduleOperators DEF W!SetToSeq
<1>6. q \in [1..Cardinality(S) -> S] /\ W!IsInjective(q)
  BY <1>4, <1>5
<1> HIDE DEF q
<1>7. \A i, j \in 1..Cardinality(S) : q[i] = q[j] => i = j
  BY <1>6, ScheduleOperators
<1>8. Order(q, S)
  BY <1>6, <1>7, InjectionIsOrder
<1> QED
  BY <1>8 DEF q

\* Numbers less than L apart have different remainders.
LEMMA ModDistinct ==
  ASSUME NEW x \in Nat, NEW y \in Nat, NEW L \in Nat \ {0}, x < y, y - x < L
  PROVE  x % L # y % L
<1> DEFINE p == x \div L
           q == y \div L
<1>1. x = L * p + (x % L) /\ y = L * q + (y % L) /\ p \in Int /\ q \in Int
  OBVIOUS
<1>2. x % L \in Int /\ y % L \in Int
  OBVIOUS
<1>3. ASSUME x % L = y % L PROVE FALSE
  <2> HIDE DEF p, q
  <2>1. y - x = L * (q - p)
    BY <1>1, <1>2, <1>3
  <2>2. CASE q - p <= 0
    <3>1. L * (q - p) <= 0
      BY <1>1, <2>2
    <3> QED
      BY <2>1, <3>1
  <2>3. CASE q - p >= 1
    <3>1. L * (q - p) >= L
      BY <1>1, <2>3
    <3> QED
      BY <2>1, <3>1
  <2> QED
    BY <1>1, <2>2, <2>3
<1> QED
  BY <1>3

\* Within a round no two slots have the same witness.
LEMMA RoundDistinct ==
  ASSUME Order(shuffled, W!ToSet(shuffled)), aslot \in Nat,
         NEW i \in Nat, NEW j \in Nat, i < j, j - i < Len(shuffled)
  PROVE  W!get_scheduled_witness(i) # W!get_scheduled_witness(j)
<1> DEFINE L == Len(shuffled)
<1>1. shuffled \in Seq(Witness) /\ shuffled # <<>> /\ L \in Nat \ {0} /\ DOMAIN shuffled = 1..L
  BY DEF Order
<1>2. (aslot + i) % L # (aslot + j) % L
  <2>1. aslot + i \in Nat /\ aslot + j \in Nat /\ aslot + i < aslot + j /\ (aslot + j) - (aslot + i) < L
    OBVIOUS
  <2> HIDE DEF L
  <2> QED
    BY <1>1, <2>1, ModDistinct
<1>3. (aslot + i) % L \in 0..(L - 1) /\ (aslot + j) % L \in 0..(L - 1)
  BY <1>1
<1>4. /\ ((aslot + i) % L) + 1 \in 1..L /\ ((aslot + j) % L) + 1 \in 1..L
      /\ ((aslot + i) % L) + 1 # ((aslot + j) % L) + 1
  BY <1>1, <1>2, <1>3
<1>5. \A a, b \in DOMAIN shuffled : shuffled[a] = shuffled[b] => a = b
  BY ScheduleOperators DEF Order
<1> QED
  BY <1>1, <1>4, <1>5 DEF W!get_scheduled_witness

\* The witness of a slot is a witness.
LEMMA ScheduledWitness ==
  ASSUME Order(shuffled, W!ToSet(shuffled)), aslot \in Nat, NEW i \in Nat
  PROVE  W!get_scheduled_witness(i) \in Witness
<1> DEFINE L == Len(shuffled)
<1>1. shuffled \in Seq(Witness) /\ shuffled # <<>> /\ L \in Nat \ {0} /\ DOMAIN shuffled = 1..L
  BY DEF Order
<1>2. ((aslot + i) % L) + 1 \in 1..L
  BY <1>1
<1> QED
  BY <1>1, <1>2 DEF W!get_scheduled_witness

\* A set whose members are all the same has at most one.
LEMMA AtMostOne ==
  ASSUME NEW S, \A x, y \in S : x = y
  PROVE  /\ Cardinality(S) \in Nat /\ Cardinality(S) <= 1
         /\ S = {} => Cardinality(S) = 0
<1>1. CASE S = {}
  BY <1>1, FS_EmptySet
<1>2. CASE S # {}
  <2>1. PICK x : S = {x}
    BY <1>2
  <2> QED
    BY <2>1, <1>2, FS_Singleton
<1> QED
  BY <1>1, <1>2

\* update_witness_missed_blocks adds at most one, and none for the witness of the slot
\* after the missed ones.
LEMMA ChargedIs ==
  ASSUME Order(shuffled, W!ToSet(shuffled)), aslot \in Nat, total_missed \in [Witness -> Nat],
         NEW missed \in Nat
  PROVE  /\ W!Charged(missed) \in [Witness -> Nat]
         /\ \A w \in Witness :
              /\ W!Charged(missed)[w] <= total_missed[w] + 1
              /\ w = W!get_scheduled_witness(missed + 1) => W!Charged(missed)[w] = total_missed[w]
<1> DEFINE L == Len(shuffled)
           S(w) == {i \in 1..missed : W!get_scheduled_witness(i) = w}
<1>1. L \in Nat
  BY DEF Order
<1>2. CASE missed < L
  <2>1. W!Charged(missed) = [w \in Witness |-> total_missed[w] + Cardinality(S(w))]
    BY <1>2, ScheduleOperators DEF W!Charged
  <2>2. ASSUME NEW w \in Witness
        PROVE  /\ Cardinality(S(w)) \in Nat /\ Cardinality(S(w)) <= 1
               /\ w = W!get_scheduled_witness(missed + 1) => Cardinality(S(w)) = 0
    <3>1. ASSUME NEW i \in Nat, NEW j \in Nat, 1 <= i, i < j, j <= missed + 1
          PROVE  W!get_scheduled_witness(i) # W!get_scheduled_witness(j)
      <4>1. j - i < L
        BY <1>1, <1>2, <3>1
      <4> QED
        BY <3>1, <4>1, RoundDistinct
    <3>2. \A x, y \in S(w) : x = y
      <4> TAKE x, y \in S(w)
      <4>1. x \in Nat /\ y \in Nat /\ 1 <= x /\ 1 <= y /\ x <= missed + 1 /\ y <= missed + 1
        OBVIOUS
      <4>2. ~(x < y) /\ ~(y < x)
        BY <3>1, <4>1
      <4> QED
        BY <4>1, <4>2
    <3>3. w = W!get_scheduled_witness(missed + 1) => S(w) = {}
      <4>1. \A i \in 1..missed : W!get_scheduled_witness(i) # W!get_scheduled_witness(missed + 1)
        BY <3>1
      <4> QED
        BY <4>1
    <3> HIDE DEF S
    <3> QED
      BY <3>2, <3>3, AtMostOne
  <2> HIDE DEF S
  <2>3. \A w \in Witness : total_missed[w] \in Nat
    OBVIOUS
  <2> QED
    BY <2>1, <2>2, <2>3
<1>3. CASE ~(missed < L)
  <2>1. W!Charged(missed) = total_missed
    BY <1>3 DEF W!Charged
  <2> QED
    BY <2>1
<1> QED
  BY <1>2, <1>3

\* The bits of filled slots stay bits.
LEMMA ShiftedIs ==
  ASSUME SlotBits \in Nat \ {0}, filled \in [1..SlotBits -> BOOLEAN], NEW missed \in Nat,
         NEW f \in W!ShiftedSlots(missed)
  PROVE  f \in [1..SlotBits -> BOOLEAN]
<1> DEFINE bits(n) == SubSeq([i \in 1..n |-> FALSE] \o <<TRUE>> \o filled, 1, SlotBits)
<1>1. filled \in Seq(BOOLEAN) /\ Len(filled) = SlotBits
  OBVIOUS
<1>2. ASSUME NEW n \in Nat PROVE bits(n) \in [1..SlotBits -> BOOLEAN]
  <2> DEFINE e == [i \in 1..n |-> FALSE]
             q == e \o <<TRUE>> \o filled
  <2>1. e \in Seq(BOOLEAN) /\ Len(e) = n
    OBVIOUS
  <2> HIDE DEF e
  <2>2. q \in Seq(BOOLEAN) /\ Len(q) = n + 1 + SlotBits
    BY <1>1, <2>1
  <2> HIDE DEF q
  <2>3. /\ SubSeq(q, 1, SlotBits) \in Seq(BOOLEAN) /\ Len(SubSeq(q, 1, SlotBits)) = SlotBits
    BY <2>2, PrefixOf
  <2> DEFINE r == SubSeq(q, 1, SlotBits)
  <2>4. r \in [1..SlotBits -> BOOLEAN]
    <3>1. r \in Seq(BOOLEAN) /\ Len(r) = SlotBits
      BY <2>3
    <3> HIDE DEF r
    <3>2. r \in [1..Len(r) -> BOOLEAN]
      BY <3>1
    <3> QED
      BY <3>1, <3>2
  <2> QED
    BY <2>4 DEF q, e
<1>3. missed % SlotBits \in Nat
  OBVIOUS
<1>4. \/ f = [i \in 1..SlotBits |-> FALSE]
      \/ f = bits(missed)
      \/ f = bits(missed % SlotBits)
  BY DEF W!ShiftedSlots
<1> HIDE DEF bits
<1> QED
  BY <1>2, <1>3, <1>4

-----------------------------------------------------------------------------
(* The schedule of witnesses: the inductive invariant.                     *)

\* Before the first block nothing was skipped and maintenance is due.
Fresh == headNum = 0 => nextMaint = 0 /\ headTime = GenesisTime /\ flag = FALSE

\* The types, the schedule is one of an elected set, and maintenance is ahead.
WInv ==
  /\ W!TypeOK /\ Order(shuffled, W!ToSet(shuffled))
  /\ W!NextMaintAhead /\ Fresh

\* _apply_block
LEMMA BlockKeeps ==
  ASSUME W!ScheduleAssumption, WInv, NEW time \in Nat, NEW w, W!apply_block(time, w),
         clock' \in Nat, running' \in BOOLEAN, enabled' \in BOOLEAN, woke' \in BOOLEAN,
         result' \in W!Results
  PROVE  WInv' /\ W!ChargeStep
<1> DEFINE n == W!get_slot_at_time(time)
           missed == n - 1
           maint_needed == nextMaint <= time
<1>1. /\ headNum \in Nat /\ headTime \in Nat /\ aslot \in Nat /\ nextMaint \in Nat /\ flag \in BOOLEAN
      /\ param \in Params /\ active \in Elections /\ Order(shuffled, W!ToSet(shuffled))
      /\ W!ToSet(shuffled) \in Elections /\ filled \in [1..SlotBits -> BOOLEAN]
      /\ total_missed \in [Witness -> Nat] /\ skipped \in Nat /\ W!TypeOK
  BY DEF WInv, W!TypeOK
<1>2. /\ headTime < time /\ n > 0 /\ w = W!get_scheduled_witness(n)
      /\ total_missed' = W!Charged(missed) /\ headNum' = headNum + 1 /\ headTime' = time
      /\ filled' \in W!ShiftedSlots(missed) /\ aslot' = aslot + missed + 1
      /\ flag' = maint_needed /\ skipped' = skipped + (IF flag THEN param.skip ELSE 0)
  BY DEF W!apply_block, W!ValidHeader
<1>3. PICK p \in IF maint_needed THEN Params ELSE {param}, act \in IF maint_needed THEN Elections ELSE {active} :
        /\ param' = p /\ active' = act
        /\ nextMaint' = IF maint_needed THEN W!NextMaintenance(headNum + 1, time, p) ELSE nextMaint
        /\ shuffled' \in W!Schedules(headNum + 1, act, shuffled)
  BY DEF W!apply_block
<1>4. n \in Nat
  BY <1>1, SlotAt
<1> HIDE DEF n
<1>5. missed \in Nat /\ missed + 1 = n
  BY <1>2, <1>4
<1>6. p \in Params /\ act \in Elections
  BY <1>1, <1>3
<1>7. /\ param.interval \in Nat \ {0} /\ param.maint \in Nat /\ param.skip \in Nat
      /\ p.interval \in Nat \ {0} /\ p.maint \in Nat \ {0}
  BY <1>1, <1>6 DEF W!ScheduleAssumption
<1>8. W!ChargeStep /\ total_missed' \in [Witness -> Nat]
  <2>1. /\ W!Charged(missed) \in [Witness -> Nat]
        /\ \A x \in Witness :
             /\ W!Charged(missed)[x] <= total_missed[x] + 1
             /\ x = W!get_scheduled_witness(missed + 1) => W!Charged(missed)[x] = total_missed[x]
    BY <1>1, <1>5, ChargedIs
  <2>2. W!get_scheduled_witness(W!get_slot_at_time(headTime')) = W!get_scheduled_witness(missed + 1)
    BY <1>2, <1>5 DEF n
  <2> HIDE DEF missed
  <2> QED
    BY <1>2, <2>1, <2>2 DEF W!ChargeStep
<1>9. filled' \in [1..SlotBits -> BOOLEAN]
  <2>1. SlotBits \in Nat \ {0}
    BY DEF W!ScheduleAssumption
  <2> HIDE DEF missed
  <2> QED
    BY <1>1, <1>2, <1>5, <2>1, ShiftedIs
<1>10. headTime' < nextMaint' /\ nextMaint' <= headTime' + param'.maint /\ nextMaint' \in Nat
  <2>1. CASE ~maint_needed
    <3>1. nextMaint' = nextMaint /\ param' = param /\ time < nextMaint
      BY <1>1, <1>3, <2>1
    <3>2. headNum # 0
      <4>1. headNum = 0 => nextMaint = 0
        BY DEF WInv, Fresh
      <4> QED
        BY <3>1, <4>1
    <3>3. nextMaint <= headTime + param.maint
      BY <1>1, <3>2 DEF WInv, W!NextMaintAhead
    <3> QED
      BY <1>1, <1>2, <1>7, <3>1, <3>3
  <2>2. CASE maint_needed /\ headNum = 0
    <3>1. nextMaint' = (time \div p.maint + 1) * p.maint
      BY <1>1, <1>3, <2>2 DEF W!NextMaintenance
    <3>2. LET x == (time \div p.maint + 1) * p.maint IN x \in Nat /\ time < x /\ x <= time + p.maint
      BY <1>7, NextMultiple
    <3> QED
      BY <1>2, <1>3, <3>1, <3>2
  <2>3. CASE maint_needed /\ headNum # 0
    <3>1. nextMaint' = nextMaint + ((time - nextMaint) \div p.maint + 1) * p.maint
      BY <1>1, <1>3, <2>3 DEF W!NextMaintenance
    <3>2. LET x == nextMaint + ((time - nextMaint) \div p.maint + 1) * p.maint IN x \in Nat /\ time < x /\ x <= time + p.maint
      BY <1>1, <1>7, <2>3, NextAfter
    <3> QED
      BY <1>2, <1>3, <3>1, <3>2
  <2> QED
    BY <2>1, <2>2, <2>3
<1>11. Order(shuffled', W!ToSet(shuffled')) /\ W!ToSet(shuffled') \in Elections
  <2>1. shuffled' = shuffled \/ Order(shuffled', act)
    BY <1>3, <1>6, ScheduleIs
  <2>2. Order(shuffled', act) => W!ToSet(shuffled') = act
    BY DEF Order
  <2> QED
    BY <1>1, <1>6, <2>1, <2>2
<1>12. headNum' \in Nat /\ headNum' # 0 /\ headTime' \in Nat /\ aslot' \in Nat /\ skipped' \in Nat /\ flag' \in BOOLEAN
  <2>1. maint_needed \in BOOLEAN
    OBVIOUS
  <2>2. flag' \in BOOLEAN
    BY <1>2, <2>1
  <2>3. headNum' \in Nat /\ headNum' # 0 /\ headTime' \in Nat /\ aslot' \in Nat
    BY <1>1, <1>2, <1>5
  <2>4. skipped' \in Nat
    <3>1. skipped' = skipped + param.skip \/ skipped' = skipped + 0
      BY <1>2
    <3> QED
      BY <1>1, <1>7, <3>1
  <2> QED
    BY <2>2, <2>3, <2>4
<1>13. param' \in Params /\ active' \in Elections
  BY <1>3, <1>6
<1>14. W!TypeOK'
  <2>1. W!IsInjective(shuffled')
    BY <1>11 DEF Order
  <2> QED
    BY <1>8, <1>9, <1>10, <1>11, <1>12, <1>13, <2>1 DEF W!TypeOK, W!Results
<1> QED
  BY <1>8, <1>10, <1>11, <1>12, <1>14 DEF WInv, W!NextMaintAhead, Fresh

\* A step that leaves the chain alone.
LEMMA ChainStays ==
  ASSUME W!ScheduleAssumption, WInv, UNCHANGED W!chain,
         clock' \in Nat, running' \in BOOLEAN, enabled' \in BOOLEAN, woke' \in BOOLEAN,
         result' \in W!Results
  PROVE  WInv' /\ W!ChargeStep
<1>1. /\ headNum' = headNum /\ headTime' = headTime /\ flag' = flag /\ aslot' = aslot
      /\ nextMaint' = nextMaint /\ param' = param /\ active' = active /\ shuffled' = shuffled
      /\ filled' = filled /\ total_missed' = total_missed /\ skipped' = skipped
  BY DEF W!chain
<1>2. W!TypeOK'
  BY <1>1 DEF WInv, W!TypeOK
<1>3. Order(shuffled', W!ToSet(shuffled')) /\ W!NextMaintAhead' /\ Fresh'
  BY <1>1 DEF WInv, W!NextMaintAhead, Fresh
<1>4. W!ChargeStep
  <2>1. \A x \in Witness : total_missed[x] \in Nat
    BY DEF WInv, W!TypeOK
  <2> QED
    BY <1>1, <2>1 DEF W!ChargeStep
<1> QED
  BY <1>2, <1>3, <1>4 DEF WInv

\* What the production loop returns.
LEMMA LoopResult ==
  ASSUME W!block_production_loop
  PROVE  /\ running /\ ~woke /\ woke' = TRUE /\ clock' = clock /\ enabled' = W!synced
         /\ result' \in W!Results \ {"shutdown", "none"}
         /\ running' \in BOOLEAN
BY DEF W!block_production_loop, W!Condition, W!Results

\* The block a node produces, at the time of its slot.
LEMMA Produced ==
  ASSUME W!ScheduleAssumption, WInv, W!block_production_loop, result' = "produced"
  PROVE  LET n == W!get_slot_at_time(clock) IN
         /\ n \in Nat \ {0} /\ W!get_slot_time(n) \in Nat
         /\ W!apply_block(W!get_slot_time(n), W!get_scheduled_witness(n))
<1> DEFINE n == W!get_slot_at_time(clock)
<1>1. clock \in Nat /\ W!TypeOK
  BY DEF WInv, W!TypeOK
<1>2. n # 0
  BY DEF W!block_production_loop, W!Condition
<1>3. n \in Nat /\ (n > 0 => W!get_slot_time(n) \in Nat)
  BY <1>1, SlotAt
<1>4. W!apply_block(W!get_slot_time(n), W!get_scheduled_witness(n))
  BY DEF W!block_production_loop
<1> HIDE DEF n
<1>5. n \in Nat \ {0} /\ W!get_slot_time(n) \in Nat
  BY <1>2, <1>3
<1> QED
  BY <1>4, <1>5 DEF n

\* Every step keeps the invariant and charges nobody unduly.
LEMMA ScheduleStep ==
  ASSUME W!ScheduleAssumption, WInv, W!Next
  PROVE  WInv' /\ W!ChargeStep
<1>1. /\ clock \in Nat /\ running \in BOOLEAN /\ enabled \in BOOLEAN /\ woke \in BOOLEAN /\ result \in W!Results
      /\ headTime \in Nat
  BY DEF WInv, W!TypeOK
<1>2. CASE W!handle_block
  <2>1. PICK time \in (headTime + 1)..(clock + 2), w \in Witness \ WithKey : W!apply_block(time, w)
    BY <1>2 DEF W!handle_block
  <2>2. time \in Nat
    BY <1>1
  <2>3. clock' = clock /\ running' = running /\ enabled' = enabled /\ woke' = woke /\ result' = result
    BY <1>2 DEF W!handle_block, W!plugin
  <2> QED
    BY <1>1, <2>1, <2>2, <2>3, BlockKeeps
<1>3. CASE W!block_production_loop
  <2>1. /\ clock' \in Nat /\ running' \in BOOLEAN /\ woke' \in BOOLEAN /\ result' \in W!Results
    BY <1>1, <1>3, LoopResult
  <2>2. enabled' \in BOOLEAN
    BY <1>3, LoopResult, <1>1 DEF W!synced
  <2>3. CASE result' = "produced"
    <3> DEFINE t == W!get_slot_time(W!get_slot_at_time(clock))
               w == W!get_scheduled_witness(W!get_slot_at_time(clock))
    <3>1. t \in Nat /\ W!apply_block(t, w)
      BY <1>3, <2>3, Produced
    <3> HIDE DEF t, w
    <3> QED
      BY <2>1, <2>2, <3>1, BlockKeeps
  <2>4. CASE result' # "produced"
    <3>1. UNCHANGED W!chain
      BY <1>3, <2>4 DEF W!block_production_loop
    <3> QED
      BY <2>1, <2>2, <3>1, ChainStays
  <2> QED
    BY <2>3, <2>4
<1>4. CASE W!stop_block_production
  <2>1. /\ UNCHANGED W!chain /\ clock' = clock /\ running' = FALSE /\ enabled' = enabled /\ woke' = woke
        /\ result' \in W!Results
    BY <1>4 DEF W!stop_block_production, W!Results
  <2> QED
    BY <1>1, <2>1, ChainStays
<1>5. CASE W!plugin_startup
  <2>1. /\ UNCHANGED W!chain /\ clock' = clock /\ running' = TRUE /\ enabled' = StaleProduction /\ woke' = FALSE
        /\ result' \in W!Results
    BY <1>5 DEF W!plugin_startup, W!Results
  <2>2. StaleProduction \in BOOLEAN
    BY DEF W!ScheduleAssumption
  <2> QED
    BY <1>1, <2>1, <2>2, ChainStays
<1>6. CASE W!Tick
  <2>1. /\ UNCHANGED W!chain /\ clock' = clock + 1 /\ running' = running /\ enabled' = enabled /\ woke' = FALSE
        /\ result' = result
    BY <1>6 DEF W!Tick
  <2>2. clock' \in Nat
    BY <1>1, <2>1
  <2> QED
    BY <1>1, <2>1, <2>2, ChainStays
<1> QED
  BY <1>2, <1>3, <1>4, <1>5, <1>6 DEF W!Next

\* The invariant holds at the start.
LEMMA ScheduleStart ==
  ASSUME W!ScheduleAssumption, W!Init
  PROVE  WInv
<1>1. shuffled = W!SetToSeq(active) /\ active \in Elections
  BY DEF W!Init
<1>2. Order(shuffled, active)
  BY <1>1, FirstSchedule
<1>3. W!ToSet(shuffled) = active /\ W!IsInjective(shuffled)
  BY <1>2 DEF Order
<1>4. GenesisTime \in Nat /\ StaleProduction \in BOOLEAN
  BY DEF W!ScheduleAssumption
<1>5. W!TypeOK
  BY <1>1, <1>3, <1>4 DEF W!Init, W!TypeOK, W!Results
<1>6. W!NextMaintAhead /\ Fresh
  BY DEF W!Init, W!NextMaintAhead, Fresh
<1> QED
  BY <1>2, <1>3, <1>5, <1>6 DEF WInv

\* The invariant always holds.
LEMMA ScheduleInvariant ==
  ASSUME W!ScheduleAssumption
  PROVE  W!Spec => []WInv
<1>1. W!Init => WInv
  BY ScheduleStart
<1>2. WInv /\ [W!Next]_W!vars => WInv'
  <2>1. CASE W!Next
    BY <2>1, ScheduleStep
  <2>2. ASSUME WInv, UNCHANGED W!vars PROVE WInv'
    <3>1. UNCHANGED W!chain /\ UNCHANGED <<clock, running, enabled, woke, result>>
      BY <2>2 DEF W!vars, W!plugin
    <3>2. /\ clock' \in Nat /\ running' \in BOOLEAN /\ enabled' \in BOOLEAN /\ woke' \in BOOLEAN
          /\ result' \in W!Results
      BY <2>2, <3>1 DEF WInv, W!TypeOK
    <3> QED
      BY <2>2, <3>1, <3>2, ChainStays
  <2> QED
    BY <2>1, <2>2
<1> QED
  BY <1>1, <1>2, PTL DEF W!Spec

\* For any witnesses, parameters and elections: get_slot_time and get_slot_at_time are
\* inverse to each other at every head, maintenance is always ahead and at most an
\* interval away, and a block charges nobody twice and never its producer
\* (db_witness_schedule.cpp, perform_chain_maintenance, update_witness_missed_blocks).
THEOREM SlotsAlwaysAgree ==
  ASSUME W!ScheduleAssumption
  PROVE  W!Spec => []W!TypeOK /\ W!SlotsAgree
<1>1. WInv => W!TypeOK /\ W!SlotInverse /\ W!NextMaintAhead
  BY SlotsInverse DEF WInv
<1>2. WInv /\ [W!Next]_W!vars => [W!ChargeStep]_W!vars
  BY ScheduleStep
<1> QED
  BY <1>1, <1>2, ScheduleInvariant, PTL DEF W!Spec, W!SlotsAgree, W!ChargedOnce

-----------------------------------------------------------------------------
(* The schedule of witnesses: while the interval stays the same.           *)

\* The multiple of b that a number lies above is its quotient.
LEMMA QuotientIs ==
  ASSUME NEW a \in Nat, NEW q \in Nat, NEW b \in Nat \ {0}, q * b <= a, a < q * b + b
  PROVE  a \div b = q
<1> DEFINE r == a - q * b
<1>1. q * b \in Nat
  BY MulNat
<1>2. r \in Nat /\ r < b /\ a = r + q * b
  BY <1>1
<1> HIDE DEF r
<1>3. r \div b = 0
  BY <1>2
<1>4. (r + q * b) \div b = (r \div b) + q
  BY <1>2, DivShift
<1> QED
  BY <1>2, <1>3, <1>4

\* The slots of every head, the genesis state's too, are multiples of the interval.
LEMMA SteadySlots ==
  ASSUME W!ScheduleAssumption, W!Steady, WInv
  PROVE  LET I == param.interval
             s == IF flag THEN param.skip ELSE 0
         IN  /\ I \in Nat \ {0} /\ s \in Nat /\ headTime \div I \in Nat
             /\ \A n \in Nat \ {0} : W!get_slot_time(n) = (headTime \div I + n + s) * I
<1> DEFINE I == param.interval
           s == IF flag THEN param.skip ELSE 0
           k == headTime \div I
<1>1. /\ param \in Params /\ flag \in BOOLEAN /\ headTime \in Nat /\ GenesisTime \in Nat
      /\ I \in Nat \ {0} /\ param.skip \in Nat
  BY DEF WInv, W!TypeOK, W!ScheduleAssumption
<1>2. s \in Nat /\ k \in Nat
  BY <1>1, DivFloor
<1>3. ASSUME NEW n \in Nat \ {0} PROVE W!get_slot_time(n) = (k + n + s) * I
  <2>1. W!get_slot_time(n) = IF headNum = 0 THEN headTime + n * I ELSE k * I + (n + s) * I
    BY DEF W!get_slot_time
  <2>2. headNum = 0 => headTime = k * I /\ s = 0
    <3> SUFFICES ASSUME headNum = 0 PROVE headTime = k * I /\ s = 0
      OBVIOUS
    <3>1. headTime = GenesisTime /\ flag = FALSE
      BY DEF WInv, Fresh
    <3>2. GenesisTime % I = 0
      BY <1>1 DEF W!Steady
    <3>3. headTime = I * (headTime \div I) + (headTime % I)
      BY <1>1
    <3>4. headTime = k * I
      BY <1>1, <1>2, <3>1, <3>2, <3>3
    <3> QED
      BY <3>1, <3>4
  <2> HIDE DEF k, s, I
  <2>3. (k + n + s) * I = k * I + (n + s) * I /\ (k + n + 0) * I = k * I + n * I
    BY <1>1, <1>2
  <2> QED
    BY <2>1, <2>2, <2>3
<1> QED
  BY <1>1, <1>2, <1>3

\* The quotient of a time in a slot.
LEMMA TimeInSlot ==
  ASSUME W!ScheduleAssumption, W!Steady, WInv, NEW time \in Nat, W!get_slot_at_time(time) > 0
  PROVE  LET I == param.interval
             n == W!get_slot_at_time(time)
             s == IF flag THEN param.skip ELSE 0
         IN  time \div I = headTime \div I + n + s /\ W!get_slot_time(n) = (time \div I) * I
<1> DEFINE I == param.interval
           n == W!get_slot_at_time(time)
           s == IF flag THEN param.skip ELSE 0
           k == headTime \div I
<1>1. /\ n \in Nat /\ n > 0
      /\ W!get_slot_time(n) <= time /\ time < W!get_slot_time(n) + I
  <2>1. W!TypeOK
    BY DEF WInv
  <2> QED
    BY <2>1, SlotAt
<1>2. I \in Nat \ {0} /\ s \in Nat /\ k \in Nat /\ (n \in Nat \ {0} => W!get_slot_time(n) = (k + n + s) * I)
  BY SteadySlots
<1> HIDE DEF I, n, s, k
<1>3. k + n + s \in Nat /\ W!get_slot_time(n) = (k + n + s) * I
  BY <1>1, <1>2
<1>4. time \div I = k + n + s
  BY <1>1, <1>2, <1>3, QuotientIs
<1> QED
  BY <1>3, <1>4 DEF I, n, s, k

\* A block moves the absolute slot by as much as the time.
LEMMA BlockCounts ==
  ASSUME W!ScheduleAssumption, W!Steady, WInv, W!AslotTime,
         NEW time \in Nat, NEW w, W!apply_block(time, w)
  PROVE  W!AslotTime' /\ param'.interval = param.interval
<1> DEFINE I == param.interval
           n == W!get_slot_at_time(time)
           s == IF flag THEN param.skip ELSE 0
<1>1. n > 0 /\ headTime' = time /\ aslot' = aslot + (n - 1) + 1 /\ skipped' = skipped + s
  BY DEF W!apply_block, W!ValidHeader
<1>2. param' \in Params /\ param \in Params
  BY DEF W!apply_block, WInv, W!TypeOK
<1>3. param'.interval = I
  BY <1>2 DEF W!Steady
<1>4. time \div I = headTime \div I + n + s
  BY <1>1, TimeInSlot
<1>5. headTime \div I = GenesisTime \div I + aslot + skipped
  BY DEF W!AslotTime
<1>6. /\ aslot \in Nat /\ skipped \in Nat /\ headTime \in Nat /\ GenesisTime \in Nat
      /\ I \in Nat \ {0} /\ s \in Nat /\ W!TypeOK
  BY SteadySlots DEF WInv, W!TypeOK, W!ScheduleAssumption
<1>7. n \in Nat /\ GenesisTime \div I \in Nat
  BY <1>6, SlotAt, DivFloor
<1>8. headTime' \div I = GenesisTime \div I + aslot' + skipped'
  <2> HIDE DEF I, n, s
  <2> QED
    BY <1>1, <1>4, <1>5, <1>6, <1>7
<1> QED
  BY <1>3, <1>8 DEF W!AslotTime

\* After a node produced, the next slot is in the future.
LEMMA ProducedAhead ==
  ASSUME W!ScheduleAssumption, W!Steady, WInv, W!AslotTime, W!block_production_loop, result' = "produced"
  PROVE  W!AslotTime' /\ clock < W!get_slot_time(1)'
<1> DEFINE I == param.interval
           n == W!get_slot_at_time(clock)
           t == W!get_slot_time(n)
           w == W!get_scheduled_witness(n)
           s == IF flag' THEN param'.skip ELSE 0
           q == clock \div I
<1>1. n \in Nat \ {0} /\ t \in Nat /\ W!apply_block(t, w)
  BY Produced
<1>2. clock \in Nat /\ W!TypeOK /\ headNum \in Nat /\ I \in Nat \ {0}
  BY SteadySlots DEF WInv, W!TypeOK
<1>3. t = q * I
  BY <1>1, <1>2, TimeInSlot
<1>4. clock < t + I /\ q \in Nat
  <2>1. clock < t + I
    <3>1. n > 0
      BY <1>1
    <3> QED
      BY <1>2, <3>1, SlotAt, Zenon
  <2>2. q \in Nat
    BY <1>2, DivFloor
  <2> QED
    BY <2>1, <2>2
<1>5. headTime' = t /\ headNum' = headNum + 1 /\ param' \in Params
  <2> HIDE DEF t, n, w
  <2>1. param \in Params
    BY <1>2 DEF W!TypeOK
  <2> QED
    BY <1>1, <2>1 DEF W!apply_block
<1> HIDE DEF t, n, w
<1>6. W!AslotTime' /\ param'.interval = I
  BY <1>1, BlockCounts
<1>7. s \in Nat
  BY <1>5 DEF W!ScheduleAssumption
<1>8. W!get_slot_time(1)' = (t \div I) * I + (1 + s) * I
  <2>1. headNum' # 0
    BY <1>2, <1>5
  <2> QED
    BY <1>5, <1>6, <2>1 DEF W!get_slot_time
<1> HIDE DEF I, s, q
<1>9. t \div I = q
  BY <1>1, <1>2, <1>3, <1>4, QuotientIs
<1>10. (1 + s) * I = I + s * I /\ s * I \in Nat /\ q * I \in Nat
  BY <1>2, <1>4, <1>7, MulNat
<1> QED
  BY <1>2, <1>3, <1>4, <1>6, <1>8, <1>9, <1>10

\* The absolute slot follows the time through every step.
LEMMA StepCounts ==
  ASSUME W!ScheduleAssumption, W!Steady, WInv, W!AslotTime, W!Next
  PROVE  W!AslotTime'
<1>1. CASE UNCHANGED W!chain
  BY <1>1 DEF W!chain, W!AslotTime
<1>2. CASE W!handle_block
  <2>1. PICK time \in (headTime + 1)..(clock + 2), w \in Witness \ WithKey : W!apply_block(time, w)
    BY <1>2 DEF W!handle_block
  <2>2. time \in Nat
    BY DEF WInv, W!TypeOK
  <2> QED
    BY <2>1, <2>2, BlockCounts
<1>3. CASE W!block_production_loop
  <2>1. CASE result' = "produced"
    BY <1>3, <2>1, ProducedAhead
  <2>2. CASE result' # "produced"
    BY <1>1, <1>3, <2>2 DEF W!block_production_loop
  <2> QED
    BY <2>1, <2>2
<1>4. CASE W!stop_block_production \/ W!plugin_startup \/ W!Tick
  BY <1>1, <1>4 DEF W!stop_block_production, W!plugin_startup, W!Tick
<1> QED
  BY <1>2, <1>3, <1>4 DEF W!Next

\* While the interval stays the same, the absolute slot number tells the time at every
\* head, whatever slots are missed or skipped after maintenance
\* (update_global_dynamic_data).
THEOREM SlotsTellTime ==
  ASSUME W!ScheduleAssumption, W!Steady
  PROVE  W!Spec => []W!AslotTime
<1>1. W!Init => W!AslotTime
  <2> SUFFICES ASSUME W!Init PROVE W!AslotTime
    OBVIOUS
  <2>1. headTime = GenesisTime /\ aslot = 0 /\ skipped = 0 /\ param \in Params
    BY DEF W!Init
  <2>2. GenesisTime \div param.interval \in Nat
    BY <2>1, DivFloor DEF W!ScheduleAssumption
  <2> QED
    BY <2>1, <2>2 DEF W!AslotTime
<1>2. WInv /\ W!AslotTime /\ [W!Next]_W!vars => W!AslotTime'
  <2>1. ASSUME W!AslotTime, UNCHANGED W!vars PROVE W!AslotTime'
    BY <2>1 DEF W!vars, W!chain, W!AslotTime
  <2> QED
    BY <2>1, StepCounts
<1> QED
  BY <1>1, <1>2, ScheduleInvariant, PTL DEF W!Spec

\* The participation rate is no less than none.
LEMMA RateIsNat ==
  ASSUME W!ScheduleAssumption
  PROVE  ~(W!witness_participation_rate < 0)
<1> DEFINE S == {i \in 1..SlotBits : filled[i]}
           c == Cardinality(S)
<1>1. SlotBits \in Nat \ {0}
  BY DEF W!ScheduleAssumption
<1>2. IsFiniteSet(1..SlotBits)
  BY <1>1, FS_Interval
<1>3. c \in Nat
  BY <1>2, FS_Subset, FS_CardinalityType
<1>4. W!witness_participation_rate = (100 * c) \div SlotBits
  BY ScheduleOperators DEF W!witness_participation_rate
<1> HIDE DEF c
<1>5. 100 * c \in Nat
  BY <1>3
<1>6. (100 * c) \div SlotBits \in Nat
  BY <1>1, <1>5, DivFloor
<1> QED
  BY <1>4, <1>6

\* What the loop of a sole producer returns.
LEMMA SoleResult ==
  ASSUME W!ScheduleAssumption, W!SoleProducer, WInv, enabled = TRUE, W!block_production_loop
  PROVE  /\ enabled' = TRUE
         /\ result' \in {"produced", "lag"} \/ (result' = "not_time_yet" /\ clock < W!get_slot_time(1))
<1> DEFINE n == W!get_slot_at_time(clock)
           v == W!get_scheduled_witness(n)
<1>1. W!synced
  BY DEF W!synced
<1>2. enabled' = TRUE /\ result' = W!Condition
  BY <1>1 DEF W!block_production_loop
<1>3. clock \in Nat /\ W!TypeOK /\ aslot \in Nat /\ Order(shuffled, W!ToSet(shuffled))
  BY DEF WInv, W!TypeOK
<1>4. n \in Nat /\ (n = 0 => clock < W!get_slot_time(1))
  BY <1>3, SlotAt
<1>5. v \in Witness
  BY <1>3, <1>4, ScheduledWitness
<1>6. v \in WithKey /\ v \in Mine /\ P2P /\ ~(W!witness_participation_rate < Required)
  BY <1>5, RateIsNat DEF W!SoleProducer, W!ScheduleAssumption
<1>7. W!Condition = IF n = 0 THEN "not_time_yet"
                    ELSE IF clock - W!get_slot_time(n) > 2 THEN "lag" ELSE "produced"
  BY <1>6 DEF W!Condition
<1> QED
  BY <1>2, <1>4, <1>7

\* A sole producer's node keeps producing.
LEMMA SoleStep ==
  ASSUME W!ScheduleAssumption, W!SoleProducer, WInv, W!AslotTime, enabled = TRUE, W!Next
  PROVE  enabled' = TRUE /\ W!NoStall'
<1>1. W!Steady /\ WithKey = Witness /\ StaleProduction = TRUE
  BY DEF W!SoleProducer
<1>2. ~W!handle_block
  BY <1>1 DEF W!handle_block
<1>3. CASE W!block_production_loop
  <2>1. /\ enabled' = TRUE /\ clock' = clock
        /\ result' \in {"produced", "lag"} \/ (result' = "not_time_yet" /\ clock < W!get_slot_time(1))
    BY <1>3, SoleResult, LoopResult
  <2>2. CASE result' = "produced"
    <3>1. clock < W!get_slot_time(1)'
      BY <1>1, <1>3, <2>2, ProducedAhead
    <3> QED
      BY <2>1, <3>1 DEF W!NoStall
  <2>3. CASE result' = "lag"
    BY <2>1, <2>3 DEF W!NoStall
  <2>4. CASE result' = "not_time_yet"
    <3>1. UNCHANGED W!chain
      BY <1>3, <2>4 DEF W!block_production_loop
    <3>2. W!get_slot_time(1)' = W!get_slot_time(1)
      BY <3>1 DEF W!chain, W!get_slot_time
    <3> QED
      BY <2>1, <2>4, <3>2 DEF W!NoStall
  <2> QED
    BY <2>1, <2>2, <2>3, <2>4
<1>4. CASE W!stop_block_production
  BY <1>4 DEF W!stop_block_production, W!NoStall
<1>5. CASE W!plugin_startup
  BY <1>1, <1>5 DEF W!plugin_startup, W!NoStall
<1>6. CASE W!Tick
  BY <1>6 DEF W!Tick, W!NoStall
<1> QED
  BY <1>2, <1>3, <1>4, <1>5, <1>6 DEF W!Next

\* Production is enabled and stays ahead.
Producing == enabled = TRUE /\ W!NoStall

\* A node that has all witnesses and needs no participation never lets a slot pass when
\* its loop runs: then the next slot is ahead, or the node came back too late for this
\* one.  That holds for any elections, reshuffles, maintenance parameters of one interval
\* and restarts (block_production_loop, maybe_produce_block).
THEOREM SoleProducerNeverStalls ==
  ASSUME W!ScheduleAssumption, W!SoleProducer
  PROVE  W!Spec => []W!NoStall
<1>1. W!Init => Producing
  BY DEF W!Init, W!SoleProducer, W!NoStall, Producing
<1>2. WInv /\ W!AslotTime /\ Producing /\ [W!Next]_W!vars => Producing'
  <2>1. ASSUME enabled = TRUE, W!NoStall, UNCHANGED W!vars PROVE enabled' = TRUE /\ W!NoStall'
    BY <2>1 DEF W!vars, W!chain, W!plugin, W!NoStall, W!get_slot_time
  <2> QED
    BY <2>1, SoleStep DEF Producing
<1>3. W!Spec => []W!AslotTime
  BY SlotsTellTime DEF W!SoleProducer
<1>4. Producing => W!NoStall
  BY DEF Producing
<1> QED
  BY <1>1, <1>2, <1>3, <1>4, ScheduleInvariant, PTL DEF W!Spec

-----------------------------------------------------------------------------
\* The pool of transactions, with constants and variables of its own.
CONSTANTS
  Tx, Expiration, Size, Needs, Clash, MaxBlockSize, MaxUntil, Summaries, MaxTime, MaxBlocks, MaxFork, MaxTxs
VARIABLES blocks, queue, applied, ref, stale, failed
T == INSTANCE TransactionPool WITH chain <- blocks, pending <- queue, session <- applied

-----------------------------------------------------------------------------
(* The pool of transactions: its folds.                                    *)

\* The module's operators on sets and sequences.
LEMMA PoolOperators ==
  /\ \A f : T!IsInjective(f) <=> \A a, b \in DOMAIN f : f[a] = f[b] => a = b
  /\ \A f : T!ToSet(f) = {f[i] : i \in DOMAIN f}
  /\ \A q : T!Last(q) = q[Len(q)]
  /\ \A S : T!Max(S) = Max(S)
<1>1. \A f : T!IsInjective(f) <=> \A a, b \in DOMAIN f : f[a] = f[b] => a = b
  BY DEF T!IsInjective
<1>2. \A f : T!ToSet(f) = {f[i] : i \in DOMAIN f}
  BY DEF T!ToSet
<1>3. \A q : T!Last(q) = q[Len(q)]
  BY DEF T!Last
<1>4. \A S : T!Max(S) = Max(S)
  BY DEF T!Max, Max
<1> QED
  BY <1>1, <1>2, <1>3, <1>4

\* One step of each fold of the module: over the blocks of a chain, the transactions that
\* are restored, those a block is made of, and the blocks of a branch.
StepOf(k, c, a, x) ==
  CASE k = "txs" -> a \o x.txs
    [] k = "restored" -> IF T!_apply_transaction(c, a, x) THEN Append(a, x) ELSE a
    [] k = "generated" -> IF a.size + Size[x] > MaxBlockSize THEN a
                          ELSE IF ~T!_apply_transaction(c, a.txs, x)
                               THEN [a EXCEPT !.failed = @ \cup {x}]
                          ELSE [a EXCEPT !.txs = Append(@, x), !.size = @ + Size[x]]
    [] k = "grown" -> Append(a, T!Applied(a, x.t, x.txs))

\* g folds a step over the places of a sequence.
Folds(g, k, c, a, q, S) ==
  g = [s \in SUBSET S |-> IF s = {} THEN a ELSE StepOf(k, c, g[s \ {T!Max(s)}], q[T!Max(s)])]

\* The same, for each of the four.
FoldsTxs(g, c) ==
  g = [s \in SUBSET DOMAIN c |-> IF s = {} THEN <<>> ELSE g[s \ {T!Max(s)}] \o c[T!Max(s)].txs]
FoldsRestored(g, c, q) ==
  g = [s \in SUBSET DOMAIN q |->
         IF s = {} THEN <<>>
         ELSE IF T!_apply_transaction(c, g[s \ {T!Max(s)}], q[T!Max(s)])
              THEN Append(g[s \ {T!Max(s)}], q[T!Max(s)]) ELSE g[s \ {T!Max(s)}]]
FoldsGenerated(g) ==
  g = [s \in SUBSET DOMAIN queue |->
         IF s = {} THEN [txs |-> <<>>, size |-> 0, failed |-> {}]
         ELSE IF g[s \ {T!Max(s)}].size + Size[queue[T!Max(s)]] > MaxBlockSize THEN g[s \ {T!Max(s)}]
         ELSE IF ~T!_apply_transaction(blocks, g[s \ {T!Max(s)}].txs, queue[T!Max(s)])
              THEN [g[s \ {T!Max(s)}] EXCEPT !.failed = @ \cup {queue[T!Max(s)]}]
         ELSE [g[s \ {T!Max(s)}] EXCEPT !.txs = Append(@, queue[T!Max(s)]), !.size = @ + Size[queue[T!Max(s)]]]]
FoldsGrown(g, c, q) ==
  g = [s \in SUBSET DOMAIN q |->
         IF s = {} THEN c
         ELSE Append(g[s \ {T!Max(s)}], T!Applied(g[s \ {T!Max(s)}], q[T!Max(s)].t, q[T!Max(s)].txs))]

\* The folds unfolded.
LEMMA FoldsAre ==
  /\ \A c : T!TxsOf(c) = (CHOOSE g : FoldsTxs(g, c))[DOMAIN c]
  /\ \A c, p, q : T!Restored(c, p, q) = (CHOOSE g : FoldsRestored(g, c, p \o q))[DOMAIN (p \o q)]
  /\ T!Generated = (CHOOSE g : FoldsGenerated(g))[DOMAIN queue]
  /\ \A c, q : T!Grow(c, q) = (CHOOSE g : FoldsGrown(g, c, q))[DOMAIN q]
<1>1. ASSUME NEW c PROVE T!TxsOf(c) = (CHOOSE g : FoldsTxs(g, c))[DOMAIN c]
  BY DEF T!TxsOf, T!FoldLeft, T!MapThenFoldSet, FoldsTxs
<1>2. ASSUME NEW c, NEW p, NEW q
      PROVE  T!Restored(c, p, q) = (CHOOSE g : FoldsRestored(g, c, p \o q))[DOMAIN (p \o q)]
  BY DEF T!Restored, T!FoldLeft, T!MapThenFoldSet, FoldsRestored
<1>3. T!Generated = (CHOOSE g : FoldsGenerated(g))[DOMAIN queue]
  BY DEF T!Generated, T!FoldLeft, T!MapThenFoldSet, FoldsGenerated
<1>4. ASSUME NEW c, NEW q PROVE T!Grow(c, q) = (CHOOSE g : FoldsGrown(g, c, q))[DOMAIN q]
  BY DEF T!Grow, T!FoldLeft, T!MapThenFoldSet, FoldsGrown
<1> QED
  BY <1>1, <1>2, <1>3, <1>4

\* They are folds of StepOf.
LEMMA FoldsSteps ==
  /\ \A g, c : FoldsTxs(g, c) <=> Folds(g, "txs", <<>>, <<>>, c, DOMAIN c)
  /\ \A g, c, q : FoldsRestored(g, c, q) <=> Folds(g, "restored", c, <<>>, q, DOMAIN q)
  /\ \A g : FoldsGenerated(g)
       <=> Folds(g, "generated", blocks, [txs |-> <<>>, size |-> 0, failed |-> {}], queue, DOMAIN queue)
  /\ \A g, c, q : FoldsGrown(g, c, q) <=> Folds(g, "grown", <<>>, c, q, DOMAIN q)
<1>1. ASSUME NEW g, NEW c PROVE FoldsTxs(g, c) <=> Folds(g, "txs", <<>>, <<>>, c, DOMAIN c)
  <2> DEFINE one(s) == IF s = {} THEN <<>> ELSE StepOf("txs", <<>>, g[s \ {T!Max(s)}], c[T!Max(s)])
             two(s) == IF s = {} THEN <<>> ELSE g[s \ {T!Max(s)}] \o c[T!Max(s)].txs
  <2>1. ASSUME NEW s PROVE one(s) = two(s)
    <3> DEFINE u == g[s \ {T!Max(s)}]
               x == c[T!Max(s)]
    <3>1. StepOf("txs", <<>>, u, x) =
           u \o x.txs
      <4> HIDE DEF u, x
      <4> QED
        BY DEF StepOf
    <3> QED
      BY <3>1
  <2>2. Folds(g, "txs", <<>>, <<>>, c, DOMAIN c) <=> g = [s \in SUBSET DOMAIN c |-> one(s)]
    BY DEF Folds
  <2>3. FoldsTxs(g, c) <=> g = [s \in SUBSET DOMAIN c |-> two(s)]
    BY DEF FoldsTxs
  <2> HIDE DEF one, two
  <2>4. [s \in SUBSET DOMAIN c |-> one(s)] = [s \in SUBSET DOMAIN c |-> two(s)]
    BY <2>1
  <2> QED
    BY <2>2, <2>3, <2>4
<1>2. ASSUME NEW g, NEW c, NEW q PROVE FoldsRestored(g, c, q) <=> Folds(g, "restored", c, <<>>, q, DOMAIN q)
  <2> DEFINE one(s) == IF s = {} THEN <<>> ELSE StepOf("restored", c, g[s \ {T!Max(s)}], q[T!Max(s)])
             two(s) == IF s = {} THEN <<>> ELSE 
                       IF T!_apply_transaction(c, g[s \ {T!Max(s)}], q[T!Max(s)])
                       THEN Append(g[s \ {T!Max(s)}], q[T!Max(s)]) ELSE g[s \ {T!Max(s)}]
  <2>1. ASSUME NEW s PROVE one(s) = two(s)
    <3> DEFINE u == g[s \ {T!Max(s)}]
               x == q[T!Max(s)]
    <3>1. StepOf("restored", c, u, x) =
           IF T!_apply_transaction(c, u, x) THEN Append(u, x) ELSE u
      <4> HIDE DEF u, x
      <4> QED
        BY DEF StepOf
    <3> QED
      BY <3>1
  <2>2. Folds(g, "restored", c, <<>>, q, DOMAIN q) <=> g = [s \in SUBSET DOMAIN q |-> one(s)]
    BY DEF Folds
  <2>3. FoldsRestored(g, c, q) <=> g = [s \in SUBSET DOMAIN q |-> two(s)]
    BY DEF FoldsRestored
  <2> HIDE DEF one, two
  <2>4. [s \in SUBSET DOMAIN q |-> one(s)] = [s \in SUBSET DOMAIN q |-> two(s)]
    BY <2>1
  <2> QED
    BY <2>2, <2>3, <2>4
<1>3. ASSUME NEW g PROVE FoldsGenerated(g) <=> Folds(g, "generated", blocks, [txs |-> <<>>, size |-> 0, failed |-> {}], queue, DOMAIN queue)
  <2> DEFINE one(s) == IF s = {} THEN [txs |-> <<>>, size |-> 0, failed |-> {}] ELSE StepOf("generated", blocks, g[s \ {T!Max(s)}], queue[T!Max(s)])
             two(s) == IF s = {} THEN [txs |-> <<>>, size |-> 0, failed |-> {}] ELSE 
                       IF g[s \ {T!Max(s)}].size + Size[queue[T!Max(s)]] > MaxBlockSize THEN g[s \ {T!Max(s)}]
                       ELSE IF ~T!_apply_transaction(blocks, g[s \ {T!Max(s)}].txs, queue[T!Max(s)])
                            THEN [g[s \ {T!Max(s)}] EXCEPT !.failed = @ \cup {queue[T!Max(s)]}]
                       ELSE [g[s \ {T!Max(s)}] EXCEPT !.txs = Append(@, queue[T!Max(s)]),
                                        !.size = @ + Size[queue[T!Max(s)]]]
  <2>1. ASSUME NEW s PROVE one(s) = two(s)
    <3> DEFINE u == g[s \ {T!Max(s)}]
               x == queue[T!Max(s)]
    <3>1. StepOf("generated", blocks, u, x) =
           IF u.size + Size[x] > MaxBlockSize THEN u
           ELSE IF ~T!_apply_transaction(blocks, u.txs, x) THEN [u EXCEPT !.failed = @ \cup {x}]
           ELSE [u EXCEPT !.txs = Append(@, x), !.size = @ + Size[x]]
      <4> HIDE DEF u, x
      <4> QED
        BY DEF StepOf
    <3> QED
      BY <3>1
  <2>2. Folds(g, "generated", blocks, [txs |-> <<>>, size |-> 0, failed |-> {}], queue, DOMAIN queue) <=> g = [s \in SUBSET DOMAIN queue |-> one(s)]
    BY DEF Folds
  <2>3. FoldsGenerated(g) <=> g = [s \in SUBSET DOMAIN queue |-> two(s)]
    BY DEF FoldsGenerated
  <2> HIDE DEF one, two
  <2>4. [s \in SUBSET DOMAIN queue |-> one(s)] = [s \in SUBSET DOMAIN queue |-> two(s)]
    BY <2>1
  <2> QED
    BY <2>2, <2>3, <2>4
<1>4. ASSUME NEW g, NEW c, NEW q PROVE FoldsGrown(g, c, q) <=> Folds(g, "grown", <<>>, c, q, DOMAIN q)
  <2> DEFINE one(s) == IF s = {} THEN c ELSE StepOf("grown", <<>>, g[s \ {T!Max(s)}], q[T!Max(s)])
             two(s) == IF s = {} THEN c ELSE 
                       Append(g[s \ {T!Max(s)}], T!Applied(g[s \ {T!Max(s)}], q[T!Max(s)].t, q[T!Max(s)].txs))
  <2>1. ASSUME NEW s PROVE one(s) = two(s)
    <3> DEFINE u == g[s \ {T!Max(s)}]
               x == q[T!Max(s)]
    <3>1. StepOf("grown", <<>>, u, x) =
           Append(u, T!Applied(u, x.t, x.txs))
      <4> HIDE DEF u, x
      <4> QED
        BY DEF StepOf
    <3> QED
      BY <3>1
  <2>2. Folds(g, "grown", <<>>, c, q, DOMAIN q) <=> g = [s \in SUBSET DOMAIN q |-> one(s)]
    BY DEF Folds
  <2>3. FoldsGrown(g, c, q) <=> g = [s \in SUBSET DOMAIN q |-> two(s)]
    BY DEF FoldsGrown
  <2> HIDE DEF one, two
  <2>4. [s \in SUBSET DOMAIN q |-> one(s)] = [s \in SUBSET DOMAIN q |-> two(s)]
    BY <2>1
  <2> QED
    BY <2>2, <2>3, <2>4
<1> QED
  BY <1>1, <1>2, <1>3, <1>4
\* The maximum of the module, too.
LEMMA MaxPlace ==
  ASSUME NEW s, Places(s), s # {}
  PROVE  T!Max(s) \in s
BY MaxIn, PoolOperators

\* What the iteration returns.
LEMMA FoldStep ==
  ASSUME NEW k, NEW c, NEW a, NEW q, NEW S, NEW g, Folds(g, k, c, a, q, S), NEW s \in SUBSET S
  PROVE  /\ s = {} => g[s] = a
         /\ s # {} => g[s] = StepOf(k, c, g[s \ {T!Max(s)}], q[T!Max(s)])
BY DEF Folds

\* Two iterations agree where both are defined.
LEMMA FoldUnique ==
  ASSUME NEW k, NEW c, NEW a, NEW q, NEW A, NEW B, Places(A), NEW g, NEW h,
         Folds(g, k, c, a, q, A), Folds(h, k, c, a, q, B), NEW s, s \subseteq A, s \subseteq B
  PROVE  g[s] = h[s]
<1> DEFINE X == {t \in SUBSET s : g[t] # h[t]}
<1>1. IsFiniteSet(s)
  BY SomePlaces
<1>2. ASSUME X # {} PROVE FALSE
  <2>1. PICK m \in X : \A y \in X : y \subseteq m => y = m
    <3>1. X \subseteq SUBSET s
      OBVIOUS
    <3> HIDE DEF X
    <3> QED
      BY <1>1, <1>2, <3>1, SmallestSubset
  <2>2. m \in SUBSET A /\ m \in SUBSET B
    BY <2>1
  <2>3. CASE m = {}
    BY <2>1, <2>2, <2>3, FoldStep
  <2>4. CASE m # {}
    <3> DEFINE x == T!Max(m)
    <3>1. x \in m
      <4>1. Places(m)
        BY <2>2, SomePlaces
      <4> QED
        BY <2>4, <4>1, MaxPlace
    <3>2. m \ {x} \notin X
      BY <2>1, <3>1
    <3>3. g[m \ {x}] = h[m \ {x}]
      BY <3>2, <2>1
    <3>4. g[m] = StepOf(k, c, g[m \ {x}], q[x]) /\ h[m] = StepOf(k, c, h[m \ {x}], q[x])
      BY <2>2, <2>4, FoldStep
    <3> QED
      BY <3>3, <3>4, <2>1
  <2> QED
    BY <2>3, <2>4
<1> QED
  BY <1>2

\* What the fold over the places S returns.
FoldedOver(k, c, a, q, S) == (CHOOSE g : Folds(g, k, c, a, q, S))[S]

\* Every iteration over a larger set has the same value.
LEMMA FoldValue ==
  ASSUME NEW k, NEW c, NEW a, NEW q, NEW S, Places(S), NEW g, Folds(g, k, c, a, q, S), NEW s \in SUBSET S,
         \E h : Folds(h, k, c, a, q, s)
  PROVE  FoldedOver(k, c, a, q, s) = g[s]
<1> DEFINE h == CHOOSE h : Folds(h, k, c, a, q, s)
<1>1. Folds(h, k, c, a, q, s)
  OBVIOUS
<1>2. Places(s)
  BY SomePlaces
<1>3. FoldedOver(k, c, a, q, s) = h[s]
  BY DEF FoldedOver
<1> HIDE DEF h
<1>4. s \subseteq S /\ s \subseteq s
  OBVIOUS
<1>5. g[s] = h[s]
  BY <1>1, <1>2, <1>4, FoldUnique
<1> QED
  BY <1>3, <1>5

\* The iteration exists: the fold over the queue is meaningful.
LEMMA FoldExists ==
  ASSUME NEW k, NEW c, NEW a, NEW q, NEW S, Places(S)
  PROVE  \E g : Folds(g, k, c, a, q, S)
<1> DEFINE X == {t \in SUBSET S : ~\E g : Folds(g, k, c, a, q, t)}
<1>2. IsFiniteSet(S)
  BY DEF Places
<1>1. ASSUME X # {} PROVE FALSE
  <2>1. PICK m \in X : \A y \in X : y \subseteq m => y = m
    <3>1. X \subseteq SUBSET S
      OBVIOUS
    <3> HIDE DEF X
    <3> QED
      BY <1>1, <1>2, <3>1, SmallestSubset
  <2>2. ASSUME NEW s \in SUBSET m, s # m PROVE \E g : Folds(g, k, c, a, q, s)
    BY <2>1, <2>2
  <2> DEFINE x(s) == T!Max(s)
             h == [s \in SUBSET m |-> IF s = {} THEN a
                                      ELSE IF s = m THEN StepOf(k, c, FoldedOver(k, c, a, q, m \ {x(m)}), q[x(m)])
                                      ELSE FoldedOver(k, c, a, q, s)]
             step(s) == IF s = {} THEN a ELSE StepOf(k, c, h[s \ {x(s)}], q[x(s)])
  <2>3. FoldedOver(k, c, a, q, {}) = a \/ m = {}
    <3>1. CASE m # {}
      <4>1. PICK g : Folds(g, k, c, a, q, {})
        BY <2>2, <3>1
      <4>2. FoldedOver(k, c, a, q, {}) = g[{}]
        <5>1. Places({}) /\ {} \in SUBSET {}
          BY FS_EmptySet DEF Places
        <5> QED
          BY <4>1, <5>1, FoldValue
      <4> QED
        BY <4>1, <4>2, FoldStep
    <3> QED
      BY <3>1
  <2>4. ASSUME NEW s \in SUBSET m PROVE h[s] = step(s)
    <3>1. CASE s = {}
      BY <3>1
    <3>2. CASE s # {} /\ s = m
      <4>1. x(m) \in m /\ m \ {x(m)} # m
        <5>1. Places(m)
          BY <2>1, SomePlaces
        <5>2. T!Max(m) \in m
          BY <3>2, <5>1, MaxPlace
        <5> QED
          BY <5>2
      <4>2. h[m \ {x(m)}] = FoldedOver(k, c, a, q, m \ {x(m)})
        BY <4>1, <2>3, <3>2
      <4> QED
        BY <3>2, <4>2
    <3>3. CASE s # {} /\ s # m
      <4>1. PICK g : Folds(g, k, c, a, q, s)
        BY <3>3, <2>2
      <4>2. x(s) \in s /\ s \ {x(s)} # m /\ s \ {x(s)} \in SUBSET s /\ s \ {x(s)} \in SUBSET m
        <5>1. Places(s)
          BY <2>1, SomePlaces
        <5>2. T!Max(s) \in s
          BY <3>3, <5>1, MaxPlace
        <5> QED
          BY <3>3, <5>2
      <4>3. Places(s)
        BY <2>1, SomePlaces
      <4>4. FoldedOver(k, c, a, q, s) = g[s]
        BY <4>1, <4>3, FoldValue
      <4>5. FoldedOver(k, c, a, q, s \ {x(s)}) = g[s \ {x(s)}]
        <5>1. \E f : Folds(f, k, c, a, q, s \ {x(s)})
          BY <4>2, <2>2
        <5> HIDE DEF x
        <5> QED
          BY <4>1, <4>2, <4>3, <5>1, FoldValue
      <4>6. g[s] = StepOf(k, c, g[s \ {x(s)}], q[x(s)])
        BY <4>1, <3>3, FoldStep
      <4>7. h[s \ {x(s)}] = FoldedOver(k, c, a, q, s \ {x(s)})
        BY <4>2, <2>3, <3>3
      <4>8. h[s] = FoldedOver(k, c, a, q, s)
        BY <3>3
      <4> QED
        BY <3>3, <4>4, <4>5, <4>6, <4>7, <4>8
    <3> QED
      BY <3>1, <3>2, <3>3
  <2>5. h = [s \in SUBSET m |-> step(s)]
    <3> HIDE DEF step
    <3> QED
      BY <2>4
  <2>6. Folds(h, k, c, a, q, m)
    BY <2>5 DEF Folds
  <2> QED
    BY <2>1, <2>6
<1> QED
  BY <1>1

\* H holds the results of a fold over the first places of q, none to all.
Trace(H, k, c, a, q) ==
  H[0] = a /\ \A i \in 1..Len(q) : H[i] = StepOf(k, c, H[i - 1], q[i])

\* Every fold has a trace.
LEMMA TraceOf ==
  ASSUME NEW k, NEW c, NEW a, NEW S, NEW q \in Seq(S), NEW g, Folds(g, k, c, a, q, DOMAIN q)
  PROVE  \E H : Trace(H, k, c, a, q) /\ H[Len(q)] = g[DOMAIN q]
<1> DEFINE n == Len(q)
           H == [i \in 0..n |-> g[1..i]]
           D == DOMAIN q
<1>1. n \in Nat /\ D = 1..n
  OBVIOUS
<1>2. Folds(g, k, c, a, q, D)
  OBVIOUS
<1> HIDE DEF D
<1>3. \A s \in SUBSET D : /\ s = {} => g[s] = a
                          /\ s # {} => g[s] = StepOf(k, c, g[s \ {T!Max(s)}], q[T!Max(s)])
  BY <1>2, FoldStep
<1>4. H[0] = a
  <2>1. 1..0 = {} /\ 0 \in 0..n
    BY <1>1
  <2>2. g[{}] = a
    <3>1. {} \in SUBSET D
      OBVIOUS
    <3> QED
      BY <1>3, <3>1, Zenon
  <2> QED
    BY <2>1, <2>2
<1>5. ASSUME NEW i \in 1..n PROVE H[i] = StepOf(k, c, H[i - 1], q[i])
  <2>1. i \in 0..n /\ i - 1 \in 0..n /\ 1..i \in SUBSET (1..n) /\ i \in 1..i /\ 1..i \subseteq Nat
    BY <1>1
  <2>2. T!Max(1..i) = i
    <3>1. T!Max(1..i) = CHOOSE x \in 1..i : \A y \in 1..i : x >= y
      BY DEF T!Max
    <3>2. \A y \in 1..i : i >= y
      BY <2>1
    <3>3. \A x \in 1..i : (\A y \in 1..i : x >= y) => x = i
      BY <2>1
    <3> QED
      BY <2>1, <3>1, <3>2, <3>3
  <2>3. (1..i) \ {i} = 1..(i - 1)
    BY <1>1
  <2>4. g[1..i] = StepOf(k, c, g[1..(i - 1)], q[i])
    <3>1. 1..i # {} /\ 1..i \in SUBSET D
      BY <1>1, <2>1
    <3>2. g[1..i] = StepOf(k, c, g[(1..i) \ {T!Max(1..i)}], q[T!Max(1..i)])
      BY <1>3, <3>1, Zenon
    <3> QED
      BY <2>2, <2>3, <3>2
  <2> QED
    BY <2>1, <2>4
<1>6. H[n] = g[DOMAIN q]
  BY <1>1 DEF D
<1> HIDE DEF H
<1>7. Trace(H, k, c, a, q)
  BY <1>4, <1>5 DEF Trace
<1> QED
  BY <1>6, <1>7

\* Traces over the same members are the same.
LEMMA TraceUnique ==
  ASSUME NEW k, NEW c, NEW a, NEW q, NEW r, NEW H, NEW J, Trace(H, k, c, a, q), Trace(J, k, c, a, r),
         Len(q) \in Nat, Len(r) \in Nat, NEW n \in Nat, n <= Len(q), n <= Len(r), \A i \in 1..n : q[i] = r[i]
  PROVE  H[n] = J[n]
<1> DEFINE X == {i \in 0..n : H[i] # J[i]}
<1>1. ASSUME X # {} PROVE FALSE
  <2>1. PICK m \in X : \A y \in X : m <= y
    <3>1. X \subseteq Nat
      OBVIOUS
    <3> HIDE DEF X
    <3> QED
      BY <1>1, <3>1, LeastNumber
  <2>2. CASE m = 0
    BY <2>1, <2>2 DEF Trace
  <2>3. CASE m # 0
    <3>1. m \in 1..Len(q) /\ m \in 1..Len(r) /\ m \in 1..n /\ m - 1 \in 0..n
      BY <2>1, <2>3
    <3>2. H[m - 1] = J[m - 1]
      BY <2>1, <3>1
    <3>3. H[m] = StepOf(k, c, H[m - 1], q[m]) /\ J[m] = StepOf(k, c, J[m - 1], r[m]) /\ q[m] = r[m]
      BY <3>1 DEF Trace
    <3> QED
      BY <2>1, <3>2, <3>3
  <2> QED
    BY <2>2, <2>3
<1> QED
  BY <1>1

\* Each fold of the module is the end of a trace.
LEMMA PoolTraces ==
  ASSUME NEW S, NEW q \in Seq(S), NEW c
  PROVE  /\ \E H : Trace(H, "txs", <<>>, <<>>, q) /\ H[Len(q)] = T!TxsOf(q)
         /\ \E H : Trace(H, "grown", <<>>, c, q) /\ H[Len(q)] = T!Grow(c, q)
         /\ \A u, v : q = u \o v => \E H : Trace(H, "restored", c, <<>>, q) /\ H[Len(q)] = T!Restored(c, u, v)
         /\ q = queue => \E H : /\ Trace(H, "generated", blocks, [txs |-> <<>>, size |-> 0, failed |-> {}], q)
                                /\ H[Len(q)] = T!Generated
<1>1. Places(DOMAIN q)
  <2>1. DOMAIN q = 1..Len(q) /\ Len(q) \in Nat
    OBVIOUS
  <2> QED
    BY <2>1, FS_Interval DEF Places
<1>2. \E H : Trace(H, "txs", <<>>, <<>>, q) /\ H[Len(q)] = T!TxsOf(q)
  <2>1. \E g : FoldsTxs(g, q)
    BY <1>1, FoldExists, FoldsSteps
  <2> DEFINE g == CHOOSE g : FoldsTxs(g, q)
  <2>2. FoldsTxs(g, q) /\ T!TxsOf(q) = g[DOMAIN q]
    BY <2>1, FoldsAre
  <2> HIDE DEF g
  <2>3. Folds(g, "txs", <<>>, <<>>, q, DOMAIN q)
    BY <2>2, FoldsSteps
  <2> QED
    BY <2>2, <2>3, TraceOf
<1>3. \E H : Trace(H, "grown", <<>>, c, q) /\ H[Len(q)] = T!Grow(c, q)
  <2>1. \E g : FoldsGrown(g, c, q)
    BY <1>1, FoldExists, FoldsSteps
  <2> DEFINE g == CHOOSE g : FoldsGrown(g, c, q)
  <2>2. FoldsGrown(g, c, q) /\ T!Grow(c, q) = g[DOMAIN q]
    BY <2>1, FoldsAre
  <2> HIDE DEF g
  <2>3. Folds(g, "grown", <<>>, c, q, DOMAIN q)
    BY <2>2, FoldsSteps
  <2> QED
    BY <2>2, <2>3, TraceOf
<1>4. ASSUME NEW u, NEW v, q = u \o v
      PROVE  \E H : Trace(H, "restored", c, <<>>, q) /\ H[Len(q)] = T!Restored(c, u, v)
  <2>1. \E g : FoldsRestored(g, c, q)
    BY <1>1, FoldExists, FoldsSteps
  <2> DEFINE g == CHOOSE g : FoldsRestored(g, c, q)
  <2>2. FoldsRestored(g, c, q) /\ T!Restored(c, u, v) = g[DOMAIN q]
    BY <1>4, <2>1, FoldsAre
  <2> HIDE DEF g
  <2>3. Folds(g, "restored", c, <<>>, q, DOMAIN q)
    BY <2>2, FoldsSteps
  <2> QED
    BY <2>2, <2>3, TraceOf
<1>5. ASSUME q = queue
      PROVE  \E H : /\ Trace(H, "generated", blocks, [txs |-> <<>>, size |-> 0, failed |-> {}], q)
                    /\ H[Len(q)] = T!Generated
  <2> DEFINE e == [txs |-> <<>>, size |-> 0, failed |-> {}]
  <2>1. \E g : FoldsGenerated(g)
    BY <1>1, <1>5, FoldExists, FoldsSteps
  <2> DEFINE g == CHOOSE g : FoldsGenerated(g)
  <2>2. FoldsGenerated(g) /\ T!Generated = g[DOMAIN q]
    BY <1>5, <2>1, FoldsAre
  <2> HIDE DEF g
  <2>3. Folds(g, "generated", blocks, e, q, DOMAIN q)
    BY <1>5, <2>2, FoldsSteps
  <2> HIDE DEF e
  <2>4. \E H : Trace(H, "generated", blocks, e, q) /\ H[Len(q)] = T!Generated
    BY <2>2, <2>3, TraceOf
  <2> QED
    BY <2>4 DEF e
<1> QED
  BY <1>2, <1>3, <1>4, <1>5

-----------------------------------------------------------------------------
(* The pool of transactions: lists of transactions and of blocks.          *)

\* Members of lists.
LEMMA InLists ==
  ASSUME NEW S, NEW q \in Seq(S), NEW r \in Seq(S), NEW x \in S
  PROVE  /\ T!ToSet(q \o r) = T!ToSet(q) \cup T!ToSet(r)
         /\ T!ToSet(Append(q, x)) = T!ToSet(q) \cup {x}
         /\ T!ToSet(q) \in SUBSET S /\ T!ToSet(<<>>) = {}
         /\ T!ToSet(q) = {q[i] : i \in 1..Len(q)}
<1>1. \A s \in Seq(S) : T!ToSet(s) = {s[i] : i \in 1..Len(s)}
  BY PoolOperators
<1>2. T!ToSet(q \o r) = T!ToSet(q) \cup T!ToSet(r)
  <2>1. \A f : T!ToSet(f) = Range(f)
    BY PoolOperators DEF Range
  <2> QED
    BY <2>1, RangeConcat
<1>3. T!ToSet(Append(q, x)) = T!ToSet(q) \cup {x}
  <2>1. /\ Append(q, x) \in Seq(S) /\ Len(Append(q, x)) = Len(q) + 1 /\ Append(q, x)[Len(q) + 1] = x
        /\ \A i \in 1..Len(q) : Append(q, x)[i] = q[i]
        /\ Len(q) \in Nat
    OBVIOUS
  <2> DEFINE z == Append(q, x)
             n == Len(q)
  <2>2. 1..Len(z) = 1..n \cup {n + 1}
    BY <2>1
  <2>3. T!ToSet(z) = {z[i] : i \in 1..Len(z)} /\ T!ToSet(q) = {q[i] : i \in 1..n}
    BY <1>1, <2>1
  <2>4. z[n + 1] = x /\ \A i \in 1..n : z[i] = q[i]
    BY <2>1
  <2> HIDE DEF z, n
  <2>5. \A y : y \in T!ToSet(z) <=> \E i \in 1..n \cup {n + 1} : y = z[i]
    BY <2>2, <2>3
  <2>6. \A y : y \in T!ToSet(q) <=> \E i \in 1..n : y = q[i]
    BY <2>3
  <2>7. \A y : y \in T!ToSet(z) <=> y \in T!ToSet(q) \/ y = x
    BY <2>4, <2>5, <2>6
  <2>8. T!ToSet(z) = T!ToSet(q) \cup {x}
    BY <2>7
  <2> QED
    BY <2>8 DEF z
<1>4. T!ToSet(<<>>) = {}
  BY PoolOperators
<1>5. T!ToSet(q) \in SUBSET S
  BY <1>1
<1> QED
  BY <1>1, <1>2, <1>3, <1>4, <1>5

\* TxsOf, block by block.
LEMMA TxsSteps ==
  ASSUME NEW S, NEW c \in Seq(S)
  PROVE  /\ T!TxsOf(<<>>) = <<>>
         /\ \A i \in 1..Len(c) : T!TxsOf(SubSeq(c, 1, i)) = T!TxsOf(SubSeq(c, 1, i - 1)) \o c[i].txs
<1>1. T!TxsOf(<<>>) = <<>>
  <2>1. <<>> \in Seq(S) /\ Len(<<>>) = 0
    OBVIOUS
  <2>2. PICK H : Trace(H, "txs", <<>>, <<>>, <<>>) /\ H[Len(<<>>)] = T!TxsOf(<<>>)
    BY <2>1, PoolTraces
  <2> QED
    BY <2>1, <2>2 DEF Trace
<1>2. PICK H : Trace(H, "txs", <<>>, <<>>, c)
  BY PoolTraces
<1>3. ASSUME NEW i \in 0..Len(c) PROVE T!TxsOf(SubSeq(c, 1, i)) = H[i]
  <2> DEFINE d == SubSeq(c, 1, i)
  <2>1. d \in Seq(S) /\ Len(d) = i /\ \A j \in 1..i : d[j] = c[j]
    BY PrefixOf
  <2> HIDE DEF d
  <2>2. PICK J : Trace(J, "txs", <<>>, <<>>, d) /\ J[Len(d)] = T!TxsOf(d)
    BY <2>1, PoolTraces
  <2>3. H[i] = J[i]
    <3>1. Len(c) \in Nat /\ Len(d) \in Nat /\ i \in Nat /\ i <= Len(c) /\ i <= Len(d)
      BY <2>1
    <3> QED
      BY <1>2, <2>1, <2>2, <3>1, TraceUnique
  <2> QED
    BY <2>1, <2>2, <2>3 DEF d
<1>4. ASSUME NEW i \in 1..Len(c) PROVE T!TxsOf(SubSeq(c, 1, i)) = T!TxsOf(SubSeq(c, 1, i - 1)) \o c[i].txs
  <2>1. H[i] = StepOf("txs", <<>>, H[i - 1], c[i])
    BY <1>2 DEF Trace
  <2>2. StepOf("txs", <<>>, H[i - 1], c[i]) = H[i - 1] \o c[i].txs
    BY DEF StepOf
  <2>3. i \in 0..Len(c) /\ i - 1 \in 0..Len(c)
    OBVIOUS
  <2> QED
    BY <1>3, <2>1, <2>2, <2>3
<1> QED
  BY <1>1, <1>4

\* A chain after one more block of a branch.
OneBlock(c, b) == Append(c, T!Applied(c, b.t, b.txs))

\* Grow, block by block.
LEMMA GrowSteps ==
  ASSUME NEW c, NEW S, NEW q \in Seq(S)
  PROVE  /\ T!Grow(c, SubSeq(q, 1, 0)) = c
         /\ \A i \in 1..Len(q) :
              T!Grow(c, SubSeq(q, 1, i)) = OneBlock(T!Grow(c, SubSeq(q, 1, i - 1)), q[i])
<1>1. PICK H : Trace(H, "grown", <<>>, c, q)
  BY PoolTraces
<1>2. ASSUME NEW i \in 0..Len(q) PROVE T!Grow(c, SubSeq(q, 1, i)) = H[i]
  <2> DEFINE d == SubSeq(q, 1, i)
  <2>1. d \in Seq(S) /\ Len(d) = i /\ \A j \in 1..i : d[j] = q[j]
    BY PrefixOf
  <2> HIDE DEF d
  <2>2. PICK J : Trace(J, "grown", <<>>, c, d) /\ J[Len(d)] = T!Grow(c, d)
    BY <2>1, PoolTraces
  <2>3. H[i] = J[i]
    <3>1. Len(q) \in Nat /\ Len(d) \in Nat /\ i \in Nat /\ i <= Len(q) /\ i <= Len(d)
      BY <2>1
    <3> QED
      BY <1>1, <2>1, <2>2, <3>1, TraceUnique
  <2> QED
    BY <2>1, <2>2, <2>3 DEF d
<1>3. ASSUME NEW i \in 1..Len(q)
      PROVE  T!Grow(c, SubSeq(q, 1, i)) = OneBlock(T!Grow(c, SubSeq(q, 1, i - 1)), q[i])
  <2>1. H[i] = StepOf("grown", <<>>, H[i - 1], q[i])
    BY <1>1 DEF Trace
  <2>2. StepOf("grown", <<>>, H[i - 1], q[i]) = OneBlock(H[i - 1], q[i])
    BY DEF StepOf, OneBlock
  <2>3. i \in 0..Len(q) /\ i - 1 \in 0..Len(q)
    OBVIOUS
  <2> QED
    BY <1>2, <2>1, <2>2, <2>3
<1>4. T!Grow(c, SubSeq(q, 1, 0)) = c
  <2>1. 0 \in 0..Len(q)
    OBVIOUS
  <2> QED
    BY <1>1, <1>2, <2>1 DEF Trace
<1> QED
  BY <1>3, <1>4

\* The transactions of a list of blocks.
LEMMA TxsMembers ==
  ASSUME NEW S, \A b \in S : b.txs \in Seq(Tx), NEW c \in Seq(S)
  PROVE  /\ T!TxsOf(c) \in Seq(Tx)
         /\ \A x : x \in T!ToSet(T!TxsOf(c)) <=> \E n \in 1..Len(c) : x \in T!ToSet(c[n].txs)
<1> DEFINE P(m) == /\ T!TxsOf(SubSeq(c, 1, m)) \in Seq(Tx)
                   /\ \A x : x \in T!ToSet(T!TxsOf(SubSeq(c, 1, m))) <=> \E n \in 1..m : x \in T!ToSet(c[n].txs)
           X == {m \in 0..Len(c) : ~P(m)}
<1>1. Len(c) \in Nat /\ SubSeq(c, 1, Len(c)) = c /\ SubSeq(c, 1, 0) = <<>>
  OBVIOUS
<1>2. P(0)
  <2>1. T!TxsOf(SubSeq(c, 1, 0)) = <<>>
    BY <1>1, TxsSteps
  <2>2. T!ToSet(<<>>) = {} /\ 1..0 = {} /\ <<>> \in Seq(Tx)
    BY PoolOperators
  <2> QED
    BY <2>1, <2>2
<1>3. ASSUME NEW m \in 1..Len(c), P(m - 1) PROVE P(m)
  <2> DEFINE a == T!TxsOf(SubSeq(c, 1, m - 1))
  <2>1. T!TxsOf(SubSeq(c, 1, m)) = a \o c[m].txs
    BY TxsSteps
  <2>2. a \in Seq(Tx) /\ c[m].txs \in Seq(Tx)
    BY <1>3
  <2>3. \A x : x \in T!ToSet(a) <=> \E n \in 1..(m - 1) : x \in T!ToSet(c[n].txs)
    BY <1>3
  <2> HIDE DEF a
  <2>4. a \o c[m].txs \in Seq(Tx) /\ T!ToSet(a \o c[m].txs) = T!ToSet(a) \cup T!ToSet(c[m].txs)
    <3>1. \A q, r \in Seq(Tx) : T!ToSet(q \o r) = T!ToSet(q) \cup T!ToSet(r)
      <4> TAKE q, r \in Seq(Tx)
      <4>1. CASE Tx = {}
        <5>1. q = <<>> /\ r = <<>>
          BY <4>1
        <5>2. <<>> \o <<>> = <<>>
          OBVIOUS
        <5> QED
          BY <5>1, <5>2, PoolOperators
      <4>2. CASE Tx # {}
        <5>1. PICK z : z \in Tx
          BY <4>2
        <5> QED
          BY <5>1, InLists
      <4> QED
        BY <4>1, <4>2
    <3> QED
      BY <2>2, <3>1
  <2>5. 1..m = 1..(m - 1) \cup {m}
    OBVIOUS
  <2>6. \A x : x \in T!ToSet(a \o c[m].txs) <=> \E n \in 1..m : x \in T!ToSet(c[n].txs)
    BY <2>3, <2>4, <2>5
  <2> QED
    BY <2>1, <2>4, <2>6
<1> HIDE DEF P
<1>4. ASSUME X # {} PROVE FALSE
  <2>1. PICK m \in X : \A y \in X : m <= y
    <3>1. X \subseteq Nat
      OBVIOUS
    <3> HIDE DEF X
    <3> QED
      BY <1>4, <3>1, LeastNumber
  <2>2. m # 0
    BY <1>2, <2>1
  <2>3. m \in 1..Len(c) /\ m - 1 \in 0..Len(c) /\ m - 1 < m
    BY <2>1, <2>2
  <2>4. P(m - 1)
    BY <2>1, <2>3
  <2> QED
    BY <1>3, <2>1, <2>3, <2>4
<1>5. P(Len(c))
  <2>1. Len(c) \in 0..Len(c)
    BY <1>1
  <2> QED
    BY <1>4, <2>1
<1> QED
  BY <1>1, <1>5 DEF P

-----------------------------------------------------------------------------
(* The pool of transactions: blocks that were applied.                     *)

Block == [t : Nat, txs : Seq(Tx), seen : SUBSET Tx]

\* _apply_transaction, for any references.
CanApply(rf, c, d, x) ==
  /\ x \notin T!Seen(c) \cup T!ToSet(d)
  /\ c # <<>> => /\ T!Summary(c, Len(rf[x]) % Summaries) = rf[x]
                 /\ Expiration[x] <= T!head_block_time(c) + MaxUntil
                 /\ T!head_block_time(c) <= Expiration[x]
  /\ Needs[x] \subseteq T!ToSet(T!TxsOf(c)) \cup T!ToSet(d)
  /\ Clash[x] \cap (T!ToSet(T!TxsOf(c)) \cup T!ToSet(d)) = {}

\* AppliesAll, likewise.
AllApply(rf, c, q) == \A i \in 1..Len(q) : CanApply(rf, c, SubSeq(q, 1, i - 1), q[i])

\* A chain that was built block by block.
Good(rf, c) ==
  /\ c \in Seq(Block)
  /\ \A n \in 1..Len(c) :
       /\ T!ToSet(c[n].txs) \subseteq DOMAIN rf
       /\ c[n] = T!Applied(SubSeq(c, 1, n - 1), c[n].t, c[n].txs)
       /\ c[n].t > T!head_block_time(SubSeq(c, 1, n - 1))
       /\ AllApply(rf, SubSeq(c, 1, n - 1), c[n].txs)

\* They say the same.
LEMMA AppliesIs ==
  /\ \A c, d, x : T!_apply_transaction(c, d, x) <=> CanApply(ref, c, d, x)
  /\ \A c, q : T!AppliesAll(c, q) <=> AllApply(ref, c, q)
<1>1. \A c, d, x : T!_apply_transaction(c, d, x) <=> CanApply(ref, c, d, x)
  BY DEF T!_apply_transaction, T!RefersTo, CanApply
<1>2. \A c, q : T!AppliesAll(c, q) <=> AllApply(ref, c, q)
  BY <1>1 DEF T!AppliesAll, AllApply
<1> QED
  BY <1>1, <1>2

\* What the last block says of a chain.
LEMMA HeadSays ==
  ASSUME NEW c \in Seq(Block)
  PROVE  /\ T!head_block_time(c) \in Nat /\ T!Seen(c) \in SUBSET Tx
         /\ c = <<>> => T!head_block_time(c) = 0 /\ T!Seen(c) = {}
         /\ Len(c) \in Nat
         /\ c # <<>> => /\ Len(c) \in 1..Len(c) /\ T!head_block_time(c) = c[Len(c)].t
                        /\ T!Seen(c) = c[Len(c)].seen
<1>1. CASE c = <<>>
  BY <1>1 DEF T!head_block_time, T!Seen
<1>2. CASE c # <<>>
  <2>1. Len(c) \in 1..Len(c) /\ c[Len(c)] \in Block
    BY <1>2
  <2>2. c[Len(c)].t \in Nat /\ c[Len(c)].seen \in SUBSET Tx
    BY <2>1 DEF Block
  <2> QED
    BY <1>2, <2>1, <2>2, PoolOperators DEF T!head_block_time, T!Seen
<1> QED
  BY <1>1, <1>2

\* One more transaction.
LEMMA AllAppend ==
  ASSUME NEW rf, NEW c, NEW q \in Seq(Tx), AllApply(rf, c, q), NEW x \in Tx, CanApply(rf, c, q, x)
  PROVE  AllApply(rf, c, Append(q, x))
<1> DEFINE r == Append(q, x)
<1>1. r \in Seq(Tx) /\ Len(r) = Len(q) + 1 /\ r[Len(q) + 1] = x /\ Len(q) \in Nat
  OBVIOUS
<1>2. ASSUME NEW i \in 1..Len(r) PROVE CanApply(rf, c, SubSeq(r, 1, i - 1), r[i])
  <2>1. CASE i = Len(r)
    <3>1. SubSeq(r, 1, i - 1) = q
      BY <1>1, <2>1
    <3> QED
      BY <1>1, <2>1, <3>1
  <2>2. CASE i # Len(r)
    <3>1. SubSeq(r, 1, i - 1) = SubSeq(q, 1, i - 1) /\ r[i] = q[i] /\ i \in 1..Len(q)
      BY <1>1, <2>2
    <3> QED
      BY <3>1 DEF AllApply
  <2> QED
    BY <2>1, <2>2
<1> QED
  BY <1>2 DEF AllApply

\* A prefix of a prefix.
LEMMA PrefixPrefix ==
  ASSUME NEW S, NEW c \in Seq(S), NEW n \in Nat, n <= Len(c), NEW m \in Nat, m <= n
  PROVE  SubSeq(SubSeq(c, 1, n), 1, m) = SubSeq(c, 1, m)
OBVIOUS

\* What came before was built block by block, too.
LEMMA GoodPrefix ==
  ASSUME NEW rf, NEW c, Good(rf, c), NEW n \in Nat, n <= Len(c)
  PROVE  Good(rf, SubSeq(c, 1, n))
<1> DEFINE d == SubSeq(c, 1, n)
<1>1. d \in Seq(Block) /\ Len(d) = n /\ \A i \in 1..n : d[i] = c[i]
  BY PrefixOf DEF Good
<1>2. ASSUME NEW m \in 1..n PROVE SubSeq(d, 1, m - 1) = SubSeq(c, 1, m - 1) /\ d[m] = c[m] /\ m \in 1..Len(c)
  <2>1. c \in Seq(Block) /\ m - 1 \in Nat /\ m - 1 <= n /\ Len(c) \in Nat
    BY DEF Good
  <2>2. SubSeq(d, 1, m - 1) = SubSeq(c, 1, m - 1)
    BY <2>1, PrefixPrefix
  <2> QED
    BY <1>1, <2>1, <2>2
<1> HIDE DEF d
<1>3. ASSUME NEW m \in 1..Len(d)
      PROVE  /\ T!ToSet(d[m].txs) \subseteq DOMAIN rf
             /\ d[m] = T!Applied(SubSeq(d, 1, m - 1), d[m].t, d[m].txs)
             /\ d[m].t > T!head_block_time(SubSeq(d, 1, m - 1))
             /\ AllApply(rf, SubSeq(d, 1, m - 1), d[m].txs)
  BY <1>1, <1>2 DEF Good
<1>4. Good(rf, d)
  BY <1>1, <1>3 DEF Good
<1> QED
  BY <1>4 DEF d

\* What _apply_block leaves.
LEMMA AppliedIs ==
  ASSUME NEW c \in Seq(Block), NEW t \in Nat, NEW q \in Seq(Tx)
  PROVE  /\ T!Applied(c, t, q) \in Block
         /\ T!Applied(c, t, q).t = t /\ T!Applied(c, t, q).txs = q
         /\ T!Applied(c, t, q).seen = {x \in T!Seen(c) \cup T!ToSet(q) : t <= Expiration[x]}
<1>1. T!Applied(c, t, q) = [t |-> t, txs |-> q, seen |-> {x \in T!Seen(c) \cup T!ToSet(q) : t <= Expiration[x]}]
  BY DEF T!Applied, T!NotExpired
<1>2. T!Seen(c) \in SUBSET Tx
  BY HeadSays
<1>3. T!ToSet(q) \in SUBSET Tx
  BY PoolOperators
<1> QED
  BY <1>1, <1>2, <1>3 DEF Block

\* A valid block at the end.
LEMMA GoodAppend ==
  ASSUME NEW rf, NEW c, Good(rf, c), NEW t \in Nat, t > T!head_block_time(c), NEW q \in Seq(Tx),
         T!ToSet(q) \subseteq DOMAIN rf, AllApply(rf, c, q)
  PROVE  Good(rf, Append(c, T!Applied(c, t, q)))
<1> DEFINE b == T!Applied(c, t, q)
           d == Append(c, b)
<1>1. c \in Seq(Block) /\ b \in Block /\ b.t = t /\ b.txs = q
  BY AppliedIs DEF Good
<1>2. b = T!Applied(c, t, q)
  OBVIOUS
<1> HIDE DEF b
<1>3. /\ d \in Seq(Block) /\ Len(d) = Len(c) + 1 /\ d[Len(c) + 1] = b /\ Len(c) \in Nat
      /\ SubSeq(d, 1, Len(c)) = c
  BY <1>1
<1>4. ASSUME NEW m \in 1..Len(c) PROVE SubSeq(d, 1, m - 1) = SubSeq(c, 1, m - 1) /\ d[m] = c[m]
  BY <1>1
<1> HIDE DEF d
<1>5. ASSUME NEW m \in 1..Len(d)
      PROVE  /\ T!ToSet(d[m].txs) \subseteq DOMAIN rf
             /\ d[m] = T!Applied(SubSeq(d, 1, m - 1), d[m].t, d[m].txs)
             /\ d[m].t > T!head_block_time(SubSeq(d, 1, m - 1))
             /\ AllApply(rf, SubSeq(d, 1, m - 1), d[m].txs)
  <2>1. CASE m = Len(c) + 1
    <3>1. d[m] = b /\ SubSeq(d, 1, m - 1) = c
      BY <1>3, <2>1
    <3> QED
      BY <1>1, <1>2, <3>1
  <2>2. CASE m # Len(c) + 1
    <3>1. m \in 1..Len(c)
      BY <1>3, <2>2
    <3> QED
      BY <1>4, <3>1 DEF Good
  <2> QED
    BY <2>1, <2>2
<1>6. Good(rf, d)
  BY <1>3, <1>5 DEF Good
<1> QED
  BY <1>6 DEF b, d

\* What Good says of a block, and of the head before it.
LEMMA GoodBlock ==
  ASSUME NEW rf, NEW c, Good(rf, c), NEW n \in 1..Len(c)
  PROVE  LET d == SubSeq(c, 1, n - 1) IN
         /\ c[n] \in Block /\ c[n].t \in Nat /\ c[n].txs \in Seq(Tx) /\ T!ToSet(c[n].txs) \in SUBSET Tx
         /\ d \in Seq(Block) /\ Len(d) = n - 1 /\ Good(rf, d)
         /\ c[n].seen = {x \in T!Seen(d) \cup T!ToSet(c[n].txs) : c[n].t <= Expiration[x]}
         /\ n > 1 => /\ T!head_block_time(d) = c[n - 1].t /\ T!Seen(d) = c[n - 1].seen
                     /\ d # <<>> /\ c[n - 1].t \in Nat
         /\ c[n].t > T!head_block_time(d) /\ AllApply(rf, d, c[n].txs)
<1> DEFINE d == SubSeq(c, 1, n - 1)
<1>1. c \in Seq(Block) /\ n - 1 \in Nat /\ n - 1 <= Len(c) /\ Len(c) \in Nat
  BY DEF Good
<1>2. c[n] \in Block /\ (n > 1 => c[n - 1] \in Block)
  BY <1>1
<1>3. c[n].t \in Nat /\ c[n].txs \in Seq(Tx) /\ (n > 1 => c[n - 1].t \in Nat)
  BY <1>2 DEF Block
<1>4. d \in Seq(Block) /\ Len(d) = n - 1 /\ Good(rf, d) /\ (n > 1 => d[n - 1] = c[n - 1] /\ d # <<>>)
  BY <1>1, GoodPrefix, PrefixOf
<1>5. c[n] = T!Applied(d, c[n].t, c[n].txs) /\ c[n].t > T!head_block_time(d) /\ AllApply(rf, d, c[n].txs)
  BY DEF Good
<1> HIDE DEF d
<1>6. c[n].seen = {x \in T!Seen(d) \cup T!ToSet(c[n].txs) : c[n].t <= Expiration[x]}
  BY <1>3, <1>4, <1>5, AppliedIs
<1>7. n > 1 => T!head_block_time(d) = c[n - 1].t /\ T!Seen(d) = c[n - 1].seen
  BY <1>4, HeadSays
<1>8. T!ToSet(c[n].txs) \in SUBSET Tx
  BY <1>3, PoolOperators
<1> QED
  BY <1>2, <1>3, <1>4, <1>5, <1>6, <1>7, <1>8 DEF d

\* Until it expires, a transaction is in the duplicate index.
LEMMA Remembered ==
  ASSUME T!PoolAssumption, NEW rf, NEW c, Good(rf, c), NEW m \in 1..Len(c), NEW n \in m..Len(c),
         NEW x \in T!ToSet(c[m].txs), c[n].t <= Expiration[x]
  PROVE  x \in c[n].seen
<1> DEFINE X == {i \in m..Len(c) : c[i].t <= Expiration[x] /\ x \notin c[i].seen}
<1>1. Len(c) \in Nat
  BY DEF Good
<1>2. ASSUME X # {} PROVE FALSE
  <2>1. PICK i \in X : \A y \in X : i <= y
    <3>1. X \subseteq Nat
      BY <1>1
    <3> HIDE DEF X
    <3> QED
      BY <1>2, <3>1, LeastNumber
  <2>2. i \in m..Len(c) /\ i \in 1..Len(c) /\ c[i].t <= Expiration[x] /\ x \notin c[i].seen
    BY <1>1, <2>1
  <2> DEFINE d == SubSeq(c, 1, i - 1)
  <2>3. /\ c[i].seen = {y \in T!Seen(d) \cup T!ToSet(c[i].txs) : c[i].t <= Expiration[y]}
        /\ c[i].t \in Nat
        /\ i > 1 => /\ T!head_block_time(d) = c[i - 1].t /\ T!Seen(d) = c[i - 1].seen
                    /\ c[i - 1].t \in Nat
        /\ c[i].t > T!head_block_time(d)
    BY <2>2, GoodBlock
  <2> HIDE DEF d
  <2>4. CASE i = m
    BY <2>2, <2>3, <2>4
  <2>5. CASE i # m
    <3>1. i - 1 \in m..Len(c) /\ i > 1 /\ i - 1 < i
      BY <1>1, <2>2, <2>5
    <3>2. Expiration[x] \in Nat
      <4>1. x \in Tx
        BY GoodBlock
      <4> QED
        BY <4>1 DEF T!PoolAssumption
    <3>3. c[i - 1].t <= Expiration[x]
      BY <2>2, <2>3, <3>1, <3>2
    <3>4. x \in c[i - 1].seen
      BY <2>1, <3>1, <3>3
    <3> QED
      BY <2>2, <2>3, <3>1, <3>4
  <2> QED
    BY <2>4, <2>5
<1> QED
  BY <1>2

\* No transaction is in two blocks, or twice in one.
LEMMA OnceInBlocks ==
  ASSUME T!PoolAssumption, NEW rf, NEW c, Good(rf, c), NEW n \in 1..Len(c)
  PROVE  /\ \A i, j \in 1..Len(c[n].txs) : c[n].txs[i] = c[n].txs[j] => i = j
         /\ \A m \in 1..(n - 1) : T!ToSet(c[m].txs) \cap T!ToSet(c[n].txs) = {}
<1> DEFINE d == SubSeq(c, 1, n - 1)
           q == c[n].txs
<1>1. /\ q \in Seq(Tx) /\ AllApply(rf, d, q)
      /\ n > 1 => d # <<>> /\ T!head_block_time(d) = c[n - 1].t /\ T!Seen(d) = c[n - 1].seen
  <2>1. q \in Seq(Tx) /\ AllApply(rf, d, q)
    BY GoodBlock
  <2>2. n > 1 => d # <<>>
    BY GoodBlock
  <2>3. n > 1 => T!head_block_time(d) = c[n - 1].t
    BY GoodBlock
  <2>4. n > 1 => T!Seen(d) = c[n - 1].seen
    BY GoodBlock
  <2> QED
    BY <2>1, <2>2, <2>3, <2>4
<1> HIDE DEF d
<1>2. ASSUME NEW i \in 1..Len(q)
      PROVE  /\ q[i] \notin T!Seen(d) /\ q[i] \notin T!ToSet(SubSeq(q, 1, i - 1))
             /\ d # <<>> => T!head_block_time(d) <= Expiration[q[i]]
  BY <1>1 DEF AllApply, CanApply
<1>3. ASSUME NEW i \in 1..Len(q), NEW j \in 1..Len(q), i < j PROVE q[i] # q[j]
  <2> HIDE DEF q
  <2>1. SubSeq(q, 1, j - 1) \in Seq(Tx) /\ Len(SubSeq(q, 1, j - 1)) = j - 1 /\ SubSeq(q, 1, j - 1)[i] = q[i]
    BY <1>1, <1>3
  <2>2. q[i] \in T!ToSet(SubSeq(q, 1, j - 1))
    <3>1. i \in DOMAIN SubSeq(q, 1, j - 1)
      BY <1>1, <1>3, <2>1
    <3> QED
      BY <2>1, <3>1, PoolOperators
  <2> QED
    BY <1>2, <2>2
<1>4. \A i, j \in 1..Len(q) : q[i] = q[j] => i = j
  <2> TAKE i, j \in 1..Len(q)
  <2>1. i \in Int /\ j \in Int
    OBVIOUS
  <2>2. (i < j => q[i] # q[j]) /\ (j < i => q[j] # q[i])
    BY <1>3
  <2> QED
    BY <2>1, <2>2
<1>5. ASSUME NEW m \in 1..(n - 1), NEW x \in T!ToSet(c[m].txs), x \in T!ToSet(q) PROVE FALSE
  <2>1. PICK i \in 1..Len(q) : x = q[i]
    BY <1>1, <1>5, PoolOperators
  <2>2. Len(c) \in Nat
    BY DEF Good
  <2>3. n > 1 /\ m \in 1..Len(c) /\ n - 1 \in m..Len(c)
    BY <2>2
  <2>4. c[n - 1].t <= Expiration[x]
    BY <1>1, <1>2, <2>1, <2>3
  <2>5. x \in c[n - 1].seen
    BY <2>3, <2>4, Remembered
  <2> QED
    BY <1>1, <1>2, <2>1, <2>3, <2>5
<1> QED
  BY <1>4, <1>5

\* What AppliedOnce says.
LEMMA GoodOnce ==
  ASSUME T!PoolAssumption, NEW rf, NEW c, Good(rf, c)
  PROVE  T!IsInjective(T!TxsOf(c))
<1> DEFINE a(m) == T!TxsOf(SubSeq(c, 1, m))
           P(m) == \A i, j \in 1..Len(a(m)) : a(m)[i] = a(m)[j] => i = j
           X == {m \in 0..Len(c) : ~P(m)}
<1>1. c \in Seq(Block) /\ Len(c) \in Nat /\ SubSeq(c, 1, Len(c)) = c /\ SubSeq(c, 1, 0) = <<>>
  BY DEF Good
<1>2. \A b \in Block : b.txs \in Seq(Tx)
  BY DEF Block
<1>3. ASSUME NEW m \in 0..Len(c)
      PROVE  a(m) \in Seq(Tx) /\ \A x : x \in T!ToSet(a(m)) <=> \E k \in 1..m : x \in T!ToSet(c[k].txs)
  <2> DEFINE d == SubSeq(c, 1, m)
  <2>1. d \in Seq(Block) /\ Len(d) = m /\ \A k \in 1..m : d[k] = c[k]
    BY <1>1, PrefixOf
  <2> HIDE DEF d
  <2>2. T!TxsOf(d) \in Seq(Tx) /\ \A x : x \in T!ToSet(T!TxsOf(d)) <=> \E k \in 1..m : x \in T!ToSet(c[k].txs)
    BY <1>2, <2>1, TxsMembers
  <2> QED
    BY <2>2 DEF d
<1>4. P(0)
  <2>1. a(0) = <<>>
    BY <1>1, TxsSteps
  <2> QED
    BY <2>1
<1>5. ASSUME NEW m \in 1..Len(c), P(m - 1) PROVE P(m)
  <2> DEFINE q == c[m].txs
             u == a(m - 1)
             v == a(m)
  <2>1. v = u \o q
    BY <1>1, TxsSteps
  <2>2. q \in Seq(Tx) /\ \A i, j \in 1..Len(q) : q[i] = q[j] => i = j
    BY OnceInBlocks, GoodBlock
  <2>3. m - 1 \in 0..Len(c)
    OBVIOUS
  <2>4. u \in Seq(Tx) /\ \A x : x \in T!ToSet(u) <=> \E k \in 1..(m - 1) : x \in T!ToSet(c[k].txs)
    BY <1>3, <2>3
  <2>5. T!ToSet(u) \cap T!ToSet(q) = {}
    BY <2>4, OnceInBlocks
  <2>6. \A i, j \in 1..Len(u) : u[i] = u[j] => i = j
    BY <1>5
  <2> HIDE DEF q, u, v, a
  <2>7. /\ v \in Seq(Tx) /\ Len(v) = Len(u) + Len(q) /\ Len(u) \in Nat /\ Len(q) \in Nat
        /\ \A i \in 1..Len(v) : v[i] = IF i <= Len(u) THEN u[i] ELSE q[i - Len(u)]
    BY <2>1, <2>2, <2>4
  <2>8. (\A i \in 1..Len(u) : u[i] \in T!ToSet(u)) /\ (\A i \in 1..Len(q) : q[i] \in T!ToSet(q))
    BY <2>2, <2>4, PoolOperators
  <2>9. \A i, j \in 1..Len(v) : v[i] = v[j] => i = j
    <3> SUFFICES ASSUME NEW i \in 1..Len(v), NEW j \in 1..Len(v), v[i] = v[j] PROVE i = j
      OBVIOUS
    <3>1. CASE i <= Len(u) /\ j <= Len(u)
      BY <2>6, <2>7, <3>1
    <3>2. CASE i > Len(u) /\ j > Len(u)
      <4>1. i - Len(u) \in 1..Len(q) /\ j - Len(u) \in 1..Len(q) /\ q[i - Len(u)] = q[j - Len(u)]
        BY <2>7, <3>2
      <4>2. i - Len(u) = j - Len(u)
        BY <2>2, <4>1
      <4> QED
        BY <2>7, <4>2
    <3>3. CASE i <= Len(u) /\ j > Len(u)
      <4>1. i \in 1..Len(u) /\ j - Len(u) \in 1..Len(q) /\ u[i] = q[j - Len(u)]
        BY <2>7, <3>3
      <4> QED
        BY <2>5, <2>8, <4>1
    <3>4. CASE i > Len(u) /\ j <= Len(u)
      <4>1. j \in 1..Len(u) /\ i - Len(u) \in 1..Len(q) /\ u[j] = q[i - Len(u)]
        BY <2>7, <3>4
      <4> QED
        BY <2>5, <2>8, <4>1
    <3> QED
      BY <2>7, <3>1, <3>2, <3>3, <3>4
  <2> QED
    BY <2>9 DEF v
<1>6. a(Len(c)) = T!TxsOf(c)
  BY <1>1
<1>7. a(Len(c)) \in Seq(Tx)
  BY <1>1, <1>3
<1> HIDE DEF a
<1> HIDE DEF P
<1>8. ASSUME X # {} PROVE FALSE
  <2>1. PICK m \in X : \A y \in X : m <= y
    <3>1. X \subseteq Nat
      OBVIOUS
    <3> HIDE DEF X
    <3> QED
      BY <1>8, <3>1, LeastNumber
  <2>2. m # 0
    BY <1>4, <2>1
  <2>3. m \in 1..Len(c) /\ m - 1 \in 0..Len(c) /\ m - 1 < m
    BY <1>1, <2>1, <2>2
  <2>4. P(m - 1)
    BY <2>1, <2>3
  <2> QED
    BY <1>5, <2>1, <2>3, <2>4
<1>9. P(Len(c))
  <2>1. Len(c) \in 0..Len(c)
    BY <1>1
  <2> QED
    BY <1>8, <2>1
<1>10. DOMAIN a(Len(c)) = 1..Len(a(Len(c)))
  BY <1>7
<1> QED
  BY <1>6, <1>9, <1>10, PoolOperators DEF P

\* What TaposHonoured says.
LEMMA GoodTapos ==
  ASSUME NEW rf, NEW c, Good(rf, c), NEW n \in 2..Len(c), NEW i \in 1..Len(c[n].txs)
  PROVE  T!IsPrefix(rf[c[n].txs[i]], SubSeq(c, 1, n - 1))
<1> DEFINE d == SubSeq(c, 1, n - 1)
           s == rf[c[n].txs[i]]
           k == Len(s) % Summaries
           nums == {z \in 1..Len(d) : z % Summaries = k}
           l == CHOOSE z \in nums : \A y \in nums : y <= z
<1>1. n \in 1..Len(c) /\ n > 1
  OBVIOUS
<1>2. d \in Seq(Block) /\ d # <<>> /\ AllApply(rf, d, c[n].txs)
  BY <1>1, GoodBlock
<1>3. T!Summary(d, k) = s
  BY <1>2 DEF AllApply, CanApply
<1>4. T!Summary(d, k) = IF nums = {} THEN <<>> ELSE SubSeq(d, 1, l)
  BY DEF T!Summary
<1> HIDE DEF d, s, k
<1>5. CASE nums = {}
  <2>1. s = <<>>
    BY <1>3, <1>4, <1>5
  <2> QED
    BY <1>2, <2>1 DEF T!IsPrefix, d, s
<1>6. CASE nums # {}
  <2>1. nums \subseteq Nat /\ IsFiniteSet(nums)
    <3>1. IsFiniteSet(1..Len(d))
      BY <1>2, FS_Interval
    <3>2. nums \subseteq 1..Len(d)
      OBVIOUS
    <3> QED
      BY <3>1, <3>2, FS_Subset
  <2>2. \E z \in nums : \A y \in nums : y <= z
    <3> HIDE DEF nums
    <3> QED
      BY <1>6, <2>1, GreatestNumber
  <2>3. l \in 1..Len(d)
    BY <2>2
  <2>4. s = SubSeq(d, 1, l)
    BY <1>3, <1>4, <1>6
  <2> HIDE DEF l
  <2>5. s \in Seq(Block) /\ Len(s) = l /\ SubSeq(s, 1, l) = SubSeq(d, 1, l)
    BY <1>2, <2>3, <2>4
  <2> QED
    BY <1>2, <2>3, <2>5 DEF T!IsPrefix, d, s
<1> QED
  BY <1>5, <1>6

-----------------------------------------------------------------------------
(* The pool of transactions: lists in which what is needed comes first.    *)

\* What a transaction of q needs is in S or before it in q.
Ordered(S, q) ==
  \A j \in 1..Len(q) : \A x \in Needs[q[j]] : x \in S \/ \E i \in 1..(j - 1) : q[i] = x

\* One list after another.
LEMMA OrderedConcat ==
  ASSUME NEW S, NEW q \in Seq(Tx), NEW r \in Seq(Tx), Ordered(S, q), Ordered(S \cup T!ToSet(q), r)
  PROVE  Ordered(S, q \o r)
<1> DEFINE s == q \o r
<1>1. /\ s \in Seq(Tx) /\ Len(s) = Len(q) + Len(r) /\ Len(q) \in Nat /\ Len(r) \in Nat
      /\ \A i \in 1..Len(q) : s[i] = q[i]
      /\ \A i \in 1..Len(r) : s[Len(q) + i] = r[i]
  OBVIOUS
<1> HIDE DEF s
<1>2. ASSUME NEW j \in 1..Len(s), NEW x \in Needs[s[j]], x \notin S PROVE \E i \in 1..(j - 1) : s[i] = x
  <2>1. CASE j <= Len(q)
    <3>1. j \in 1..Len(q) /\ s[j] = q[j]
      BY <1>1, <2>1
    <3>2. PICK i \in 1..(j - 1) : q[i] = x
      BY <1>2, <3>1 DEF Ordered
    <3>3. s[i] = x
      BY <1>1, <2>1, <3>2
    <3> QED
      BY <3>3
  <2>2. CASE ~(j <= Len(q))
    <3> DEFINE l == j - Len(q)
    <3>1. l \in 1..Len(r) /\ j = Len(q) + l
      BY <1>1, <2>2
    <3>2. s[j] = r[l]
      BY <1>1, <3>1
    <3>3. x \in T!ToSet(q) \/ \E i \in 1..(l - 1) : r[i] = x
      <4> HIDE DEF l
      <4> QED
        BY <1>2, <3>1, <3>2 DEF Ordered
    <3>4. CASE x \in T!ToSet(q)
      <4>1. PICK i \in 1..Len(q) : q[i] = x
        BY <3>4, PoolOperators
      <4>2. i \in 1..(j - 1) /\ s[i] = x
        BY <1>1, <2>2, <4>1
      <4> QED
        BY <4>2
    <3>5. CASE \E i \in 1..(l - 1) : r[i] = x
      <4>1. PICK i \in 1..(l - 1) : r[i] = x
        BY <3>5
      <4>2. i \in 1..Len(r) /\ Len(q) + i \in 1..(j - 1)
        BY <1>1, <3>1
      <4>3. s[Len(q) + i] = x
        BY <1>1, <4>1, <4>2
      <4> QED
        BY <4>2, <4>3
    <3> QED
      BY <3>3, <3>4, <3>5
  <2> QED
    BY <2>1, <2>2
<1>3. Ordered(S, s)
  BY <1>2 DEF Ordered
<1> QED
  BY <1>3 DEF s

\* Fewer are missing where more was done.
LEMMA OrderedMore ==
  ASSUME NEW S, NEW R, S \subseteq R, NEW q, Ordered(S, q)
  PROVE  Ordered(R, q)
BY DEF Ordered

\* What can be applied in order is in order.
LEMMA AppliedOrdered ==
  ASSUME NEW rf, NEW c, NEW q \in Seq(Tx), AllApply(rf, c, q)
  PROVE  Ordered(T!ToSet(T!TxsOf(c)), q)
<1> SUFFICES ASSUME NEW j \in 1..Len(q), NEW x \in Needs[q[j]], x \notin T!ToSet(T!TxsOf(c))
             PROVE  \E i \in 1..(j - 1) : q[i] = x
  BY DEF Ordered
<1> DEFINE s == SubSeq(q, 1, j - 1)
<1>1. Needs[q[j]] \subseteq T!ToSet(T!TxsOf(c)) \cup T!ToSet(s)
  BY DEF AllApply, CanApply
<1>2. s \in Seq(Tx) /\ Len(s) = j - 1 /\ \A i \in 1..(j - 1) : s[i] = q[i]
  BY PrefixOf
<1> HIDE DEF s
<1>3. x \in T!ToSet(s)
  BY <1>1
<1>4. PICK i \in 1..Len(s) : s[i] = x
  BY <1>2, <1>3, PoolOperators
<1> QED
  BY <1>2, <1>4

\* The transactions of a list of blocks, each in order after the ones before it.
LEMMA BlocksOrdered ==
  ASSUME NEW R, \A b \in R : b.txs \in Seq(Tx), NEW q \in Seq(R), NEW S,
         \A i \in 1..Len(q) : Ordered(S \cup T!ToSet(T!TxsOf(SubSeq(q, 1, i - 1))), q[i].txs)
  PROVE  Ordered(S, T!TxsOf(q))
<1> DEFINE P(m) == Ordered(S, T!TxsOf(SubSeq(q, 1, m)))
           X == {m \in 0..Len(q) : ~P(m)}
<1>1. Len(q) \in Nat /\ SubSeq(q, 1, Len(q)) = q /\ SubSeq(q, 1, 0) = <<>>
  OBVIOUS
<1>2. P(0)
  <2>1. T!TxsOf(SubSeq(q, 1, 0)) = <<>>
    BY <1>1, TxsSteps
  <2> QED
    BY <2>1 DEF Ordered
<1>3. ASSUME NEW m \in 1..Len(q), P(m - 1) PROVE P(m)
  <2> DEFINE a == T!TxsOf(SubSeq(q, 1, m - 1))
  <2>1. T!TxsOf(SubSeq(q, 1, m)) = a \o q[m].txs
    BY TxsSteps
  <2>2. q[m].txs \in Seq(Tx)
    OBVIOUS
  <2>3. a \in Seq(Tx)
    <3> DEFINE d == SubSeq(q, 1, m - 1)
    <3>1. d \in Seq(R)
      BY PrefixOf
    <3> HIDE DEF d
    <3>2. T!TxsOf(d) \in Seq(Tx)
      BY <3>1, TxsMembers
    <3> QED
      BY <3>2 DEF d
  <2>4. Ordered(S \cup T!ToSet(a), q[m].txs) /\ Ordered(S, a)
    BY <1>3
  <2> HIDE DEF a
  <2>5. Ordered(S, a \o q[m].txs)
    BY <2>2, <2>3, <2>4, OrderedConcat
  <2> QED
    BY <2>1, <2>5
<1> HIDE DEF P
<1>4. ASSUME X # {} PROVE FALSE
  <2>1. PICK m \in X : \A y \in X : m <= y
    <3>1. X \subseteq Nat
      OBVIOUS
    <3> HIDE DEF X
    <3> QED
      BY <1>4, <3>1, LeastNumber
  <2>2. m # 0
    BY <1>2, <2>1
  <2>3. m \in 1..Len(q) /\ m - 1 \in 0..Len(q) /\ m - 1 < m
    BY <1>1, <2>1, <2>2
  <2>4. P(m - 1)
    BY <2>1, <2>3
  <2> QED
    BY <1>3, <2>1, <2>3, <2>4
<1>5. P(Len(q))
  <2>1. Len(q) \in 0..Len(q)
    BY <1>1
  <2> QED
    BY <1>4, <2>1
<1> QED
  BY <1>1, <1>5 DEF P

\* The transactions of the last blocks of a chain, as switch_forks remembers them.
LEMMA PoppedOrdered ==
  ASSUME NEW rf, NEW c, Good(rf, c), NEW m \in 0..Len(c)
  PROVE  LET base == SubSeq(c, 1, m)
             part == SubSeq(c, m + 1, Len(c))
         IN  /\ T!TxsOf(part) \in Seq(Tx) /\ T!ToSet(T!TxsOf(part)) \subseteq DOMAIN rf
             /\ T!ToSet(T!TxsOf(c)) = T!ToSet(T!TxsOf(base)) \cup T!ToSet(T!TxsOf(part))
             /\ Ordered(T!ToSet(T!TxsOf(base)), T!TxsOf(part))
<1> DEFINE base == SubSeq(c, 1, m)
           part == SubSeq(c, m + 1, Len(c))
           S == T!ToSet(T!TxsOf(base))
<1>1. c \in Seq(Block) /\ Len(c) \in Nat /\ m \in Nat /\ m <= Len(c)
  BY DEF Good
<1>2. \A b \in Block : b.txs \in Seq(Tx)
  BY DEF Block
<1>3. base \in Seq(Block) /\ Len(base) = m /\ \A i \in 1..m : base[i] = c[i]
  BY <1>1, PrefixOf
<1>4. part \in Seq(Block) /\ Len(part) = Len(c) - m /\ \A i \in 1..(Len(c) - m) : part[i] = c[m + i]
  BY <1>1
<1> HIDE DEF base, part
<1>5. /\ \A x : x \in T!ToSet(T!TxsOf(c)) <=> \E n \in 1..Len(c) : x \in T!ToSet(c[n].txs)
      /\ \A x : x \in S <=> \E n \in 1..m : x \in T!ToSet(c[n].txs)
      /\ \A x : x \in T!ToSet(T!TxsOf(part)) <=> \E n \in 1..(Len(c) - m) : x \in T!ToSet(c[m + n].txs)
      /\ T!TxsOf(part) \in Seq(Tx)
  <2>1. \A x : x \in T!ToSet(T!TxsOf(c)) <=> \E n \in 1..Len(c) : x \in T!ToSet(c[n].txs)
    BY <1>1, <1>2, TxsMembers
  <2>2. \A x : x \in S <=> \E n \in 1..m : x \in T!ToSet(c[n].txs)
    BY <1>2, <1>3, TxsMembers
  <2>3. /\ T!TxsOf(part) \in Seq(Tx)
        /\ \A x : x \in T!ToSet(T!TxsOf(part)) <=> \E n \in 1..(Len(c) - m) : x \in T!ToSet(part[n].txs)
    BY <1>2, <1>4, TxsMembers
  <2> QED
    BY <1>4, <2>1, <2>2, <2>3
<1>6. T!ToSet(T!TxsOf(c)) = S \cup T!ToSet(T!TxsOf(part))
  <2>1. ASSUME NEW x, NEW n \in 1..Len(c), x \in T!ToSet(c[n].txs) PROVE x \in S \cup T!ToSet(T!TxsOf(part))
    <3>1. CASE n <= m
      BY <1>5, <2>1, <3>1
    <3>2. CASE ~(n <= m)
      <4>1. n - m \in 1..(Len(c) - m) /\ m + (n - m) = n
        BY <1>1, <3>2
      <4> QED
        BY <1>5, <2>1, <4>1
    <3> QED
      BY <3>1, <3>2
  <2>2. (\A n \in 1..m : n \in 1..Len(c)) /\ (\A n \in 1..(Len(c) - m) : m + n \in 1..Len(c))
    BY <1>1
  <2>3. \A x : x \in S => x \in T!ToSet(T!TxsOf(c))
    BY <1>5, <2>2
  <2>4. \A x : x \in T!ToSet(T!TxsOf(part)) => x \in T!ToSet(T!TxsOf(c))
    BY <1>5, <2>2
  <2>5. \A x : x \in T!ToSet(T!TxsOf(c)) => x \in S \cup T!ToSet(T!TxsOf(part))
    BY <1>5, <2>1
  <2> HIDE DEF S
  <2> QED
    BY <2>3, <2>4, <2>5
<1>7. T!ToSet(T!TxsOf(part)) \subseteq DOMAIN rf
  <2>1. \A n \in 1..(Len(c) - m) : m + n \in 1..Len(c)
    BY <1>1
  <2> QED
    BY <1>5, <2>1 DEF Good
<1>8. ASSUME NEW i \in 1..Len(part) PROVE Ordered(S \cup T!ToSet(T!TxsOf(SubSeq(part, 1, i - 1))), part[i].txs)
  <2> DEFINE d == SubSeq(c, 1, (m + i) - 1)
             e == SubSeq(part, 1, i - 1)
  <2>1. m + i \in 1..Len(c) /\ part[i] = c[m + i]
    BY <1>1, <1>4
  <2>2. d \in Seq(Block) /\ Len(d) = m + i - 1 /\ AllApply(rf, d, c[m + i].txs) /\ c[m + i].txs \in Seq(Tx)
    BY <2>1, GoodBlock
  <2>3. Ordered(T!ToSet(T!TxsOf(d)), c[m + i].txs)
    BY <2>2, AppliedOrdered
  <2>4. \A n \in 1..(m + i - 1) : d[n] = c[n]
    BY <1>1, <2>1, PrefixOf
  <2>5. e \in Seq(Block) /\ Len(e) = i - 1 /\ \A n \in 1..(i - 1) : e[n] = c[m + n]
    <3>1. e \in Seq(Block) /\ Len(e) = i - 1 /\ \A n \in 1..(i - 1) : e[n] = part[n]
      BY <1>4, PrefixOf
    <3> QED
      BY <1>1, <1>4, <3>1
  <2> HIDE DEF d, e
  <2>6. /\ \A x : x \in T!ToSet(T!TxsOf(d)) <=> \E n \in 1..(m + i - 1) : x \in T!ToSet(c[n].txs)
        /\ \A x : x \in T!ToSet(T!TxsOf(e)) <=> \E n \in 1..(i - 1) : x \in T!ToSet(c[m + n].txs)
    <3>1. \A x : x \in T!ToSet(T!TxsOf(d)) <=> \E n \in 1..(m + i - 1) : x \in T!ToSet(d[n].txs)
      BY <1>2, <2>2, TxsMembers
    <3>2. \A x : x \in T!ToSet(T!TxsOf(e)) <=> \E n \in 1..(i - 1) : x \in T!ToSet(e[n].txs)
      BY <1>2, <2>5, TxsMembers
    <3> QED
      BY <2>4, <2>5, <3>1, <3>2
  <2>7. T!ToSet(T!TxsOf(d)) \subseteq S \cup T!ToSet(T!TxsOf(e))
    <3>1. ASSUME NEW x, NEW n \in 1..(m + i - 1), x \in T!ToSet(c[n].txs) PROVE x \in S \cup T!ToSet(T!TxsOf(e))
      <4>1. CASE n <= m
        BY <1>5, <3>1, <4>1
      <4>2. CASE ~(n <= m)
        <5>1. n - m \in 1..(i - 1) /\ m + (n - m) = n
          BY <1>1, <4>2
        <5> QED
          BY <2>6, <3>1, <5>1
      <4> QED
        BY <4>1, <4>2
    <3> QED
      BY <2>6, <3>1
  <2>8. Ordered(S \cup T!ToSet(T!TxsOf(e)), c[m + i].txs)
    BY <2>3, <2>7, OrderedMore
  <2> QED
    BY <2>1, <2>8 DEF e
<1>9. Ordered(S, T!TxsOf(part))
  <2> HIDE DEF S
  <2> QED
    BY <1>2, <1>4, <1>8, BlocksOrdered
<1> QED
  BY <1>5, <1>6, <1>7, <1>9 DEF base, part

-----------------------------------------------------------------------------
(* The pool of transactions: the restorer, block generation and branches.  *)

\* What happened to the first i members of q when they were pushed again, one by one.
Pushed(H, rf, c, q) ==
  /\ H[0] = <<>>
  /\ \A i \in 1..Len(q) : H[i] = IF CanApply(rf, c, H[i - 1], q[i]) THEN Append(H[i - 1], q[i]) ELSE H[i - 1]

\* Restored is the end of that.
LEMMA RestoredIs ==
  ASSUME NEW c, NEW u \in Seq(Tx), NEW v \in Seq(Tx)
  PROVE  \E H : Pushed(H, ref, c, u \o v) /\ H[Len(u \o v)] = T!Restored(c, u, v)
<1> DEFINE q == u \o v
<1>1. q \in Seq(Tx)
  OBVIOUS
<1>2. q = u \o v
  OBVIOUS
<1> HIDE DEF q
<1>3. PICK H : Trace(H, "restored", c, <<>>, q) /\ H[Len(q)] = T!Restored(c, u, v)
  <2>1. \A a, b : q = a \o b => \E H : Trace(H, "restored", c, <<>>, q) /\ H[Len(q)] = T!Restored(c, a, b)
    BY <1>1, PoolTraces
  <2> QED
    BY <1>2, <2>1, Zenon
<1>4. ASSUME NEW i \in 1..Len(q)
      PROVE  H[i] = IF CanApply(ref, c, H[i - 1], q[i]) THEN Append(H[i - 1], q[i]) ELSE H[i - 1]
  <2> DEFINE a == H[i - 1]
             x == q[i]
  <2>1. H[i] = StepOf("restored", c, a, x)
    BY <1>3 DEF Trace
  <2> HIDE DEF a, x
  <2>2. StepOf("restored", c, a, x) = IF T!_apply_transaction(c, a, x) THEN Append(a, x) ELSE a
    BY DEF StepOf
  <2>3. H[i] = IF CanApply(ref, c, a, x) THEN Append(a, x) ELSE a
    BY <2>1, <2>2, AppliesIs
  <2> QED
    BY <2>3 DEF a, x
<1>5. Pushed(H, ref, c, q)
  BY <1>3, <1>4 DEF Pushed, Trace
<1> QED
  BY <1>2, <1>3, <1>5

\* Members of a list with one more.
LEMMA OneMore ==
  ASSUME NEW q \in Seq(Tx), NEW x \in Tx
  PROVE  Append(q, x) \in Seq(Tx) /\ T!ToSet(Append(q, x)) = T!ToSet(q) \cup {x}
BY InLists

\* What has been pushed again can be applied, and comes from the list.
LEMMA PushedApplies ==
  ASSUME NEW H, NEW rf, NEW c, NEW q \in Seq(Tx), Pushed(H, rf, c, q), NEW n \in 0..Len(q)
  PROVE  H[n] \in Seq(Tx) /\ AllApply(rf, c, H[n]) /\ T!ToSet(H[n]) \subseteq T!ToSet(q)
<1> DEFINE P(i) == H[i] \in Seq(Tx) /\ AllApply(rf, c, H[i]) /\ T!ToSet(H[i]) \subseteq T!ToSet(q)
           X == {i \in 0..Len(q) : ~P(i)}
<1>1. P(0)
  <2>1. H[0] = <<>>
    BY DEF Pushed
  <2> QED
    BY <2>1, PoolOperators DEF AllApply
<1>2. ASSUME NEW i \in 1..Len(q), P(i - 1) PROVE P(i)
  <2>1. CASE CanApply(rf, c, H[i - 1], q[i])
    <3>1. H[i] = Append(H[i - 1], q[i])
      BY <2>1 DEF Pushed
    <3>2. q[i] \in Tx /\ q[i] \in T!ToSet(q)
      BY PoolOperators
    <3>3. AllApply(rf, c, H[i])
      BY <1>2, <2>1, <3>1, <3>2, AllAppend
    <3>4. H[i] \in Seq(Tx) /\ T!ToSet(H[i]) = T!ToSet(H[i - 1]) \cup {q[i]}
      BY <1>2, <3>1, <3>2, OneMore
    <3> QED
      BY <1>2, <3>2, <3>3, <3>4
  <2>2. CASE ~CanApply(rf, c, H[i - 1], q[i])
    <3>1. H[i] = H[i - 1]
      BY <2>2 DEF Pushed
    <3> QED
      BY <1>2, <3>1
  <2> QED
    BY <2>1, <2>2
<1> HIDE DEF P
<1>3. ASSUME X # {} PROVE FALSE
  <2>1. PICK m \in X : \A y \in X : m <= y
    <3>1. X \subseteq Nat
      OBVIOUS
    <3> HIDE DEF X
    <3> QED
      BY <1>3, <3>1, LeastNumber
  <2>2. m # 0
    BY <1>1, <2>1
  <2>3. m \in 1..Len(q) /\ m - 1 \in 0..Len(q) /\ m - 1 < m
    BY <2>1, <2>2
  <2>4. P(m - 1)
    BY <2>1, <2>3
  <2> QED
    BY <1>2, <2>1, <2>3, <2>4
<1>4. P(n)
  BY <1>3
<1> QED
  BY <1>4 DEF P

\* x was pushed again at one of the places m + 1 to n.
Came(H, rf, c, q, m, n, x) == \E k \in (m + 1)..n : q[k] = x /\ CanApply(rf, c, H[k - 1], x)

\* Nothing is taken back, and what comes later came as a member of the list.
LEMMA PushedGrows ==
  ASSUME NEW H, NEW rf, NEW c, NEW q \in Seq(Tx), Pushed(H, rf, c, q),
         NEW m \in 0..Len(q), NEW n \in m..Len(q)
  PROVE  /\ T!ToSet(H[m]) \subseteq T!ToSet(H[n])
         /\ \A x \in T!ToSet(H[n]) \ T!ToSet(H[m]) : Came(H, rf, c, q, m, n, x)
<1> DEFINE P(i) == /\ T!ToSet(H[m]) \subseteq T!ToSet(H[i])
                   /\ \A x \in T!ToSet(H[i]) \ T!ToSet(H[m]) :
                        \E k \in (m + 1)..i : q[k] = x /\ CanApply(rf, c, H[k - 1], x)
           X == {i \in m..Len(q) : ~P(i)}
<1>1. P(m)
  OBVIOUS
<1>2. ASSUME NEW i \in (m + 1)..Len(q), P(i - 1) PROVE P(i)
  <2>1. i \in 1..Len(q) /\ i - 1 \in 0..Len(q) /\ q[i] \in Tx
    OBVIOUS
  <2>2. CASE CanApply(rf, c, H[i - 1], q[i])
    <3>1. H[i] = Append(H[i - 1], q[i])
      BY <2>1, <2>2 DEF Pushed
    <3>2. T!ToSet(H[i]) = T!ToSet(H[i - 1]) \cup {q[i]}
      BY <2>1, <3>1, PushedApplies, OneMore
    <3>3. ASSUME NEW x \in T!ToSet(H[i]) \ T!ToSet(H[m])
          PROVE  \E k \in (m + 1)..i : q[k] = x /\ CanApply(rf, c, H[k - 1], x)
      <4>1. CASE x = q[i]
        <5>1. i \in (m + 1)..i
          OBVIOUS
        <5> QED
          BY <2>2, <4>1, <5>1
      <4>2. CASE x # q[i]
        <5>1. PICK k \in (m + 1)..(i - 1) : q[k] = x /\ CanApply(rf, c, H[k - 1], x)
          BY <1>2, <3>2, <4>2
        <5>2. k \in (m + 1)..i
          BY <5>1
        <5> QED
          BY <5>1, <5>2
      <4> QED
        BY <4>1, <4>2
    <3> QED
      BY <1>2, <3>2, <3>3
  <2>3. CASE ~CanApply(rf, c, H[i - 1], q[i])
    <3>1. H[i] = H[i - 1]
      BY <2>1, <2>3 DEF Pushed
    <3>2. ASSUME NEW x \in T!ToSet(H[i]) \ T!ToSet(H[m])
          PROVE  \E k \in (m + 1)..i : q[k] = x /\ CanApply(rf, c, H[k - 1], x)
      <4>1. PICK k \in (m + 1)..(i - 1) : q[k] = x /\ CanApply(rf, c, H[k - 1], x)
        BY <1>2, <3>1
      <4>2. k \in (m + 1)..i
        BY <4>1
      <4> QED
        BY <4>1, <4>2
    <3> QED
      BY <1>2, <3>1, <3>2
  <2> QED
    BY <2>2, <2>3
<1> HIDE DEF P
<1>3. ASSUME X # {} PROVE FALSE
  <2>1. PICK i \in X : \A y \in X : i <= y
    <3>1. X \subseteq Nat
      OBVIOUS
    <3> HIDE DEF X
    <3> QED
      BY <1>3, <3>1, LeastNumber
  <2>2. i # m
    BY <1>1, <2>1
  <2>3. i \in (m + 1)..Len(q) /\ i - 1 \in m..Len(q) /\ i - 1 < i
    BY <2>1, <2>2
  <2>4. P(i - 1)
    BY <2>1, <2>3
  <2> QED
    BY <1>2, <2>1, <2>3, <2>4
<1>4. P(n)
  BY <1>3
<1> QED
  BY <1>4 DEF P, Came

\* If a list is in order, one that did not apply when its turn came never applies later.
LEMMA NeverLater ==
  ASSUME NEW H, NEW rf, NEW c, NEW q \in Seq(Tx), Pushed(H, rf, c, q),
         Ordered(T!ToSet(T!TxsOf(c)), q), NEW j \in 1..Len(q), NEW n \in (j - 1)..Len(q),
         ~CanApply(rf, c, H[j - 1], q[j])
  PROVE  ~CanApply(rf, c, H[n], q[j])
<1> DEFINE X == {i \in 1..Len(q) : ~CanApply(rf, c, H[i - 1], q[i]) /\ \E k \in (i - 1)..Len(q) : CanApply(rf, c, H[k], q[i])}
           S == T!ToSet(T!TxsOf(c))
<1>1. ASSUME NEW m \in 0..Len(q), NEW k \in m..Len(q)
      PROVE  /\ T!ToSet(H[m]) \subseteq T!ToSet(H[k])
             /\ \A y \in T!ToSet(H[k]) \ T!ToSet(H[m]) : Came(H, rf, c, q, m, k, y)
  BY PushedGrows
<1>2. ASSUME X # {} PROVE FALSE
  <2>1. PICK i \in X : \A y \in X : i <= y
    <3>1. X \subseteq Nat
      OBVIOUS
    <3> HIDE DEF X
    <3> QED
      BY <1>2, <3>1, LeastNumber
  <2> DEFINE x == q[i]
  <2>2. i \in 1..Len(q) /\ ~CanApply(rf, c, H[i - 1], x)
    BY <2>1
  <2>3. PICK k \in (i - 1)..Len(q) : CanApply(rf, c, H[k], x)
    BY <2>1
  <2>4. i - 1 \in 0..Len(q) /\ k \in 0..Len(q) /\ Len(q) \in Nat
    BY <2>2, <2>3
  <2>5. /\ T!ToSet(H[i - 1]) \subseteq T!ToSet(H[k])
        /\ \A y \in T!ToSet(H[k]) \ T!ToSet(H[i - 1]) : Came(H, rf, c, q, i - 1, k, y)
    BY <1>1, <2>3, <2>4
  <2>6. PICK y \in Needs[x] : y \notin S \cup T!ToSet(H[i - 1])
    <3>1. ~(Needs[x] \subseteq S \cup T!ToSet(H[i - 1]))
      <4> HIDE DEF x
      <4> QED
        BY <2>2, <2>3, <2>5 DEF CanApply
    <3> QED
      BY <3>1
  <2>7. y \in T!ToSet(H[k])
    <3>1. Needs[x] \subseteq S \cup T!ToSet(H[k])
      BY <2>3 DEF CanApply
    <3> QED
      BY <2>6, <3>1
  <2>8. PICK l \in ((i - 1) + 1)..k : q[l] = y /\ CanApply(rf, c, H[l - 1], y)
    BY <2>5, <2>6, <2>7 DEF Came
  <2>9. PICK z \in 1..(i - 1) : q[z] = y
    BY <2>2, <2>6 DEF Ordered
  <2>10. z \in 1..Len(q) /\ z < i /\ z \in 0..Len(q) /\ i - 1 \in z..Len(q)
    BY <2>2, <2>9
  <2>11. ~CanApply(rf, c, H[z - 1], q[z])
    <3> SUFFICES ASSUME CanApply(rf, c, H[z - 1], q[z]) PROVE FALSE
      OBVIOUS
    <3>1. H[z] = Append(H[z - 1], q[z])
      BY <2>10 DEF Pushed
    <3>2. z - 1 \in 0..Len(q) /\ q[z] \in Tx
      BY <2>10
    <3>3. T!ToSet(H[z]) = T!ToSet(H[z - 1]) \cup {q[z]}
      BY <3>1, <3>2, PushedApplies, OneMore
    <3>4. T!ToSet(H[z]) \subseteq T!ToSet(H[i - 1])
      BY <2>10, PushedGrows
    <3> QED
      BY <2>6, <2>9, <3>3, <3>4
  <2>12. z \in X
    <3>1. l - 1 \in (z - 1)..Len(q) /\ CanApply(rf, c, H[l - 1], q[z])
      BY <2>2, <2>3, <2>4, <2>8, <2>9, <2>10
    <3> QED
      BY <2>10, <2>11, <3>1
  <2> QED
    BY <2>1, <2>10, <2>12
<1> QED
  BY <1>2

\* What pending_transactions_restorer promises.
LEMMA RestoredKeeps ==
  ASSUME NEW c, NEW u \in Seq(Tx), NEW v \in Seq(Tx), Ordered(T!ToSet(T!TxsOf(c)), u \o v)
  PROVE  LET r == T!Restored(c, u, v) IN
         /\ r \in Seq(Tx) /\ AllApply(ref, c, r) /\ T!ToSet(r) \subseteq T!ToSet(u) \cup T!ToSet(v)
         /\ \A x \in T!ToSet(u) \cup T!ToSet(v) : x \in T!ToSet(r) \/ ~CanApply(ref, c, r, x)
<1> DEFINE q == u \o v
           r == T!Restored(c, u, v)
<1>1. q \in Seq(Tx) /\ Ordered(T!ToSet(T!TxsOf(c)), q)
  OBVIOUS
<1>2. PICK H : Pushed(H, ref, c, q) /\ H[Len(q)] = r
  BY RestoredIs
<1>3. T!ToSet(q) = T!ToSet(u) \cup T!ToSet(v)
  <2>1. \A f : T!ToSet(f) = Range(f)
    BY PoolOperators DEF Range
  <2> QED
    BY <2>1, RangeConcat
<1> HIDE DEF q, r
<1>4. Len(q) \in Nat /\ Len(q) \in 0..Len(q)
  BY <1>1
<1>5. r \in Seq(Tx) /\ AllApply(ref, c, r) /\ T!ToSet(r) \subseteq T!ToSet(q)
  BY <1>1, <1>2, <1>4, PushedApplies
<1>6. ASSUME NEW x \in T!ToSet(q) PROVE x \in T!ToSet(r) \/ ~CanApply(ref, c, r, x)
  <2>1. PICK j \in 1..Len(q) : q[j] = x
    BY <1>1, PoolOperators
  <2>2. j - 1 \in 0..Len(q) /\ j \in 0..Len(q) /\ Len(q) \in j..Len(q) /\ Len(q) \in (j - 1)..Len(q) /\ q[j] \in Tx
    BY <1>1, <1>4, <2>1
  <2>3. CASE CanApply(ref, c, H[j - 1], q[j])
    <3>1. H[j] = Append(H[j - 1], q[j])
      BY <1>2, <2>3 DEF Pushed
    <3>2. x \in T!ToSet(H[j])
      BY <1>1, <1>2, <2>1, <2>2, <3>1, PushedApplies, OneMore
    <3>3. T!ToSet(H[j]) \subseteq T!ToSet(r)
      BY <1>1, <1>2, <2>2, PushedGrows
    <3> QED
      BY <3>2, <3>3
  <2>4. CASE ~CanApply(ref, c, H[j - 1], q[j])
    <3>1. ~CanApply(ref, c, H[Len(q)], q[j])
      BY <1>1, <1>2, <2>2, <2>4, NeverLater
    <3> QED
      BY <1>2, <2>1, <3>1
  <2> QED
    BY <2>3, <2>4
<1> QED
  BY <1>3, <1>5, <1>6 DEF r

\* The transactions _generate_block puts in a block can be applied, and were pending.
LEMMA GeneratedApplies ==
  ASSUME T!PoolAssumption, queue \in Seq(Tx)
  PROVE  /\ T!Generated.txs \in Seq(Tx) /\ AllApply(ref, blocks, T!Generated.txs)
         /\ T!ToSet(T!Generated.txs) \subseteq T!ToSet(queue)
<1> DEFINE Acc == [txs : Seq(Tx), size : Nat, failed : SUBSET Tx]
           P(a) == a \in Acc /\ AllApply(ref, blocks, a.txs) /\ T!ToSet(a.txs) \subseteq T!ToSet(queue)
           e == [txs |-> <<>>, size |-> 0, failed |-> {}]
<1>1. PICK H : Trace(H, "generated", blocks, e, queue) /\ H[Len(queue)] = T!Generated
  BY PoolTraces
<1>2. P(e)
  <2>1. e \in Acc /\ e.txs = <<>>
    OBVIOUS
  <2>2. T!ToSet(<<>>) = {} /\ AllApply(ref, blocks, <<>>)
    BY PoolOperators DEF AllApply
  <2> QED
    BY <2>1, <2>2
<1> HIDE DEF e
<1> DEFINE X == {i \in 0..Len(queue) : ~P(H[i])}
<1>3. ASSUME NEW i \in 1..Len(queue), P(H[i - 1]) PROVE P(H[i])
  <2> DEFINE a == H[i - 1]
             x == queue[i]
  <2>1. H[i] = StepOf("generated", blocks, a, x)
    BY <1>1 DEF Trace
  <2>2. P(a) /\ x \in Tx /\ x \in T!ToSet(queue)
    BY <1>3, PoolOperators
  <2> HIDE DEF a, x
  <2>3. StepOf("generated", blocks, a, x) =
          IF a.size + Size[x] > MaxBlockSize THEN a
          ELSE IF ~T!_apply_transaction(blocks, a.txs, x) THEN [a EXCEPT !.failed = @ \cup {x}]
          ELSE [a EXCEPT !.txs = Append(@, x), !.size = @ + Size[x]]
    BY DEF StepOf
  <2>4. a.txs \in Seq(Tx) /\ a.size \in Nat /\ a.failed \in SUBSET Tx /\ Size[x] \in Nat
    BY <2>2 DEF T!PoolAssumption
  <2>5. CASE H[i] = a
    BY <2>2, <2>5
  <2>6. CASE H[i] = [a EXCEPT !.failed = @ \cup {x}]
    <3> DEFINE b == [a EXCEPT !.failed = @ \cup {x}]
    <3>1. b \in Acc /\ b.txs = a.txs
      BY <2>2
    <3> HIDE DEF b
    <3>2. P(b)
      BY <2>2, <3>1
    <3> QED
      BY <2>6, <3>2 DEF b
  <2>7. CASE H[i] = [a EXCEPT !.txs = Append(@, x), !.size = @ + Size[x]] /\ T!_apply_transaction(blocks, a.txs, x)
    <3> DEFINE b == [a EXCEPT !.txs = Append(@, x), !.size = @ + Size[x]]
    <3>1. Append(a.txs, x) \in Seq(Tx) /\ T!ToSet(Append(a.txs, x)) = T!ToSet(a.txs) \cup {x}
      BY <2>2, <2>4, OneMore
    <3>2. a.size + Size[x] \in Nat
      BY <2>4
    <3>3. b \in Acc /\ b.txs = Append(a.txs, x)
      BY <2>2, <3>1, <3>2
    <3> HIDE DEF b
    <3>4. CanApply(ref, blocks, a.txs, x)
      BY <2>7, AppliesIs
    <3>5. AllApply(ref, blocks, b.txs)
      BY <2>2, <2>4, <3>3, <3>4, AllAppend
    <3>6. P(b)
      BY <2>2, <3>1, <3>3, <3>5
    <3> QED
      BY <2>7, <3>6 DEF b
  <2> HIDE DEF P
  <2>8. \/ H[i] = a
        \/ H[i] = [a EXCEPT !.failed = @ \cup {x}]
        \/ H[i] = [a EXCEPT !.txs = Append(@, x), !.size = @ + Size[x]] /\ T!_apply_transaction(blocks, a.txs, x)
    BY <2>1, <2>3
  <2> QED
    BY <2>5, <2>6, <2>7, <2>8
<1>4. H[0] = e
  BY <1>1 DEF Trace
<1> HIDE DEF P
<1>5. ASSUME X # {} PROVE FALSE
  <2>1. PICK m \in X : \A y \in X : m <= y
    <3>1. X \subseteq Nat
      OBVIOUS
    <3> HIDE DEF X
    <3> QED
      BY <1>5, <3>1, LeastNumber
  <2>2. m # 0
    BY <1>2, <1>4, <2>1
  <2>3. m \in 1..Len(queue) /\ m - 1 \in 0..Len(queue) /\ m - 1 < m
    BY <2>1, <2>2
  <2>4. P(H[m - 1])
    BY <2>1, <2>3
  <2> QED
    BY <1>3, <2>1, <2>3, <2>4
<1>6. P(H[Len(queue)])
  <2>1. Len(queue) \in 0..Len(queue)
    OBVIOUS
  <2> QED
    BY <1>5, <2>1
<1> QED
  BY <1>1, <1>6 DEF P

\* The transactions of a chain with one more block.
LEMMA TxsAppend ==
  ASSUME NEW S, \A b \in S : b.txs \in Seq(Tx), NEW c \in Seq(S), NEW b \in S
  PROVE  T!ToSet(T!TxsOf(Append(c, b))) = T!ToSet(T!TxsOf(c)) \cup T!ToSet(b.txs)
<1> DEFINE d == Append(c, b)
           n == Len(c)
<1>1. /\ d \in Seq(S) /\ Len(d) = n + 1 /\ n \in Nat /\ d[n + 1] = b /\ \A i \in 1..n : d[i] = c[i]
  OBVIOUS
<1>2. \A x : x \in T!ToSet(T!TxsOf(c)) <=> \E i \in 1..n : x \in T!ToSet(c[i].txs)
  BY TxsMembers
<1> HIDE DEF d, n
<1>3. \A x : x \in T!ToSet(T!TxsOf(d)) <=> \E i \in 1..(n + 1) : x \in T!ToSet(d[i].txs)
  BY <1>1, TxsMembers
<1>4. 1..(n + 1) = 1..n \cup {n + 1}
  BY <1>1
<1>5. \A x : x \in T!ToSet(T!TxsOf(d)) <=> x \in T!ToSet(T!TxsOf(c)) \/ x \in T!ToSet(b.txs)
  BY <1>1, <1>2, <1>3, <1>4
<1>6. T!ToSet(T!TxsOf(d)) = T!ToSet(T!TxsOf(c)) \cup T!ToSet(b.txs)
  BY <1>5
<1> QED
  BY <1>6 DEF d

Draft == [t : Nat, txs : Seq(Tx)]

\* A branch of valid blocks.
LEMMA BranchGrows ==
  ASSUME NEW base, Good(ref, base), NEW q \in Seq(Draft), T!BranchOK(base, q),
         \A i \in 1..Len(q) : T!ToSet(q[i].txs) \subseteq DOMAIN ref
  PROVE  /\ Good(ref, T!Grow(base, q))
         /\ T!ToSet(T!TxsOf(T!Grow(base, q))) = T!ToSet(T!TxsOf(base)) \cup T!ToSet(T!TxsOf(q))
         /\ Ordered(T!ToSet(T!TxsOf(base)), T!TxsOf(q))
<1> DEFINE S == T!ToSet(T!TxsOf(base))
           p(i) == SubSeq(q, 1, i)
           g(i) == T!Grow(base, p(i))
           P(i) == Good(ref, g(i)) /\ T!ToSet(T!TxsOf(g(i))) = S \cup T!ToSet(T!TxsOf(p(i)))
           X == {i \in 0..Len(q) : ~P(i)}
<1>1. Len(q) \in Nat /\ p(Len(q)) = q /\ p(0) = <<>>
  OBVIOUS
<1>2. (\A b \in Draft : b.txs \in Seq(Tx)) /\ (\A b \in Block : b.txs \in Seq(Tx))
  BY DEF Draft, Block
<1>3. P(0)
  <2>1. g(0) = base
    BY GrowSteps
  <2>2. T!TxsOf(p(0)) = <<>>
    BY <1>1, TxsSteps
  <2> QED
    BY <2>1, <2>2, PoolOperators
<1>4. ASSUME NEW i \in 1..Len(q)
      PROVE  /\ q[i].t \in Nat /\ q[i].txs \in Seq(Tx) /\ q[i].t > T!head_block_time(g(i - 1))
             /\ AllApply(ref, g(i - 1), q[i].txs)
  <2>1. q[i] \in Draft
    OBVIOUS
  <2>2. T!ValidBlock(g(i - 1), q[i].t, q[i].txs)
    BY DEF T!BranchOK
  <2> QED
    BY <2>1, <2>2, AppliesIs DEF T!ValidBlock, Draft
<1>5. ASSUME NEW i \in 1..Len(q), P(i - 1) PROVE P(i)
  <2> DEFINE d == g(i - 1)
             b == T!Applied(d, q[i].t, q[i].txs)
  <2>1. g(i) = Append(d, b)
    <3>1. g(i) = OneBlock(d, q[i])
      BY GrowSteps
    <3> QED
      BY <3>1 DEF OneBlock
  <2>2. T!TxsOf(p(i)) = T!TxsOf(p(i - 1)) \o q[i].txs
    BY TxsSteps
  <2>3. T!TxsOf(p(i - 1)) \in Seq(Tx)
    <3> DEFINE r == p(i - 1)
    <3>1. r \in Seq(Draft)
      BY PrefixOf
    <3> HIDE DEF r
    <3>2. T!TxsOf(r) \in Seq(Tx)
      BY <1>2, <3>1, TxsMembers
    <3> QED
      BY <3>2 DEF r
  <2>4. T!ToSet(T!TxsOf(p(i))) = T!ToSet(T!TxsOf(p(i - 1))) \cup T!ToSet(q[i].txs)
    <3>1. \A f : T!ToSet(f) = Range(f)
      BY PoolOperators DEF Range
    <3>2. q[i].txs \in Seq(Tx)
      BY <1>4
    <3> HIDE DEF p
    <3> QED
      BY <2>2, <2>3, <3>1, <3>2, RangeConcat
  <2>5. /\ q[i].t \in Nat /\ q[i].txs \in Seq(Tx) /\ q[i].t > T!head_block_time(d) /\ AllApply(ref, d, q[i].txs)
        /\ Good(ref, d) /\ d \in Seq(Block)
        /\ T!ToSet(T!TxsOf(d)) = S \cup T!ToSet(T!TxsOf(p(i - 1)))
    BY <1>4, <1>5 DEF Good
  <2> HIDE DEF d
  <2>6. Good(ref, Append(d, b))
    BY <2>5, GoodAppend
  <2>7. b \in Block /\ b.txs = q[i].txs
    BY <2>5, AppliedIs
  <2> HIDE DEF b
  <2>8. T!ToSet(T!TxsOf(Append(d, b))) = T!ToSet(T!TxsOf(d)) \cup T!ToSet(q[i].txs)
    BY <1>2, <2>5, <2>7, TxsAppend
  <2> HIDE DEF g, p, S
  <2> QED
    BY <2>1, <2>4, <2>5, <2>6, <2>8
<1>6. ASSUME NEW i \in 1..Len(q), P(i - 1) PROVE Ordered(S \cup T!ToSet(T!TxsOf(p(i - 1))), q[i].txs)
  <2>1. Ordered(T!ToSet(T!TxsOf(g(i - 1))), q[i].txs)
    BY <1>4, AppliedOrdered
  <2> QED
    BY <1>6, <2>1
<1> HIDE DEF P
<1>7. ASSUME X # {} PROVE FALSE
  <2>1. PICK m \in X : \A y \in X : m <= y
    <3>1. X \subseteq Nat
      OBVIOUS
    <3> HIDE DEF X
    <3> QED
      BY <1>7, <3>1, LeastNumber
  <2>2. m # 0
    BY <1>3, <2>1
  <2>3. m \in 1..Len(q) /\ m - 1 \in 0..Len(q) /\ m - 1 < m
    BY <1>1, <2>1, <2>2
  <2>4. P(m - 1)
    BY <2>1, <2>3
  <2> QED
    BY <1>5, <2>1, <2>3, <2>4
<1>8. \A i \in 0..Len(q) : P(i)
  BY <1>7
<1>9. Ordered(S, T!TxsOf(q))
  <2>1. ASSUME NEW i \in 1..Len(q) PROVE Ordered(S \cup T!ToSet(T!TxsOf(SubSeq(q, 1, i - 1))), q[i].txs)
    <3>1. i - 1 \in 0..Len(q)
      OBVIOUS
    <3> QED
      BY <1>6, <1>8, <3>1
  <2> HIDE DEF S
  <2> QED
    BY <1>2, <2>1, BlocksOrdered
<1>10. P(Len(q))
  BY <1>1, <1>8
<1> QED
  BY <1>1, <1>9, <1>10 DEF P

-----------------------------------------------------------------------------
(* The pool of transactions: what always holds of it.                      *)

\* The chain was built block by block; what the session holds can be applied to it and is
\* pending, and is all that is pending unless generate_block gave up; what a pending
\* transaction needs is in the chain or pending before it.
PoolHolds(rf, c, q, s, old) ==
  /\ DOMAIN rf \subseteq Tx /\ Good(rf, c)
  /\ q \in Seq(Tx) /\ T!ToSet(q) \subseteq DOMAIN rf
  /\ s \in Seq(Tx) /\ T!ToSet(s) \subseteq T!ToSet(q) /\ AllApply(rf, c, s)
  /\ ~old => s = q
  /\ Ordered(T!ToSet(T!TxsOf(c)), q)

PoolInv == PoolHolds(ref, blocks, queue, applied, stale)

\* What was pending or in a block still is, or cannot be applied any more.
Keeps(c, q, rf, d, r, s) ==
  \A x \in T!ToSet(q) \cup T!ToSet(T!TxsOf(c)) :
    x \in T!ToSet(r) \cup T!ToSet(T!TxsOf(d)) \/ ~CanApply(rf, d, s, x)

\* What a step does to the pool.
StepKeeps == PoolInv' /\ Keeps(blocks, queue, ref', blocks', queue', applied')

\* The restorer puts back the pending and the popped transactions.
LEMMA RestoreKeeps ==
  ASSUME PoolInv, NEW c, Good(ref, c), NEW u \in Seq(Tx), T!ToSet(u) \subseteq DOMAIN ref,
         Ordered(T!ToSet(T!TxsOf(c)), u \o queue),
         T!ToSet(T!TxsOf(blocks)) \subseteq T!ToSet(T!TxsOf(c)) \cup T!ToSet(u),
         T!Restore(c, u)
  PROVE  StepKeeps
<1> DEFINE r == T!Restored(c, u, queue)
<1>1. blocks' = c /\ queue' = r /\ applied' = r /\ stale' = FALSE /\ ref' = ref
  BY DEF T!Restore
<1>2. DOMAIN ref \subseteq Tx /\ queue \in Seq(Tx) /\ T!ToSet(queue) \subseteq DOMAIN ref
  BY DEF PoolInv, PoolHolds
<1>3. /\ r \in Seq(Tx) /\ AllApply(ref, c, r) /\ T!ToSet(r) \subseteq T!ToSet(u) \cup T!ToSet(queue)
      /\ \A x \in T!ToSet(u) \cup T!ToSet(queue) : x \in T!ToSet(r) \/ ~CanApply(ref, c, r, x)
  BY <1>2, RestoredKeeps
<1> HIDE DEF r
<1>4. Ordered(T!ToSet(T!TxsOf(c)), r)
  BY <1>3, AppliedOrdered
<1>5. PoolHolds(ref, c, r, r, FALSE)
  BY <1>2, <1>3, <1>4 DEF PoolHolds
<1>6. Keeps(blocks, queue, ref, c, r, r)
  BY <1>3 DEF Keeps
<1>7. PoolInv'
  BY <1>1, <1>5 DEF PoolInv
<1> QED
  BY <1>1, <1>6, <1>7 DEF StepKeeps

\* A block on the head.
LEMMA NewBlockKeeps ==
  ASSUME PoolInv, NEW t \in Nat, t > T!head_block_time(blocks), NEW q \in Seq(Tx),
         T!ToSet(q) \subseteq DOMAIN ref, AllApply(ref, blocks, q),
         T!Restore(Append(blocks, T!Applied(blocks, t, q)), <<>>)
  PROVE  StepKeeps
<1> DEFINE b == T!Applied(blocks, t, q)
           c == Append(blocks, b)
<1>1. /\ Good(ref, blocks) /\ blocks \in Seq(Block) /\ queue \in Seq(Tx)
      /\ Ordered(T!ToSet(T!TxsOf(blocks)), queue)
  BY DEF PoolInv, PoolHolds, Good
<1>2. Good(ref, c)
  BY <1>1, GoodAppend
<1>3. b \in Block
  BY <1>1, AppliedIs
<1>4. \A x \in Block : x.txs \in Seq(Tx)
  BY DEF Block
<1>5. <<>> \in Seq(Tx) /\ <<>> \o queue = queue
  BY <1>1
<1>6. T!ToSet(<<>>) = {}
  BY PoolOperators
<1>7. T!Restore(c, <<>>)
  OBVIOUS
<1> HIDE DEF b
<1>8. T!ToSet(T!TxsOf(c)) = T!ToSet(T!TxsOf(blocks)) \cup T!ToSet(b.txs)
  BY <1>1, <1>3, <1>4, TxsAppend
<1> HIDE DEF c
<1>9. Ordered(T!ToSet(T!TxsOf(c)), <<>> \o queue)
  BY <1>1, <1>5, <1>8, OrderedMore
<1> QED
  BY <1>2, <1>5, <1>6, <1>7, <1>8, <1>9, RestoreKeeps

\* A new transaction changes nothing for the others.
LEMMA CreateKeeps ==
  ASSUME PoolInv, T!Create
  PROVE  StepKeeps
<1>1. PICK tx \in Tx \ DOMAIN ref : ref' = [x \in DOMAIN ref \cup {tx} |-> IF x = tx THEN blocks ELSE ref[x]]
  BY DEF T!Create
<1>2. blocks' = blocks /\ queue' = queue /\ applied' = applied /\ stale' = stale
  BY DEF T!Create
<1> DEFINE rf == ref'
<1>3. DOMAIN ref \subseteq DOMAIN rf /\ (\A x \in DOMAIN ref : rf[x] = ref[x])
  BY <1>1
<1>4. DOMAIN ref \subseteq Tx
  BY DEF PoolInv, PoolHolds
<1>5. DOMAIN rf \subseteq Tx
  BY <1>1, <1>4
<1> HIDE DEF rf
<1>6. ASSUME NEW c, NEW q \in Seq(Tx), T!ToSet(q) \subseteq DOMAIN ref, AllApply(ref, c, q)
      PROVE  AllApply(rf, c, q)
  <2>1. ASSUME NEW i \in 1..Len(q) PROVE CanApply(rf, c, SubSeq(q, 1, i - 1), q[i])
    <3>1. q[i] \in DOMAIN ref
      BY <1>6, PoolOperators
    <3>2. CanApply(ref, c, SubSeq(q, 1, i - 1), q[i])
      BY <1>6 DEF AllApply
    <3> QED
      BY <1>3, <3>1, <3>2 DEF CanApply
  <2> QED
    BY <2>1 DEF AllApply
<1>7. Good(ref, blocks) /\ blocks \in Seq(Block)
  BY DEF PoolInv, PoolHolds, Good
<1>8. ASSUME NEW n \in 1..Len(blocks)
      PROVE  /\ T!ToSet(blocks[n].txs) \subseteq DOMAIN rf
             /\ blocks[n] = T!Applied(SubSeq(blocks, 1, n - 1), blocks[n].t, blocks[n].txs)
             /\ blocks[n].t > T!head_block_time(SubSeq(blocks, 1, n - 1))
             /\ AllApply(rf, SubSeq(blocks, 1, n - 1), blocks[n].txs)
  <2>1. /\ T!ToSet(blocks[n].txs) \subseteq DOMAIN ref
        /\ blocks[n] = T!Applied(SubSeq(blocks, 1, n - 1), blocks[n].t, blocks[n].txs)
        /\ blocks[n].t > T!head_block_time(SubSeq(blocks, 1, n - 1))
        /\ AllApply(ref, SubSeq(blocks, 1, n - 1), blocks[n].txs)
    BY <1>7 DEF Good
  <2>2. blocks[n] \in Block
    BY <1>7
  <2>3. blocks[n].txs \in Seq(Tx)
    BY <2>2 DEF Block
  <2>4. AllApply(rf, SubSeq(blocks, 1, n - 1), blocks[n].txs)
    BY <1>6, <2>1, <2>3
  <2> QED
    BY <1>3, <2>1, <2>4
<1>9. Good(rf, blocks)
  BY <1>7, <1>8 DEF Good
<1>10. /\ queue \in Seq(Tx) /\ T!ToSet(queue) \subseteq DOMAIN ref
       /\ applied \in Seq(Tx) /\ T!ToSet(applied) \subseteq T!ToSet(queue) /\ AllApply(ref, blocks, applied)
       /\ (~stale => applied = queue) /\ Ordered(T!ToSet(T!TxsOf(blocks)), queue)
  BY DEF PoolInv, PoolHolds
<1>11. AllApply(rf, blocks, applied)
  BY <1>6, <1>10
<1>12. PoolHolds(rf, blocks, queue, applied, stale)
  BY <1>3, <1>5, <1>9, <1>10, <1>11 DEF PoolHolds
<1>13. PoolInv'
  BY <1>2, <1>12 DEF PoolInv, rf
<1>14. Keeps(blocks, queue, ref', blocks', queue', applied')
  BY <1>2 DEF Keeps
<1> QED
  BY <1>13, <1>14 DEF StepKeeps

\* push_transaction.
LEMMA PushKeeps ==
  ASSUME PoolInv, T!push_transaction
  PROVE  StepKeeps
<1>1. PICK tx \in DOMAIN ref : /\ T!_apply_transaction(blocks, applied, tx)
                               /\ queue' = Append(queue, tx) /\ applied' = Append(applied, tx)
  BY DEF T!push_transaction
<1>2. blocks' = blocks /\ ref' = ref /\ stale' = stale
  BY DEF T!push_transaction
<1>3. /\ DOMAIN ref \subseteq Tx /\ Good(ref, blocks) /\ queue \in Seq(Tx) /\ T!ToSet(queue) \subseteq DOMAIN ref
      /\ applied \in Seq(Tx) /\ T!ToSet(applied) \subseteq T!ToSet(queue) /\ AllApply(ref, blocks, applied)
      /\ (~stale => applied = queue) /\ Ordered(T!ToSet(T!TxsOf(blocks)), queue)
  BY DEF PoolInv, PoolHolds
<1>4. tx \in Tx /\ CanApply(ref, blocks, applied, tx)
  BY <1>1, <1>3, AppliesIs
<1> DEFINE q == Append(queue, tx)
           s == Append(applied, tx)
<1>5. q \in Seq(Tx) /\ T!ToSet(q) = T!ToSet(queue) \cup {tx}
  BY <1>3, <1>4, OneMore
<1>6. s \in Seq(Tx) /\ T!ToSet(s) = T!ToSet(applied) \cup {tx}
  BY <1>3, <1>4, OneMore
<1>7. AllApply(ref, blocks, s)
  BY <1>3, <1>4, AllAppend
<1>8. Ordered(T!ToSet(T!TxsOf(blocks)), q)
  <2> SUFFICES ASSUME NEW j \in 1..Len(q), NEW x \in Needs[q[j]], x \notin T!ToSet(T!TxsOf(blocks))
               PROVE  \E i \in 1..(j - 1) : q[i] = x
    BY DEF Ordered
  <2>1. /\ Len(queue) \in Nat /\ Len(q) = Len(queue) + 1 /\ q[Len(queue) + 1] = tx
        /\ \A i \in 1..Len(queue) : q[i] = queue[i]
    BY <1>3, <1>4
  <2>2. CASE j = Len(queue) + 1
    <3>1. x \in T!ToSet(applied)
      BY <1>4, <2>1, <2>2 DEF CanApply
    <3>2. PICK i \in 1..Len(queue) : queue[i] = x
      BY <1>3, <3>1, PoolOperators
    <3> QED
      BY <2>1, <2>2, <3>2
  <2>3. CASE j # Len(queue) + 1
    <3>1. j \in 1..Len(queue) /\ q[j] = queue[j]
      BY <2>1, <2>3
    <3>2. PICK i \in 1..(j - 1) : queue[i] = x
      BY <1>3, <3>1 DEF Ordered
    <3> QED
      BY <2>1, <3>1, <3>2
  <2> QED
    BY <2>2, <2>3
<1> HIDE DEF q, s
<1>9. ~stale => s = q
  BY <1>3 DEF q, s
<1>10. PoolHolds(ref, blocks, q, s, stale)
  BY <1>3, <1>5, <1>6, <1>7, <1>8, <1>9 DEF PoolHolds
<1>11. PoolInv'
  BY <1>1, <1>2, <1>10 DEF PoolInv, q, s
<1>12. Keeps(blocks, queue, ref', blocks', queue', applied')
  BY <1>1, <1>2, <1>5 DEF Keeps, q
<1> QED
  BY <1>11, <1>12 DEF StepKeeps

\* What a block of another node holds.
LEMMA PayloadsAre ==
  ASSUME DOMAIN ref \subseteq Tx, NEW q \in T!Payloads
  PROVE  q \in Seq(Tx) /\ T!ToSet(q) \subseteq DOMAIN ref
<1>1. PICK n \in 0..MaxTxs : q \in [1..n -> DOMAIN ref]
  BY DEF T!Payloads
<1>2. T!ToSet(q) = {q[i] : i \in DOMAIN q}
  BY PoolOperators
<1>3. q \in Seq(DOMAIN ref)
  BY <1>1
<1> QED
  BY <1>2, <1>3

\* generate_block.
LEMMA GenerateKeeps ==
  ASSUME T!PoolAssumption, PoolInv, T!generate_block
  PROVE  StepKeeps
<1> DEFINE q == T!Generated.txs
<1>1. PICK t \in (T!head_block_time(blocks) + 1)..MaxTime :
        T!Restore(Append(blocks, T!Applied(blocks, t, q)), <<>>)
  BY DEF T!generate_block
<1>2. queue \in Seq(Tx) /\ T!ToSet(queue) \subseteq DOMAIN ref /\ blocks \in Seq(Block)
  BY DEF PoolInv, PoolHolds, Good
<1>3. q \in Seq(Tx) /\ AllApply(ref, blocks, q) /\ T!ToSet(q) \subseteq T!ToSet(queue)
  BY <1>2, GeneratedApplies
<1>4. T!head_block_time(blocks) \in Nat
  BY <1>2, HeadSays
<1>5. t \in Nat /\ t > T!head_block_time(blocks)
  BY <1>4
<1> HIDE DEF q
<1> QED
  BY <1>1, <1>2, <1>3, <1>5, NewBlockKeeps

\* generate_block, with the wrong key.
LEMMA WrongKeyKeeps ==
  ASSUME PoolInv, T!generate_block_wrong_key
  PROVE  StepKeeps
<1>1. blocks' = blocks /\ queue' = queue /\ applied' = <<>> /\ stale' = TRUE /\ ref' = ref
  BY DEF T!generate_block_wrong_key
<1>2. AllApply(ref, blocks, <<>>) /\ <<>> \in Seq(Tx) /\ T!ToSet(<<>>) = {}
  BY PoolOperators DEF AllApply
<1>3. PoolHolds(ref, blocks, queue, <<>>, TRUE)
  BY <1>2 DEF PoolInv, PoolHolds
<1>4. PoolInv'
  BY <1>1, <1>3 DEF PoolInv
<1>5. Keeps(blocks, queue, ref', blocks', queue', applied')
  BY <1>1 DEF Keeps
<1> QED
  BY <1>4, <1>5 DEF StepKeeps

\* push_block, on the head.
LEMMA PushBlockKeeps ==
  ASSUME PoolInv, T!push_block
  PROVE  StepKeeps
<1>1. PICK t \in (T!head_block_time(blocks) + 1)..MaxTime, q \in T!Payloads :
        T!ValidBlock(blocks, t, q) /\ T!Restore(Append(blocks, T!Applied(blocks, t, q)), <<>>)
  BY DEF T!push_block
<1>2. DOMAIN ref \subseteq Tx /\ blocks \in Seq(Block)
  BY DEF PoolInv, PoolHolds, Good
<1>3. q \in Seq(Tx) /\ T!ToSet(q) \subseteq DOMAIN ref
  BY <1>2, PayloadsAre
<1>4. AllApply(ref, blocks, q)
  BY <1>1, AppliesIs DEF T!ValidBlock
<1>5. T!head_block_time(blocks) \in Nat
  BY <1>2, HeadSays
<1>6. t \in Nat /\ t > T!head_block_time(blocks)
  BY <1>5
<1> QED
  BY <1>1, <1>3, <1>4, <1>6, NewBlockKeeps

\* push_block, of a block that does not apply.
LEMMA InvalidBlockKeeps ==
  ASSUME PoolInv, T!push_invalid_block
  PROVE  StepKeeps
<1>1. T!Restore(blocks, <<>>)
  BY DEF T!push_invalid_block
<1>2. Good(ref, blocks) /\ queue \in Seq(Tx) /\ Ordered(T!ToSet(T!TxsOf(blocks)), queue)
  BY DEF PoolInv, PoolHolds
<1>3. <<>> \in Seq(Tx) /\ <<>> \o queue = queue /\ T!ToSet(<<>>) = {}
  BY <1>2, PoolOperators
<1>4. Ordered(T!ToSet(T!TxsOf(blocks)), <<>> \o queue)
  BY <1>2, <1>3
<1> QED
  BY <1>1, <1>2, <1>3, <1>4, RestoreKeeps

\* The branches a node may be shown.
LEMMA BranchesAre ==
  ASSUME DOMAIN ref \subseteq Tx, NEW c \in Seq(Block), NEW n \in Nat, NEW q \in T!Branches(c, n)
  PROVE  q \in Seq(Draft) /\ \A i \in 1..Len(q) : T!ToSet(q[i].txs) \subseteq DOMAIN ref
<1>1. PICK p \in [1..n -> {s \in T!Payloads : Len(s) <= 1}] :
        q = [i \in 1..n |-> [t |-> T!head_block_time(c) + i, txs |-> p[i]]]
  BY DEF T!Branches
<1>2. T!head_block_time(c) \in Nat
  BY HeadSays
<1>3. ASSUME NEW i \in 1..n
      PROVE  q[i] \in Draft /\ T!ToSet(q[i].txs) \subseteq DOMAIN ref
  <2>1. p[i] \in T!Payloads
    BY <1>1
  <2>2. p[i] \in Seq(Tx) /\ T!ToSet(p[i]) \subseteq DOMAIN ref
    BY <2>1, PayloadsAre
  <2>3. q[i] = [t |-> T!head_block_time(c) + i, txs |-> p[i]]
    BY <1>1
  <2>4. T!head_block_time(c) + i \in Nat
    BY <1>2
  <2> QED
    BY <2>2, <2>3, <2>4 DEF Draft
<1>4. q \in [1..n -> Draft]
  BY <1>1, <1>3
<1>5. q \in Seq(Draft) /\ Len(q) = n
  BY <1>4
<1> QED
  BY <1>3, <1>5

\* switch_forks.
LEMMA SwitchKeeps ==
  ASSUME T!PoolAssumption, PoolInv, T!switch_forks
  PROVE  StepKeeps
<1>1. PICK k \in 1..MaxFork :
        LET base == SubSeq(blocks, 1, Len(blocks) - k)
            part == SubSeq(blocks, Len(base) + 1, Len(blocks))
        IN  /\ k <= Len(blocks)
            /\ \E q \in T!Branches(base, k + 1) : T!BranchOK(base, q) /\ T!Restore(T!Grow(base, q), T!TxsOf(part))
  BY DEF T!switch_forks
<1> DEFINE m == Len(blocks) - k
           base == SubSeq(blocks, 1, m)
           part == SubSeq(blocks, m + 1, Len(blocks))
           old == T!TxsOf(part)
<1>2. /\ DOMAIN ref \subseteq Tx /\ Good(ref, blocks) /\ blocks \in Seq(Block)
      /\ queue \in Seq(Tx) /\ Ordered(T!ToSet(T!TxsOf(blocks)), queue)
  BY DEF PoolInv, PoolHolds, Good
<1>3. m \in 0..Len(blocks) /\ m \in Nat /\ m <= Len(blocks) /\ k + 1 \in Nat
  BY <1>1, <1>2
<1>4. base \in Seq(Block) /\ Len(base) = m /\ Good(ref, base)
  BY <1>2, <1>3, PrefixOf, GoodPrefix
<1>5. PICK q \in T!Branches(base, k + 1) : T!BranchOK(base, q) /\ T!Restore(T!Grow(base, q), old)
  BY <1>1, <1>4
<1>6. /\ old \in Seq(Tx) /\ T!ToSet(old) \subseteq DOMAIN ref
      /\ T!ToSet(T!TxsOf(blocks)) = T!ToSet(T!TxsOf(base)) \cup T!ToSet(old)
      /\ Ordered(T!ToSet(T!TxsOf(base)), old)
  BY <1>2, <1>3, PoppedOrdered
<1> HIDE DEF m, base, old
<1>7. q \in Seq(Draft) /\ \A i \in 1..Len(q) : T!ToSet(q[i].txs) \subseteq DOMAIN ref
  BY <1>2, <1>3, <1>4, BranchesAre
<1> DEFINE c == T!Grow(base, q)
<1>8. Good(ref, c) /\ T!ToSet(T!TxsOf(c)) = T!ToSet(T!TxsOf(base)) \cup T!ToSet(T!TxsOf(q))
  BY <1>4, <1>5, <1>7, BranchGrows
<1>9. T!Restore(c, old)
  BY <1>5
<1> HIDE DEF c
<1>10. Ordered(T!ToSet(T!TxsOf(c)), old)
  BY <1>6, <1>8, OrderedMore
<1>11. Ordered(T!ToSet(T!TxsOf(c)) \cup T!ToSet(old), queue)
  BY <1>2, <1>6, <1>8, OrderedMore
<1>12. Ordered(T!ToSet(T!TxsOf(c)), old \o queue)
  BY <1>2, <1>6, <1>10, <1>11, OrderedConcat
<1>13. T!ToSet(T!TxsOf(blocks)) \subseteq T!ToSet(T!TxsOf(c)) \cup T!ToSet(old)
  BY <1>6, <1>8
<1> QED
  BY <1>6, <1>8, <1>9, <1>12, <1>13, RestoreKeeps

\* switch_forks that fails.
LEMMA SwitchFailsKeeps ==
  ASSUME T!PoolAssumption, PoolInv, T!switch_forks_fails
  PROVE  StepKeeps
<1>1. PICK k \in 1..MaxFork :
        LET base == SubSeq(blocks, 1, Len(blocks) - k)
            part == SubSeq(blocks, Len(base) + 1, Len(blocks))
        IN  /\ k <= Len(blocks)
            /\ \E q \in T!Branches(base, k) : T!BranchOK(base, q) /\ T!Restore(blocks, T!TxsOf(q) \o T!TxsOf(part))
  BY DEF T!switch_forks_fails
<1> DEFINE m == Len(blocks) - k
           base == SubSeq(blocks, 1, m)
           part == SubSeq(blocks, m + 1, Len(blocks))
           old == T!TxsOf(part)
           S == T!ToSet(T!TxsOf(blocks))
<1>2. /\ DOMAIN ref \subseteq Tx /\ Good(ref, blocks) /\ blocks \in Seq(Block)
      /\ queue \in Seq(Tx) /\ Ordered(S, queue)
  BY DEF PoolInv, PoolHolds, Good
<1>3. m \in 0..Len(blocks) /\ m \in Nat /\ m <= Len(blocks) /\ k \in Nat
  BY <1>1, <1>2
<1>4. base \in Seq(Block) /\ Len(base) = m /\ Good(ref, base)
  BY <1>2, <1>3, PrefixOf, GoodPrefix
<1>5. PICK q \in T!Branches(base, k) : T!BranchOK(base, q) /\ T!Restore(blocks, T!TxsOf(q) \o old)
  BY <1>1, <1>4
<1>6. /\ old \in Seq(Tx) /\ T!ToSet(old) \subseteq DOMAIN ref
      /\ S = T!ToSet(T!TxsOf(base)) \cup T!ToSet(old)
      /\ Ordered(T!ToSet(T!TxsOf(base)), old)
  BY <1>2, <1>3, PoppedOrdered
<1> HIDE DEF m, base, old, S
<1>7. q \in Seq(Draft) /\ \A i \in 1..Len(q) : T!ToSet(q[i].txs) \subseteq DOMAIN ref
  BY <1>2, <1>3, <1>4, BranchesAre
<1> DEFINE new == T!TxsOf(q)
<1>8. Ordered(T!ToSet(T!TxsOf(base)), new)
  BY <1>4, <1>5, <1>7, BranchGrows
<1>9. new \in Seq(Tx) /\ \A x : x \in T!ToSet(new) <=> \E i \in 1..Len(q) : x \in T!ToSet(q[i].txs)
  <2>1. \A b \in Draft : b.txs \in Seq(Tx)
    BY DEF Draft
  <2> QED
    BY <1>7, <2>1, TxsMembers
<1>10. T!ToSet(new) \subseteq DOMAIN ref
  BY <1>7, <1>9
<1> HIDE DEF new
<1> DEFINE u == new \o old
<1>11. u \in Seq(Tx) /\ T!ToSet(u) = T!ToSet(new) \cup T!ToSet(old)
  <2>1. \A f : T!ToSet(f) = Range(f)
    BY PoolOperators DEF Range
  <2> QED
    BY <1>6, <1>9, <2>1, RangeConcat
<1>12. Ordered(S, new)
  BY <1>6, <1>8, OrderedMore
<1>13. Ordered(S \cup T!ToSet(new), old)
  BY <1>6, OrderedMore
<1>14. Ordered(S, u)
  BY <1>6, <1>9, <1>12, <1>13, OrderedConcat
<1>15. T!Restore(blocks, u)
  BY <1>5 DEF new
<1> HIDE DEF u
<1>16. Ordered(S \cup T!ToSet(u), queue)
  BY <1>2, OrderedMore
<1>17. Ordered(S, u \o queue)
  BY <1>2, <1>11, <1>14, <1>16, OrderedConcat
<1>18. T!ToSet(u) \subseteq DOMAIN ref
  BY <1>6, <1>10, <1>11
<1> QED
  BY <1>2, <1>11, <1>15, <1>17, <1>18, RestoreKeeps DEF S

\* Every step keeps the pool.
LEMMA PoolStep ==
  ASSUME T!PoolAssumption, PoolInv, T!Next
  PROVE  StepKeeps
BY CreateKeeps, PushKeeps, GenerateKeeps, WrongKeyKeeps, PushBlockKeeps, InvalidBlockKeeps, SwitchKeeps,
   SwitchFailsKeeps DEF T!Next

\* Whatever is pushed, generated, refused or switched to, a node that lost track of its
\* session included: what the session holds can be applied to the head block, and it is all
\* that is pending unless generate_block has just given up; no transaction is twice on a
\* branch, although the duplicate index forgets what has expired; each is on a branch that
\* holds the block it was signed for; and none that was pending or popped is lost while it
\* can still be applied.  For any transactions, needs and clashes, any size and time limits,
\* and forks of any depth.
THEOREM PoolKeepsTransactions ==
  ASSUME T!PoolAssumption
  PROVE  T!Spec => T!TransactionsKept
<1>1. T!Init => PoolInv
  <2> SUFFICES ASSUME T!Init PROVE PoolInv
    OBVIOUS
  <2>1. blocks = <<>> /\ queue = <<>> /\ applied = <<>> /\ ref = <<>> /\ stale = FALSE
    BY DEF T!Init
  <2>2. <<>> \in Seq(Tx) /\ <<>> \in Seq(Block) /\ T!ToSet(<<>>) = {} /\ Len(<<>>) = 0 /\ DOMAIN <<>> = {}
    BY PoolOperators
  <2>3. AllApply(<<>>, <<>>, <<>>) /\ Good(<<>>, <<>>) /\ Ordered(T!ToSet(T!TxsOf(<<>>)), <<>>)
    BY <2>2 DEF AllApply, Good, Ordered
  <2>4. PoolHolds(<<>>, <<>>, <<>>, <<>>, FALSE)
    BY <2>2, <2>3 DEF PoolHolds
  <2> QED
    BY <2>1, <2>4 DEF PoolInv
<1>2. PoolInv /\ [T!Next]_(T!vars) => PoolInv'
  <2>1. ASSUME PoolInv, T!Next PROVE PoolInv'
    BY <2>1, PoolStep DEF StepKeeps
  <2>2. ASSUME PoolInv, UNCHANGED T!vars PROVE PoolInv'
    <3>1. blocks' = blocks /\ queue' = queue /\ applied' = applied /\ ref' = ref /\ stale' = stale
      BY <2>2 DEF T!vars
    <3> QED
      BY <2>2, <3>1 DEF PoolInv
  <2> QED
    BY <2>1, <2>2
<1>3. PoolInv => T!PoolSound /\ T!AppliedOnce /\ T!TaposHonoured
  <2> SUFFICES ASSUME PoolInv PROVE T!PoolSound /\ T!AppliedOnce /\ T!TaposHonoured
    OBVIOUS
  <2>1. Good(ref, blocks) /\ AllApply(ref, blocks, applied) /\ (~stale => applied = queue)
    BY DEF PoolInv, PoolHolds
  <2>2. T!PoolSound
    BY <2>1, AppliesIs DEF T!PoolSound
  <2>3. T!AppliedOnce
    BY <2>1, GoodOnce DEF T!AppliedOnce
  <2>4. T!TaposHonoured
    BY <2>1, GoodTapos DEF T!TaposHonoured
  <2> QED
    BY <2>2, <2>3, <2>4
<1>4. PoolInv /\ [T!Next]_(T!vars) => [T!KeepsTransactions]_(T!vars)
  <2> SUFFICES ASSUME PoolInv, T!Next PROVE T!KeepsTransactions
    OBVIOUS
  <2>1. Keeps(blocks, queue, ref', blocks', queue', applied')
    BY PoolStep DEF StepKeeps
  <2>2. \A tx : T!_apply_transaction(blocks, applied, tx)' <=> CanApply(ref', blocks', applied', tx)
    BY DEF T!_apply_transaction, T!RefersTo, CanApply
  <2> QED
    BY <2>1, <2>2 DEF Keeps, T!KeepsTransactions
<1> QED
  BY <1>1, <1>2, <1>3, <1>4, PTL DEF T!Spec, T!TransactionsKept, T!NothingLost

=============================================================================
