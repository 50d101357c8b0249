----------------------------- MODULE DataLemmas -----------------------------
(***************************************************************************)
(* What the proofs of several components need: induction, stated as the    *)
(* existence of least elements, integer division, sums over finite sets,   *)
(* and sequences.                                                          *)
(***************************************************************************)
EXTENDS Sums, Sequences, SequencesExt, FiniteSets, FiniteSetTheorems, TLAPS

-----------------------------------------------------------------------------
(* Least elements.                                                         *)

\* A set of numbers has a least one.
LEMMA LeastNumber ==
  ASSUME NEW T, T \subseteq Nat, T # {}
  PROVE  \E m \in T : \A y \in T : m <= y
<1> DEFINE Less == {ss \in Nat \X Nat : ss[1] < ss[2]}
<1>1. IsWellFoundedOn(Less, Nat)
  BY NatLessThanWellFounded DEF OpToRel
<1> HIDE DEF Less
<1>2. PICK m \in T : \A y \in T : ~(<<y, m>> \in Less)
  BY <1>1, WFMin
<1>3. ASSUME NEW y \in T PROVE m <= y
  <2>1. y \in Nat /\ m \in Nat
    OBVIOUS
  <2>2. y < m => <<y, m>> \in Less
    BY <2>1 DEF Less
  <2> QED
    BY <1>2, <2>1, <2>2
<1> QED
  BY <1>3

\* Of the subsets of a finite set there is one without a smaller one.
LEMMA SmallestSubset ==
  ASSUME NEW S, IsFiniteSet(S), NEW T, T \subseteq SUBSET S, T # {}
  PROVE  \E m \in T : \A y \in T : y \subseteq m => y = m
<1>1. IsWellFoundedOn(StrictSubsetOrdering(S), SUBSET S)
  BY FS_StrictSubsetOrderingWellFounded, FS_FiniteSubsetsOfFinite
<1>2. PICK m \in T : \A y \in T : ~(<<y, m>> \in StrictSubsetOrdering(S))
  BY <1>1, WFMin
<1> QED
  BY <1>2 DEF StrictSubsetOrdering

-----------------------------------------------------------------------------
(* Integer arithmetic.                                                     *)

\* A finite set of numbers has a greatest one.
LEMMA GreatestNumber ==
  ASSUME NEW N, N \subseteq Nat, N # {}, IsFiniteSet(N)
  PROVE  \E m \in N : \A y \in N : y <= m
<1> DEFINE Above == [m \in N |-> {y \in N : y > m}]
           R == {Above[m] : m \in N}
<1>1. R \subseteq SUBSET N /\ R # {}
  OBVIOUS
<1>2. PICK r \in R : \A y \in R : y \subseteq r => y = r
  <2> HIDE DEF R
  <2> QED
    BY ONLY <1>1, IsFiniteSet(N), SmallestSubset
<1>3. PICK m \in N : r = Above[m]
  BY <1>2
<1>4. ASSUME NEW y \in N, ~(y <= m) PROVE FALSE
  <2>1. y \in Nat /\ m \in Nat /\ y > m
    BY <1>4
  <2>2. Above[y] = {z \in N : z > y} /\ Above[m] = {z \in N : z > m} /\ Above[y] \in R
    OBVIOUS
  <2> HIDE DEF Above, R
  <2>3. Above[y] \subseteq Above[m]
    <3>1. ASSUME NEW z \in N, z > y PROVE z > m
      BY <2>1, <3>1
    <3> QED
      BY <2>2, <3>1
  <2>4. y \in Above[m] /\ y \notin Above[y]
    BY <2>1, <2>2
  <2> QED
    BY <1>2, <1>3, <2>2, <2>3, <2>4
<1> QED
  BY <1>4


\* What \div returns.
LEMMA DivFloor ==
  ASSUME NEW a \in Nat, NEW b \in Nat \ {0}
  PROVE  /\ a \div b \in Nat
         /\ b * (a \div b) <= a
         /\ a < b * (a \div b) + b
BY SMT

\* Products of naturals.
LEMMA MulNat ==
  ASSUME NEW a \in Nat, NEW b \in Nat
  PROVE  a * b \in Nat
BY SMT

\* Multiplication is monotone.
LEMMA MulMono ==
  ASSUME NEW a \in Nat, NEW b \in Nat, NEW c \in Nat, a <= b
  PROVE  a * c <= b * c /\ c * a <= c * b
BY SMT

\* \div returns the largest quotient.
LEMMA DivGe ==
  ASSUME NEW a \in Nat, NEW b \in Nat \ {0}, NEW q \in Nat, b * q <= a
  PROVE  q <= a \div b
<1> DEFINE d == a \div b
<1>1. d \in Nat /\ a < b * d + b
  BY DivFloor
<1>2. SUFFICES ASSUME q >= d + 1 PROVE FALSE
  BY <1>1
<1> HIDE DEF d
<1>3. b * (d + 1) <= b * q
  BY <1>1, <1>2, MulMono, SMT
<1>4. b * (d + 1) = b * d + b
  BY <1>1, SMT
<1> QED BY <1>1, <1>3, <1>4, MulNat, SMT

\* A positive factor can be cancelled.
LEMMA MulCancel ==
  ASSUME NEW a \in Nat, NEW b \in Nat, NEW c \in Nat \ {0}, a * c <= b * c
  PROVE  a <= b
<1>1. SUFFICES ASSUME b + 1 <= a PROVE FALSE
  OBVIOUS
<1>2. (b + 1) * c <= a * c
  BY <1>1, MulMono
<1>3. (b + 1) * c = b * c + c
  BY SMT
<1> QED BY <1>2, <1>3, MulNat, SMT

\* \div is monotone in its first argument.
LEMMA DivMono ==
  ASSUME NEW a \in Nat, NEW c \in Nat, NEW b \in Nat \ {0}, a <= c
  PROVE  a \div b <= c \div b
BY DivFloor, DivGe, MulNat, SMT

\* A quotient that is rounded up is large enough.
LEMMA CeilFloor ==
  ASSUME NEW a \in Nat, NEW b \in Nat \ {0}
  PROVE  /\ (a + b - 1) \div b \in Nat
         /\ a <= b * ((a + b - 1) \div b)
         /\ b * ((a + b - 1) \div b) <= a + b - 1
<1> DEFINE x == a + b - 1
<1>1. x \in Nat
  OBVIOUS
<1>2. x \div b \in Nat /\ b * (x \div b) <= x /\ x < b * (x \div b) + b
  BY <1>1, DivFloor
<1> DEFINE q == x \div b
           p == b * q
<1>3. q \in Nat /\ p \in Nat /\ p <= x /\ x < p + b
  BY <1>2, MulNat
<1> HIDE DEF p, q
<1>4. a <= p /\ p <= a + b - 1
  BY <1>3
<1> QED BY <1>3, <1>4 DEF p, q

\* It is the least that is.
LEMMA CeilLe ==
  ASSUME NEW a \in Nat, NEW b \in Nat \ {0}, NEW q \in Nat, a <= b * q
  PROVE  (a + b - 1) \div b <= q
<1> DEFINE c == (a + b - 1) \div b
<1>1. c \in Nat /\ b * c <= a + b - 1
  BY CeilFloor
<1>2. SUFFICES ASSUME q + 1 <= c PROVE FALSE
  BY <1>1
<1> HIDE DEF c
<1>3. b * (q + 1) <= b * c
  BY <1>1, <1>2, MulMono, SMT
<1>4. b * (q + 1) = b * q + b
  BY SMT
<1> QED BY <1>1, <1>3, <1>4, MulNat, SMT

\* Division of a shifted number.
LEMMA DivShift ==
  ASSUME NEW a \in Nat, NEW m \in Nat, NEW d \in Nat \ {0}
  PROVE  (a + m * d) \div d = (a \div d) + m
<1> DEFINE q == a \div d
           r == (a + m * d) \div d
<1>1. q \in Nat /\ d * q <= a /\ a < d * q + d
  BY DivFloor
<1>2. a + m * d \in Nat
  BY MulNat
<1>3. r \in Nat /\ d * r <= a + m * d /\ a + m * d < d * r + d
  BY <1>2, DivFloor
<1> HIDE DEF q, r
<1>4. d * (q + m) = d * q + m * d /\ q + m \in Nat
  BY <1>1
<1>5. d * q \in Nat /\ d * r \in Nat /\ m * d \in Nat
  BY <1>1, <1>3, MulNat
<1>6. ~(r + 1 <= q + m)
  <2> SUFFICES ASSUME r + 1 <= q + m PROVE FALSE
    OBVIOUS
  <2>1. d * (r + 1) <= d * (q + m) /\ d * (r + 1) = d * r + d
    BY <1>1, <1>3, MulMono
  <2> QED
    BY <1>1, <1>3, <1>4, <1>5, <2>1
<1>7. ~(q + m + 1 <= r)
  <2> SUFFICES ASSUME q + m + 1 <= r PROVE FALSE
    OBVIOUS
  <2>1. d * ((q + m) + 1) <= d * r /\ d * ((q + m) + 1) = d * (q + m) + d
    BY <1>1, <1>3, MulMono
  <2> QED
    BY <1>1, <1>3, <1>4, <1>5, <2>1
<1> QED
  BY <1>1, <1>3, <1>6, <1>7 DEF q, r

\* The product of three numbers, in another order.
LEMMA MulSwap ==
  ASSUME NEW a \in Int, NEW b \in Int, NEW c \in Int
  PROVE  (a * b) * c = (a * c) * b
BY SMT

-----------------------------------------------------------------------------
(* Sums.                                                                   *)

\* The member that the iteration takes first.
Chosen(s) == CHOOSE x \in s : TRUE

\* The equation that the iteration inside of SumOver satisfies.
Iterates(g, f, S) ==
  g = [s \in SUBSET S |-> IF s = {} THEN 0
                          ELSE f[Chosen(s)] + g[s \ {Chosen(s)}]]

\* SumOver unfolded.
LEMMA SumIsIteration ==
  ASSUME NEW f, NEW S
  PROVE  SumOver(f, S) = (CHOOSE g : Iterates(g, f, S))[S]
BY DEF SumOver, FoldFunctionOnSet, MapThenFoldSet, Iterates, Chosen

\* What an iteration returns.
LEMMA IterationStep ==
  ASSUME NEW f, NEW S, NEW g, Iterates(g, f, S), NEW s \in SUBSET S
  PROVE  /\ s = {} => g[s] = 0
         /\ s # {} => g[s] = f[Chosen(s)] + g[s \ {Chosen(s)}]
BY DEF Iterates

\* Two iterations agree where both are defined.
LEMMA IterationUnique ==
  ASSUME NEW f, NEW A, NEW B, IsFiniteSet(A), NEW g, NEW h,
         Iterates(g, f, A), Iterates(h, f, B), NEW s, s \subseteq A, s \subseteq B
  PROVE  g[s] = h[s]
<1> DEFINE T == {t \in SUBSET s : g[t] # h[t]}
<1>1. IsFiniteSet(s)
  BY FS_Subset
<1>2. ASSUME T # {} PROVE FALSE
  <2>1. PICK m \in T : \A y \in T : y \subseteq m => y = m
    <3>1. T \subseteq SUBSET s
      OBVIOUS
    <3> HIDE DEF T
    <3> QED
      BY <1>1, <1>2, <3>1, SmallestSubset
  <2>2. m \in SUBSET A /\ m \in SUBSET B
    BY <2>1
  <2>3. CASE m = {}
    BY <2>1, <2>2, <2>3, IterationStep
  <2>4. CASE m # {}
    <3> DEFINE x == Chosen(m)
    <3>1. x \in m
      BY <2>4 DEF Chosen
    <3>2. m \ {x} \notin T
      BY <2>1, <3>1
    <3>3. g[m \ {x}] = h[m \ {x}]
      BY <3>2, <2>1
    <3>4. g[m] = f[x] + g[m \ {x}] /\ h[m] = f[x] + h[m \ {x}]
      BY <2>2, <2>4, IterationStep
    <3> QED
      BY <3>3, <3>4, <2>1
  <2> QED
    BY <2>3, <2>4
<1> QED
  BY <1>2

\* The value that the iteration over S has for S.
Value(f, S) == (CHOOSE g : Iterates(g, f, S))[S]

\* Every iteration over a larger set has the same value.
LEMMA ValueOf ==
  ASSUME NEW f, NEW S, IsFiniteSet(S), NEW g, Iterates(g, f, S), NEW s \in SUBSET S,
         \E h : Iterates(h, f, s)
  PROVE  Value(f, s) = g[s]
<1> DEFINE h == CHOOSE h : Iterates(h, f, s)
<1>1. Iterates(h, f, s)
  OBVIOUS
<1>2. IsFiniteSet(s)
  BY FS_Subset
<1>3. Value(f, s) = h[s]
  BY DEF Value
<1> HIDE DEF h
<1>4. s \subseteq S /\ s \subseteq s
  OBVIOUS
<1>5. g[s] = h[s]
  BY <1>1, <1>4, IterationUnique
<1> QED
  BY <1>3, <1>5

\* The iteration exists: the definition of a sum is meaningful.
LEMMA IterationExists ==
  ASSUME NEW f, NEW S, IsFiniteSet(S)
  PROVE  \E g : Iterates(g, f, S)
<1> DEFINE T == {t \in SUBSET S : ~\E g : Iterates(g, f, t)}
<1>1. ASSUME T # {} PROVE FALSE
  <2>1. PICK m \in T : \A y \in T : y \subseteq m => y = m
    <3>1. T \subseteq SUBSET S
      OBVIOUS
    <3> HIDE DEF T
    <3> QED
      BY <1>1, <3>1, SmallestSubset
  <2>2. ASSUME NEW s \in SUBSET m, s # m PROVE \E g : Iterates(g, f, s)
    BY <2>1, <2>2
  <2> DEFINE x(s) == Chosen(s)
             h == [s \in SUBSET m |-> IF s = {} THEN 0
                                      ELSE IF s = m THEN f[x(m)] + Value(f, m \ {x(m)})
                                      ELSE Value(f, s)]
             step(s) == IF s = {} THEN 0 ELSE f[x(s)] + h[s \ {x(s)}]
  <2>3. Value(f, {}) = 0 \/ m = {}
    <3>1. CASE m # {}
      <4>1. PICK g : Iterates(g, f, {})
        BY <2>2, <3>1
      <4>2. Value(f, {}) = g[{}]
        BY <4>1, ValueOf, FS_EmptySet
      <4> QED
        BY <4>1, <4>2, IterationStep
    <3> QED
      BY <3>1
  <2>4. ASSUME NEW s \in SUBSET m PROVE h[s] = step(s)
    <3>1. CASE s = {}
      BY <3>1
    <3>2. CASE s # {} /\ s = m
      <4>1. x(m) \in m /\ m \ {x(m)} # m
        BY <3>2 DEF Chosen
      <4>2. h[m \ {x(m)}] = Value(f, m \ {x(m)})
        BY <4>1, <2>3, <3>2
      <4> QED
        BY <3>2, <4>2
    <3>3. CASE s # {} /\ s # m
      <4>1. PICK g : Iterates(g, f, s)
        BY <3>3, <2>2
      <4>2. x(s) \in s /\ s \ {x(s)} # m /\ s \ {x(s)} \in SUBSET s /\ s \ {x(s)} \in SUBSET m
        BY <3>3 DEF Chosen
      <4>3. IsFiniteSet(s)
        BY <2>1, FS_Subset
      <4>4. Value(f, s) = g[s]
        BY <4>1, <4>3, ValueOf
      <4>5. Value(f, s \ {x(s)}) = g[s \ {x(s)}]
        <5>1. \E k : Iterates(k, f, s \ {x(s)})
          BY <4>2, <2>2
        <5> HIDE DEF x
        <5> QED
          BY <4>1, <4>2, <4>3, <5>1, ValueOf
      <4>6. g[s] = f[x(s)] + g[s \ {x(s)}]
        BY <4>1, <3>3, IterationStep
      <4>7. h[s \ {x(s)}] = Value(f, s \ {x(s)})
        BY <4>2, <2>3, <3>3
      <4>8. h[s] = Value(f, s)
        BY <3>3
      <4> QED
        BY <3>3, <4>4, <4>5, <4>6, <4>7, <4>8
    <3> QED
      BY <3>1, <3>2, <3>3
  <2>5. h = [s \in SUBSET m |-> step(s)]
    <3> HIDE DEF step
    <3> QED
      BY <2>4
  <2>6. Iterates(h, f, m)
    BY <2>5 DEF Iterates
  <2> QED
    BY <2>1, <2>6
<1> QED
  BY <1>1

\* SumOver is that value.
LEMMA SumIsValue ==
  ASSUME NEW f, NEW S
  PROVE  SumOver(f, S) = Value(f, S)
BY SumIsIteration DEF Value

\* The sum of nothing.
LEMMA SumEmpty ==
  ASSUME NEW f
  PROVE  SumOver(f, {}) = 0
<1>1. IsFiniteSet({})
  BY FS_EmptySet
<1>2. PICK g : Iterates(g, f, {})
  BY <1>1, IterationExists
<1>3. Value(f, {}) = g[{}]
  BY <1>1, <1>2, ValueOf
<1>4. {} \in SUBSET {}
  OBVIOUS
<1>5. g[{}] = 0
  BY <1>2, <1>4, IterationStep
<1> QED
  BY <1>3, <1>5, SumIsValue

\* Some member can be taken out of a sum: the one that the iteration takes.
LEMMA SumChosen ==
  ASSUME NEW f, NEW S, IsFiniteSet(S), S # {}
  PROVE  \E x \in S : SumOver(f, S) = f[x] + SumOver(f, S \ {x})
<1> DEFINE x == Chosen(S)
<1>1. x \in S /\ S \ {x} \in SUBSET S /\ S \in SUBSET S
  BY DEF Chosen
<1>2. PICK g : Iterates(g, f, S)
  BY IterationExists
<1>3. g[S] = f[x] + g[S \ {x}]
  BY <1>1, <1>2, IterationStep
<1> HIDE DEF x
<1>4. IsFiniteSet(S \ {x})
  BY <1>1, FS_Subset
<1>5. Value(f, S) = g[S] /\ Value(f, S \ {x}) = g[S \ {x}]
  BY <1>1, <1>2, <1>4, ValueOf, IterationExists
<1> QED
  BY <1>1, <1>3, <1>5, SumIsValue

\* A sum of integers is one.
LEMMA SumType ==
  ASSUME NEW S, IsFiniteSet(S), NEW f, \A x \in S : f[x] \in Int
  PROVE  SumOver(f, S) \in Int
<1> DEFINE T == {t \in SUBSET S : SumOver(f, t) \notin Int}
<1>1. ASSUME T # {} PROVE FALSE
  <2>1. PICK m \in T : \A y \in T : y \subseteq m => y = m
    <3>1. T \subseteq SUBSET S
      OBVIOUS
    <3> HIDE DEF T
    <3> QED
      BY <1>1, <3>1, SmallestSubset
  <2>2. m # {}
    <3>1. SumOver(f, {}) = 0
      BY SumEmpty
    <3>2. SumOver(f, {}) \in Int /\ SumOver(f, m) \notin Int
      BY <2>1, <3>1
    <3> QED
      BY <3>2
  <2>3. IsFiniteSet(m)
    BY <2>1, FS_Subset
  <2>4. PICK x \in m : SumOver(f, m) = f[x] + SumOver(f, m \ {x})
    BY <2>2, <2>3, SumChosen
  <2>5. SumOver(f, m \ {x}) \in Int
    BY <2>1
  <2> QED
    BY <2>1, <2>4, <2>5
<1> QED
  BY <1>1

\* Any member may be taken out of a sum.
LEMMA SumRemove ==
  ASSUME NEW S, IsFiniteSet(S), NEW f, \A x \in S : f[x] \in Int, NEW z \in S
  PROVE  SumOver(f, S) = f[z] + SumOver(f, S \ {z})
<1> DEFINE T == {t \in SUBSET S : \E y \in t : SumOver(f, t) # f[y] + SumOver(f, t \ {y})}
<1>1. ASSUME T # {} PROVE FALSE
  <2>1. PICK m \in T : \A y \in T : y \subseteq m => y = m
    <3>1. T \subseteq SUBSET S
      OBVIOUS
    <3> HIDE DEF T
    <3> QED
      BY <1>1, <3>1, SmallestSubset
  <2>2. PICK y \in m : SumOver(f, m) # f[y] + SumOver(f, m \ {y})
    BY <2>1
  <2>3. IsFiniteSet(m) /\ m \subseteq S
    BY <2>1, FS_Subset
  <2>4. PICK x \in m : SumOver(f, m) = f[x] + SumOver(f, m \ {x})
    BY <2>2, <2>3, SumChosen
  <2>5. x # y
    BY <2>2, <2>4
  <2>6. m \ {x} \notin T /\ m \ {y} \notin T
    BY <2>1, <2>2, <2>4
  <2>7. /\ SumOver(f, m \ {x}) = f[y] + SumOver(f, (m \ {x}) \ {y})
        /\ SumOver(f, m \ {y}) = f[x] + SumOver(f, (m \ {y}) \ {x})
    BY <2>6, <2>5, <2>3
  <2>8. (m \ {x}) \ {y} = (m \ {y}) \ {x}
    OBVIOUS
  <2>9. IsFiniteSet((m \ {x}) \ {y}) /\ \A u \in (m \ {x}) \ {y} : f[u] \in Int
    BY <2>3, FS_Subset
  <2>10. SumOver(f, (m \ {x}) \ {y}) \in Int
    BY <2>9, SumType
  <2>11. f[x] \in Int /\ f[y] \in Int
    BY <2>3
  <2> DEFINE a == SumOver(f, m)
             b == SumOver(f, m \ {x})
             c == SumOver(f, m \ {y})
             d == SumOver(f, (m \ {y}) \ {x})
  <2>12. a = f[x] + b /\ b = f[y] + d /\ c = f[x] + d /\ d \in Int /\ a # f[y] + c
    BY <2>2, <2>4, <2>7, <2>8, <2>10
  <2> HIDE DEF a, b, c, d
  <2> QED
    BY <2>11, <2>12
<1> QED
  BY <1>1

\* A new member adds its number.
LEMMA SumAdd ==
  ASSUME NEW S, IsFiniteSet(S), NEW z, z \notin S, NEW f, \A x \in S \cup {z} : f[x] \in Int
  PROVE  SumOver(f, S \cup {z}) = f[z] + SumOver(f, S)
<1>1. IsFiniteSet(S \cup {z})
  BY FS_AddElement
<1>2. (S \cup {z}) \ {z} = S
  OBVIOUS
<1> QED
  BY <1>1, <1>2, SumRemove

\* Only the numbers of the members count.
LEMMA SumSame ==
  ASSUME NEW S, IsFiniteSet(S), NEW f, NEW g, \A x \in S : f[x] = g[x]
  PROVE  SumOver(f, S) = SumOver(g, S)
<1> DEFINE T == {t \in SUBSET S : SumOver(f, t) # SumOver(g, t)}
<1>1. ASSUME T # {} PROVE FALSE
  <2>1. PICK m \in T : \A y \in T : y \subseteq m => y = m
    <3>1. T \subseteq SUBSET S
      OBVIOUS
    <3> HIDE DEF T
    <3> QED
      BY <1>1, <3>1, SmallestSubset
  <2>2. m # {}
    BY <2>1, SumEmpty
  <2> DEFINE x == Chosen(m)
  <2>3. x \in m /\ m \subseteq S /\ m \in SUBSET m
    BY <2>1, <2>2 DEF Chosen
  <2>4. SumOver(f, m \ {x}) = SumOver(g, m \ {x})
    BY <2>1, <2>3
  <2>5. IsFiniteSet(m)
    BY <2>3, FS_Subset
  <2>6. ASSUME NEW k PROVE SumOver(k, m) = k[x] + SumOver(k, m \ {x})
    <3>1. PICK h : Iterates(h, k, m)
      BY <2>5, IterationExists
    <3>2. h[m] = k[x] + h[m \ {x}]
      BY <2>3, <2>2, <3>1, IterationStep
    <3> HIDE DEF x
    <3>3. IsFiniteSet(m \ {x}) /\ m \ {x} \in SUBSET m
      BY <2>3, <2>5, FS_Subset
    <3>4. Value(k, m) = h[m] /\ Value(k, m \ {x}) = h[m \ {x}]
      BY <2>3, <2>5, <3>1, <3>3, ValueOf, IterationExists
    <3> QED
      BY <3>2, <3>4, SumIsValue
  <2> QED
    BY <2>1, <2>3, <2>4, <2>6
<1> QED
  BY <1>1

\* Two functions that differ in one member.
LEMMA SumChange ==
  ASSUME NEW S, IsFiniteSet(S), NEW f, NEW g, \A x \in S : f[x] \in Int /\ g[x] \in Int,
         NEW z \in S, \A x \in S \ {z} : f[x] = g[x]
  PROVE  SumOver(g, S) = SumOver(f, S) + g[z] - f[z]
<1>1. IsFiniteSet(S \ {z})
  BY FS_Subset
<1>2. SumOver(f, S \ {z}) = SumOver(g, S \ {z})
  BY <1>1, SumSame
<1>3. SumOver(f, S) = f[z] + SumOver(f, S \ {z}) /\ SumOver(g, S) = g[z] + SumOver(g, S \ {z})
  BY SumRemove
<1>4. SumOver(f, S \ {z}) \in Int
  BY <1>1, SumType
<1> DEFINE r == SumOver(f, S \ {z})
           a == SumOver(f, S)
           b == SumOver(g, S)
<1>5. a = f[z] + r /\ b = g[z] + r /\ r \in Int /\ f[z] \in Int /\ g[z] \in Int
  BY <1>2, <1>3, <1>4
<1> HIDE DEF r, a, b
<1>6. b = a + g[z] - f[z]
  BY <1>5
<1> QED
  BY <1>6 DEF a, b

\* Larger numbers have a larger sum.
LEMMA SumMonotone ==
  ASSUME NEW S, IsFiniteSet(S), NEW f, NEW g,
         \A x \in S : f[x] \in Int /\ g[x] \in Int /\ f[x] <= g[x]
  PROVE  SumOver(f, S) <= SumOver(g, S)
<1> DEFINE T == {t \in SUBSET S : ~(SumOver(f, t) <= SumOver(g, t))}
<1>1. ASSUME T # {} PROVE FALSE
  <2>1. PICK m \in T : \A y \in T : y \subseteq m => y = m
    <3>1. T \subseteq SUBSET S
      OBVIOUS
    <3> HIDE DEF T
    <3> QED
      BY <1>1, <3>1, SmallestSubset
  <2>2. m # {}
    <3>1. SumOver(f, {}) = 0 /\ SumOver(g, {}) = 0
      BY SumEmpty
    <3>2. SumOver(f, {}) <= SumOver(g, {}) /\ ~(SumOver(f, m) <= SumOver(g, m))
      BY <2>1, <3>1
    <3> QED
      BY <3>2
  <2>3. IsFiniteSet(m) /\ m \subseteq S
    BY <2>1, FS_Subset
  <2>4. PICK x : x \in m
    BY <2>2
  <2>5. SumOver(f, m \ {x}) <= SumOver(g, m \ {x})
    BY <2>1, <2>4
  <2>6. SumOver(f, m) = f[x] + SumOver(f, m \ {x}) /\ SumOver(g, m) = g[x] + SumOver(g, m \ {x})
    BY <2>3, <2>4, SumRemove
  <2>7. IsFiniteSet(m \ {x})
    BY <2>3, FS_Subset
  <2>8. SumOver(f, m \ {x}) \in Int /\ SumOver(g, m \ {x}) \in Int
    BY <2>3, <2>7, SumType
  <2>9. ~(SumOver(f, m) <= SumOver(g, m)) /\ f[x] \in Int /\ g[x] \in Int /\ f[x] <= g[x]
    BY <2>1, <2>3, <2>4
  <2> HIDE DEF T
  <2> QED
    BY <2>5, <2>6, <2>8, <2>9
<1> QED
  BY <1>1

\* Equal numbers add up to their multiple.
LEMMA SumConstant ==
  ASSUME NEW S, IsFiniteSet(S), NEW c \in Int, NEW f, \A x \in S : f[x] = c
  PROVE  SumOver(f, S) = c * Cardinality(S)
<1> DEFINE T == {t \in SUBSET S : SumOver(f, t) # c * Cardinality(t)}
<1>1. ASSUME T # {} PROVE FALSE
  <2>1. PICK m \in T : \A y \in T : y \subseteq m => y = m
    <3>1. T \subseteq SUBSET S
      OBVIOUS
    <3> HIDE DEF T
    <3> QED
      BY <1>1, <3>1, SmallestSubset
  <2>2. m # {}
    <3>1. SumOver(f, {}) = 0 /\ Cardinality({}) = 0
      BY SumEmpty, FS_EmptySet
    <3>2. SumOver(f, {}) = c * Cardinality({}) /\ SumOver(f, m) # c * Cardinality(m)
      BY <2>1, <3>1
    <3> QED
      BY <3>2
  <2>3. IsFiniteSet(m) /\ m \subseteq S
    BY <2>1, FS_Subset
  <2>4. PICK x : x \in m
    BY <2>2
  <2>5. SumOver(f, m \ {x}) = c * Cardinality(m \ {x})
    BY <2>1, <2>4
  <2>6. SumOver(f, m) = f[x] + SumOver(f, m \ {x})
    BY <2>3, <2>4, SumRemove
  <2>7. Cardinality(m \ {x}) = Cardinality(m) - 1 /\ Cardinality(m) \in Nat
    BY <2>3, <2>4, FS_RemoveElement, FS_CardinalityType
  <2>8. SumOver(f, m) # c * Cardinality(m) /\ f[x] = c
    BY <2>1, <2>3, <2>4
  <2>9. ASSUME NEW k \in Int PROVE c + c * (k - 1) = c * k
    OBVIOUS
  <2> HIDE DEF T
  <2> QED
    BY <2>5, <2>6, <2>7, <2>8, <2>9
<1> QED
  BY <1>1

\* A sum of numbers that are not negative is none below zero, nor below any of them.
LEMMA SumNat ==
  ASSUME NEW S, IsFiniteSet(S), NEW f, \A x \in S : f[x] \in Nat
  PROVE  /\ SumOver(f, S) \in Nat
         /\ \A x \in S : f[x] <= SumOver(f, S)
<1> DEFINE zero == [x \in S |-> 0]
<1>1. ASSUME NEW A \in SUBSET S PROVE SumOver(f, A) \in Nat
  <2>1. IsFiniteSet(A)
    BY FS_Subset
  <2>2. SumOver(zero, A) = 0 * Cardinality(A) /\ Cardinality(A) \in Nat
    BY <2>1, SumConstant, FS_CardinalityType
  <2>3. SumOver(zero, A) <= SumOver(f, A)
    BY <2>1, SumMonotone
  <2>4. SumOver(f, A) \in Int
    BY <2>1, SumType
  <2> HIDE DEF zero
  <2> QED
    BY <2>2, <2>3, <2>4
<1>2. ASSUME NEW x \in S PROVE f[x] <= SumOver(f, S)
  <2>1. SumOver(f, S) = f[x] + SumOver(f, S \ {x})
    BY SumRemove
  <2>2. SumOver(f, S \ {x}) \in Nat
    BY <1>1
  <2> QED
    BY <2>1, <2>2
<1> QED
  BY <1>1, <1>2

\* The sum of natural numbers after one of them has changed.
LEMMA OneChanges ==
  ASSUME NEW S, IsFiniteSet(S), NEW f \in [S -> Nat], NEW g \in [S -> Nat], NEW z \in S,
         \A y \in S \ {z} : f[y] = g[y]
  PROVE  /\ f[z] \in Nat /\ g[z] \in Nat /\ f[z] <= SumOver(f, S)
         /\ SumOver(f, S) \in Nat /\ SumOver(g, S) \in Nat /\ SumOver(g, S) = SumOver(f, S) + g[z] - f[z]
<1>1. (\A y \in S : f[y] \in Nat) /\ (\A y \in S : g[y] \in Nat) /\ (\A y \in S : f[y] \in Int /\ g[y] \in Int)
  OBVIOUS
<1>2. SumOver(f, S) \in Nat /\ \A y \in S : f[y] <= SumOver(f, S)
  BY ONLY <1>1, SumNat, IsFiniteSet(S)
<1>3. SumOver(g, S) \in Nat
  BY ONLY <1>1, SumNat, IsFiniteSet(S)
<1>4. SumOver(g, S) = SumOver(f, S) + g[z] - f[z]
  BY ONLY <1>1, SumChange, IsFiniteSet(S), z \in S, \A y \in S \ {z} : f[y] = g[y]
<1> QED
  BY <1>1, <1>2, <1>3, <1>4

\* Two sums whose members and numbers differ only in z.
LEMMA SumDiffer ==
  ASSUME NEW S, NEW T, IsFiniteSet(S), IsFiniteSet(T), NEW f, NEW g,
         \A x \in S : f[x] \in Int, \A x \in T : g[x] \in Int,
         NEW z, S \ {z} = T \ {z}, \A x \in S \ {z} : f[x] = g[x]
  PROVE  /\ SumOver(f, S) \in Int
         /\ SumOver(g, T) = SumOver(f, S) + (IF z \in T THEN g[z] ELSE 0) - (IF z \in S THEN f[z] ELSE 0)
<1> DEFINE R == S \ {z}
           r == SumOver(f, R)
           a == SumOver(f, S)
           b == SumOver(g, T)
           u == IF z \in S THEN f[z] ELSE 0
           v == IF z \in T THEN g[z] ELSE 0
<1>1. IsFiniteSet(R) /\ R = T \ {z}
  BY FS_Subset
<1>2. r \in Int /\ a \in Int
  BY <1>1, SumType
<1>3. SumOver(g, R) = r
  BY <1>1, SumSame
<1>4. a = u + r
  <2>1. CASE z \in S
    BY <2>1, SumRemove
  <2>2. CASE z \notin S
    BY <1>2, <2>2
  <2> QED
    BY <2>1, <2>2
<1>5. b = v + r
  <2>1. CASE z \in T
    <3>1. b = g[z] + SumOver(g, T \ {z})
      BY <2>1, SumRemove
    <3> QED
      BY <1>1, <1>3, <2>1, <3>1
  <2>2. CASE z \notin T
    <3>1. T = R
      BY <1>1, <2>2
    <3> QED
      BY <1>2, <1>3, <2>2, <3>1
  <2> QED
    BY <2>1, <2>2
<1>6. u \in Int /\ v \in Int
  OBVIOUS
<1>7. b = a + v - u
  <2> HIDE DEF a, b, r, u, v
  <2> QED
    BY <1>2, <1>4, <1>5, <1>6
<1> QED
  BY <1>2, <1>7

\* Sums of two functions add up.
LEMMA SumPlus ==
  ASSUME NEW S, IsFiniteSet(S), NEW f, NEW g, NEW h,
         \A x \in S : f[x] \in Int /\ g[x] \in Int /\ h[x] = f[x] + g[x]
  PROVE  SumOver(h, S) = SumOver(f, S) + SumOver(g, S)
<1> DEFINE T == {t \in SUBSET S : SumOver(h, t) # SumOver(f, t) + SumOver(g, t)}
<1>1. ASSUME T # {} PROVE FALSE
  <2>1. PICK m \in T : \A y \in T : y \subseteq m => y = m
    <3>1. T \subseteq SUBSET S
      OBVIOUS
    <3> HIDE DEF T
    <3> QED
      BY <1>1, <3>1, SmallestSubset
  <2>2. m # {}
    <3>1. SumOver(h, {}) = SumOver(f, {}) + SumOver(g, {})
      BY SumEmpty
    <3>2. SumOver(h, m) # SumOver(f, m) + SumOver(g, m)
      BY <2>1
    <3> QED
      BY <3>1, <3>2
  <2>3. IsFiniteSet(m) /\ m \subseteq S
    BY <2>1, FS_Subset
  <2>4. PICK x : x \in m
    BY <2>2
  <2>5. SumOver(h, m \ {x}) = SumOver(f, m \ {x}) + SumOver(g, m \ {x})
    BY <2>1, <2>4
  <2>6. f[x] \in Int /\ g[x] \in Int /\ h[x] = f[x] + g[x] /\ \A y \in m : h[y] \in Int
    BY <2>3, <2>4
  <2>7. /\ SumOver(f, m) = f[x] + SumOver(f, m \ {x})
        /\ SumOver(g, m) = g[x] + SumOver(g, m \ {x})
        /\ SumOver(h, m) = h[x] + SumOver(h, m \ {x})
    BY <2>3, <2>4, <2>6, SumRemove
  <2>8. IsFiniteSet(m \ {x})
    BY <2>3, FS_Subset
  <2>9. SumOver(f, m \ {x}) \in Int /\ SumOver(g, m \ {x}) \in Int
    BY <2>3, <2>8, SumType
  <2>10. SumOver(h, m) # SumOver(f, m) + SumOver(g, m)
    BY <2>1
  <2> HIDE DEF T
  <2> QED
    BY <2>5, <2>6, <2>7, <2>9, <2>10
<1> QED
  BY <1>1

\* The sum over two sets without a common member.
LEMMA SumUnion ==
  ASSUME NEW A, NEW B, IsFiniteSet(A), IsFiniteSet(B), A \cap B = {},
         NEW f, \A x \in A \cup B : f[x] \in Int
  PROVE  SumOver(f, A \cup B) = SumOver(f, A) + SumOver(f, B)
<1> DEFINE S == A \cup B
           a == [x \in S |-> IF x \in A THEN f[x] ELSE 0]
           b == [x \in S |-> IF x \in B THEN f[x] ELSE 0]
<1>1. IsFiniteSet(S)
  BY FS_Union
<1>2. \A x \in S : a[x] \in Int /\ b[x] \in Int /\ f[x] = a[x] + b[x]
  OBVIOUS
<1>3. SumOver(f, S) = SumOver(a, S) + SumOver(b, S)
  <2> HIDE DEF S, a, b
  <2> QED
    BY <1>1, <1>2, SumPlus
<1>4. ASSUME NEW C \in SUBSET S, NEW D, D = S \ C, NEW g, \A x \in C : g[x] = f[x], \A x \in D : g[x] = 0
      PROVE  SumOver(g, S) = SumOver(f, C)
  <2> DEFINE U == {t \in SUBSET D : SumOver(g, C \cup t) # SumOver(f, C)}
  <2>1. IsFiniteSet(C) /\ IsFiniteSet(D)
    BY <1>1, <1>4, FS_Subset
  <2>2. ASSUME U # {} PROVE FALSE
    <3>1. PICK m \in U : \A y \in U : y \subseteq m => y = m
      <4>1. U \subseteq SUBSET D
        OBVIOUS
      <4> HIDE DEF U
      <4> QED
        BY <2>1, <2>2, <4>1, SmallestSubset
    <3>2. m \in SUBSET D /\ SumOver(g, C \cup m) # SumOver(f, C)
      BY <3>1
    <3>3. m # {}
      <4>1. SumOver(g, C) = SumOver(f, C) /\ C \cup {} = C
        BY <1>4, <2>1, SumSame
      <4> QED
        BY <3>2, <4>1
    <3>4. PICK x : x \in m
      BY <3>3
    <3>5. SumOver(g, C \cup (m \ {x})) = SumOver(f, C)
      <4>1. m \ {x} \notin U /\ m \ {x} \in SUBSET D
        BY <3>1, <3>2, <3>4
      <4> QED
        BY <4>1
    <3> DEFINE R == C \cup (m \ {x})
    <3>6. x \notin R /\ C \cup m = R \cup {x} /\ R \subseteq S /\ x \in D /\ x \in S
      BY <1>4, <3>2, <3>4
    <3>7. IsFiniteSet(R) /\ \A y \in R \cup {x} : g[y] \in Int
      BY <1>1, <1>4, <3>6, FS_Subset
    <3>8. SumOver(g, R \cup {x}) = g[x] + SumOver(g, R) /\ SumOver(g, R) \in Int
      <4> HIDE DEF R, S
      <4> QED
        BY <3>6, <3>7, SumAdd, SumType
    <3>9. g[x] = 0 /\ SumOver(g, R \cup {x}) # SumOver(f, C) /\ SumOver(g, R) = SumOver(f, C)
      BY <1>4, <3>2, <3>5, <3>6
    <3> HIDE DEF R, S, U
    <3> QED
      BY <3>8, <3>9
  <2>3. D \notin U /\ C \cup D = S
    BY <1>4, <2>2
  <2> QED
    BY <2>3
<1>5. SumOver(a, S) = SumOver(f, A)
  <2>1. A \in SUBSET S /\ (\A x \in A : a[x] = f[x]) /\ \A x \in S \ A : a[x] = 0
    OBVIOUS
  <2> HIDE DEF S, a
  <2> QED
    BY <1>4, <2>1
<1>6. SumOver(b, S) = SumOver(f, B)
  <2>1. B \in SUBSET S /\ (\A x \in B : b[x] = f[x]) /\ \A x \in S \ B : b[x] = 0
    OBVIOUS
  <2> HIDE DEF S, b
  <2> QED
    BY <1>4, <2>1
<1> QED
  BY <1>3, <1>5, <1>6

\* What the members of G bring to each member of S adds up to what they bring.
LEMMA SumFibres ==
  ASSUME NEW S, IsFiniteSet(S), NEW G, IsFiniteSet(G), NEW f, \A i \in G : f[i] \in Int,
         NEW to, \A i \in G : to[i] \in S
  PROVE  SumOver([a \in S |-> SumOver(f, {i \in G : to[i] = a})], S) = SumOver(f, G)
<1> DEFINE Of(t, a) == {i \in t : to[i] = a}
           F(t) == [a \in S |-> SumOver(f, Of(t, a))]
           T == {t \in SUBSET G : SumOver(F(t), S) # SumOver(f, t)}
<1>1. ASSUME T # {} PROVE FALSE
  <2>1. PICK m \in T : \A y \in T : y \subseteq m => y = m
    <3>1. T \subseteq SUBSET G
      OBVIOUS
    <3> HIDE DEF T
    <3> QED
      BY <1>1, <3>1, SmallestSubset
  <2>2. m \subseteq G /\ SumOver(F(m), S) # SumOver(f, m)
    BY <2>1
  <2>3. m # {}
    <3>1. \A a \in S : F({})[a] = 0
      <4>1. \A a \in S : Of({}, a) = {}
        OBVIOUS
      <4> QED
        BY <4>1, SumEmpty
    <3>2. SumOver(F({}), S) = 0 * Cardinality(S) /\ Cardinality(S) \in Nat
      <4> HIDE DEF F
      <4> QED
        BY <3>1, SumConstant, FS_CardinalityType
    <3>3. SumOver(F({}), S) = SumOver(f, {})
      BY <3>2, SumEmpty
    <3> QED
      BY <2>2, <3>3
  <2>4. IsFiniteSet(m)
    BY <2>2, FS_Subset
  <2>5. PICK x : x \in m
    BY <2>3
  <2> DEFINE n == m \ {x}
             z == to[x]
  <2>6. SumOver(F(n), S) = SumOver(f, n) /\ n \subseteq G /\ x \notin n /\ z \in S /\ m = n \cup {x}
    BY <2>1, <2>2, <2>5
  <2>7. IsFiniteSet(n) /\ SumOver(f, m) = f[x] + SumOver(f, n) /\ SumOver(f, n) \in Int /\ f[x] \in Int
    <3>1. IsFiniteSet(n)
      BY <2>4, FS_Subset
    <3> QED
      BY <2>2, <2>4, <2>5, <3>1, SumRemove, SumType
  <2>8. \A a \in S : F(m)[a] \in Int /\ F(n)[a] \in Int
    <3>1. ASSUME NEW t \in SUBSET G, NEW a \in S PROVE SumOver(f, Of(t, a)) \in Int
      <4>1. Of(t, a) \subseteq G
        OBVIOUS
      <4> HIDE DEF Of
      <4>2. IsFiniteSet(Of(t, a)) /\ \A i \in Of(t, a) : f[i] \in Int
        BY <4>1, FS_Subset
      <4> QED
        BY <4>2, SumType
    <3> QED
      BY <2>2, <2>6, <3>1
  <2>9. ASSUME NEW a \in S \ {z} PROVE F(n)[a] = F(m)[a]
    <3>1. Of(n, a) = Of(m, a)
      BY <2>6
    <3> HIDE DEF Of
    <3> QED
      BY <3>1
  <2>10. F(m)[z] = f[x] + F(n)[z]
    <3>1. Of(m, z) = Of(n, z) \cup {x} /\ x \notin Of(n, z) /\ Of(m, z) \subseteq m
      BY <2>5, <2>6
    <3> HIDE DEF Of
    <3>2. IsFiniteSet(Of(n, z)) /\ \A i \in Of(n, z) \cup {x} : f[i] \in Int
      BY <2>2, <2>4, <3>1, FS_Subset
    <3>3. SumOver(f, Of(n, z) \cup {x}) = f[x] + SumOver(f, Of(n, z))
      BY <3>1, <3>2, SumAdd
    <3> QED
      BY <2>6, <3>1, <3>3
  <2>11. SumOver(F(n), S) \in Int
    BY <2>6, <2>7
  <2> HIDE DEF F, n, z, Of, T
  <2>12. SumOver(F(m), S) = SumOver(F(n), S) + F(m)[z] - F(n)[z]
    BY <2>6, <2>8, <2>9, SumChange
  <2> QED
    BY <2>2, <2>6, <2>7, <2>8, <2>10, <2>12
<1>2. SumOver(F(G), S) = SumOver(f, G)
  BY <1>1
<1> QED
  BY <1>2

-----------------------------------------------------------------------------
(* Tables of objects.                                                      *)

\* Functions from some numbers (instances of ids) to V.
Maps(V) == UNION {[D -> V] : D \in SUBSET Nat}

\* What Maps contains.
LEMMA MapType ==
  ASSUME NEW V, NEW m \in Maps(V)
  PROVE  m \in [DOMAIN m -> V] /\ DOMAIN m \in SUBSET Nat
BY DEF Maps

-----------------------------------------------------------------------------
(* Sequences.                                                              *)

\* What a sequence without its last member is.
LEMMA FrontOf ==
  ASSUME NEW S, NEW q \in Seq(S), q # <<>>
  PROVE  /\ Front(q) \in Seq(S) /\ Len(Front(q)) = Len(q) - 1 /\ Len(q) \in Nat \ {0}
         /\ \A i \in 1..(Len(q) - 1) : Front(q)[i] = q[i]
         /\ Last(q) = q[Len(q)] /\ Last(q) \in S
<1>1. Len(q) \in Nat \ {0}
  OBVIOUS
<1>2. Len(Front(q)) = Len(q) - 1
  <2> DEFINE n == Len(q) - 1
  <2>1. n \in Nat /\ Front(q) = SubSeq(q, 1, n)
    BY <1>1 DEF Front
  <2> HIDE DEF n
  <2>2. Len(SubSeq(q, 1, n)) = n
    BY <2>1
  <2> QED
    BY <2>1, <2>2 DEF n
<1>3. \A i \in 1..(Len(q) - 1) : Front(q)[i] = q[i]
  BY <1>1 DEF Front
<1>4. Last(q) = q[Len(q)] /\ Last(q) \in S
  BY <1>1 DEF Last
<1>5. Front(q) \in Seq(S)
  <2>1. \A i \in 1..(Len(q) - 1) : q[i] \in S
    BY <1>1
  <2> QED
    BY <1>1, <2>1 DEF Front
<1> QED
  BY <1>1, <1>2, <1>3, <1>4, <1>5

\* A part of a sequence.
LEMMA PartOf ==
  ASSUME NEW S, NEW q \in Seq(S), NEW m \in Nat \ {0}, NEW n \in Nat, n <= Len(q), m <= n + 1
  PROVE  /\ SubSeq(q, m, n) \in Seq(S) /\ Len(SubSeq(q, m, n)) = n - m + 1
         /\ \A i \in 1..(n - m + 1) : SubSeq(q, m, n)[i] = q[m + i - 1]
OBVIOUS

\* The beginning of a sequence.
LEMMA PrefixOf ==
  ASSUME NEW S, NEW q \in Seq(S), NEW n \in Nat, n <= Len(q)
  PROVE  /\ SubSeq(q, 1, n) \in Seq(S) /\ Len(SubSeq(q, 1, n)) = n
         /\ \A i \in 1..n : SubSeq(q, 1, n)[i] = q[i]
OBVIOUS

\* Two sequences with the same elements are the same.
LEMMA SameSeq ==
  ASSUME NEW S, NEW q \in Seq(S), NEW T, NEW r \in Seq(T), Len(q) = Len(r),
         \A i \in 1..Len(q) : q[i] = r[i]
  PROVE  q = r
OBVIOUS

\* The members of two sequences together.
LEMMA RangeConcat ==
  ASSUME NEW S, NEW q \in Seq(S), NEW r \in Seq(S)
  PROVE  Range(q \o r) = Range(q) \cup Range(r)
<1> DEFINE c == q \o r
<1>1. /\ c \in Seq(S) /\ Len(c) = Len(q) + Len(r) /\ Len(q) \in Nat /\ Len(r) \in Nat
      /\ DOMAIN c = 1..Len(c) /\ DOMAIN q = 1..Len(q) /\ DOMAIN r = 1..Len(r)
      /\ \A i \in 1..Len(c) : c[i] = IF i <= Len(q) THEN q[i] ELSE r[i - Len(q)]
  OBVIOUS
<1> HIDE DEF c
<1>2. \A i \in DOMAIN c : c[i] \in Range(q) \cup Range(r)
  <2> SUFFICES ASSUME NEW i \in DOMAIN c PROVE c[i] \in Range(q) \cup Range(r)
    OBVIOUS
  <2>1. CASE i <= Len(q)
    <3>1. i \in DOMAIN q /\ c[i] = q[i]
      BY <1>1, <2>1
    <3> QED
      BY <3>1 DEF Range
  <2>2. CASE ~(i <= Len(q))
    <3>1. i - Len(q) \in DOMAIN r /\ c[i] = r[i - Len(q)]
      BY <1>1, <2>2
    <3> QED
      BY <3>1 DEF Range
  <2> QED
    BY <2>1, <2>2
<1>3. \A i \in DOMAIN q : q[i] \in Range(c)
  BY <1>1 DEF Range
<1>4. \A i \in DOMAIN r : r[i] \in Range(c)
  <2> SUFFICES ASSUME NEW i \in DOMAIN r PROVE r[i] \in Range(c)
    OBVIOUS
  <2> DEFINE k == Len(q) + i
  <2>1. k \in DOMAIN c /\ c[k] = r[i]
    BY <1>1
  <2> HIDE DEF k
  <2> QED
    BY <2>1 DEF Range
<1>5. Range(c) = Range(q) \cup Range(r)
  BY <1>2, <1>3, <1>4 DEF Range
<1> QED
  BY <1>5 DEF c
=============================================================================
