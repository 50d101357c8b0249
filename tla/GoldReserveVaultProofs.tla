----------------------- MODULE GoldReserveVaultProofs -----------------------
(***************************************************************************)
(* Proofs about GOLD and what is priced in it: GoldReserveVault, for every *)
(* supply, price path that never falls, hardfork time and list of workers, *)
(* and Smartcoin, for any producers, prices, options and positions.        *)
(***************************************************************************)
EXTENDS GoldReserveVault, DataLemmas

-----------------------------------------------------------------------------
(* The debt that calculate_gold_debt_for_cr allows.                        *)

\* It is covered twice by the collateral, although two divisions round.
LEMMA DebtForCRCovered ==
  ASSUME NEW res \in Nat, NEW price \in Prices
  PROVE  LET d == DebtForCR(res, price) IN
         /\ d \in Nat
         /\ d <= MaxShareSupply
         /\ 2 * d * price.quote <= res * price.base
<1> DEFINE b == price.base
           q == price.quote
           p == res * b
           y == (res * b * 1000) \div q
           z == y \div 2000
           d == Min2(z, MaxShareSupply)
<1>1. b \in Nat \ {0} /\ q \in Nat \ {0}
  BY DEF Prices
<1>2. DebtForCR(res, price) = d
  BY DEF DebtForCR
<1> HIDE DEF b, q
<1>3. p \in Nat /\ res * b * 1000 = p * 1000 /\ p * 1000 \in Nat
  BY <1>1, MulNat, SMT
<1>4. y \in Nat /\ q * y <= p * 1000
  BY <1>1, <1>3, DivFloor
<1> HIDE DEF p, y
<1>5. z \in Nat /\ 2000 * z <= y
  BY <1>4, DivFloor
<1> HIDE DEF z
<1>6. d \in Nat /\ d <= z /\ d <= MaxShareSupply
  BY <1>5, SupplyAssumption DEF Min2
<1> HIDE DEF d
<1>7. 2000 * d <= y /\ 2000 * d \in Nat
  BY <1>4, <1>5, <1>6, SMT
<1>8. q * (2000 * d) <= q * y
  BY <1>1, <1>4, <1>7, MulMono
<1>9. q * (2000 * d) = 1000 * (2 * d * q) /\ 2 * d * q \in Nat /\ q * y \in Nat
  BY <1>1, <1>4, <1>6, MulNat, SMT
<1>10. 2 * d * q <= p
  <2> DEFINE l == 2 * d * q
             m == q * y
  <2>1. l \in Nat /\ m \in Nat /\ 1000 * l <= m /\ m <= p * 1000
    BY <1>4, <1>8, <1>9
  <2> HIDE DEF l, m
  <2>2. l <= p
    BY <2>1, <1>3, SMT
  <2> QED BY <2>2 DEF l
<1> QED BY <1>2, <1>6, <1>10 DEF b, q, p

\* Every debt that is covered twice is allowed, up to the share limit.
LEMMA DebtForCRLargest ==
  ASSUME NEW res \in Nat, NEW price \in Prices, NEW d \in Nat,
         d <= MaxShareSupply,
         2 * d * price.quote <= res * price.base
  PROVE  d <= DebtForCR(res, price)
<1> DEFINE b == price.base
           q == price.quote
           p == res * b
           y == (res * b * 1000) \div q
           z == y \div 2000
<1>1. b \in Nat \ {0} /\ q \in Nat \ {0}
  BY DEF Prices
<1>2. DebtForCR(res, price) = Min2(z, MaxShareSupply)
  BY DEF DebtForCR
<1>3. 2 * d * q <= p
  OBVIOUS
<1> HIDE DEF b, q
<1>4. p \in Nat /\ res * b * 1000 = p * 1000 /\ p * 1000 \in Nat
  BY <1>1, MulNat, SMT
<1>5. q * (2000 * d) = 1000 * (2 * d * q) /\ 2 * d * q \in Nat /\ 2000 * d \in Nat
  BY <1>1, MulNat, SMT
<1>6. q * (2000 * d) <= p * 1000
  <2> DEFINE l == 2 * d * q
  <2>1. l \in Nat /\ l <= p
    BY <1>3, <1>5
  <2> HIDE DEF l, p
  <2>2. 1000 * l <= p * 1000
    BY <2>1, <1>4, SMT
  <2> QED BY <2>2, <1>5 DEF l
<1>7. 2000 * d <= y /\ y \in Nat
  BY <1>1, <1>4, <1>5, <1>6, DivGe, DivFloor
<1> HIDE DEF y
<1>8. d <= z /\ z \in Nat
  BY <1>7, DivGe, DivFloor
<1> HIDE DEF z
<1> QED BY <1>2, <1>8, SupplyAssumption DEF Min2

\* More reserve and a later price of GOLD cover a debt that was covered.
LEMMA CoverGrows ==
  ASSUME NEW d \in Nat, NEW r1 \in Nat, NEW r2 \in Nat, r1 <= r2,
         NEW e \in 0..MaxBlock, NEW f \in 0..MaxBlock, e <= f,
         2 * d * GoldPrice[e].quote <= r1 * GoldPrice[e].base
  PROVE  2 * d * GoldPrice[f].quote <= r2 * GoldPrice[f].base
<1> DEFINE b1 == GoldPrice[e].base
           q1 == GoldPrice[e].quote
           b2 == GoldPrice[f].base
           q2 == GoldPrice[f].quote
<1>1. /\ b1 \in Nat \ {0} /\ q1 \in Nat \ {0}
      /\ b2 \in Nat \ {0} /\ q2 \in Nat \ {0}
  BY PriceAssumption DEF Prices
<1>2. b1 * q2 <= b2 * q1
  BY GrowthAssumption, BoundAssumption, SMT
<1>3. 2 * d * q1 <= r1 * b1
  OBVIOUS
<1> HIDE DEF b1, q1, b2, q2
<1> DEFINE c == 2 * d
<1>4. c \in Nat /\ c * q1 <= r1 * b1
  BY <1>3
<1> HIDE DEF c
<1>5. (c * q1) * q2 <= (r1 * b1) * q2
  BY <1>1, <1>4, MulMono, MulNat
<1>6. (r1 * b1) * q2 = r1 * (b1 * q2) /\ r1 * (b1 * q2) <= r1 * (b2 * q1)
  BY <1>1, <1>2, MulMono, MulNat, SMT
<1>7. r1 * (b2 * q1) <= r2 * (b2 * q1)
  BY <1>1, MulMono, MulNat
<1>8. (c * q1) * q2 = (c * q2) * q1 /\ r2 * (b2 * q1) = (r2 * b2) * q1
  BY <1>1, <1>4, SMT
<1>9. /\ (c * q1) * q2 \in Nat /\ (r1 * b1) * q2 \in Nat
      /\ r1 * (b2 * q1) \in Nat /\ r2 * (b2 * q1) \in Nat
      /\ c * q2 \in Nat /\ r2 * b2 \in Nat
  BY <1>1, <1>4, MulNat
<1>10. (c * q1) * q2 <= r2 * (b2 * q1)
  <2> DEFINE w1 == (c * q1) * q2
             w2 == (r1 * b1) * q2
             w3 == r1 * (b2 * q1)
             w4 == r2 * (b2 * q1)
  <2>1. w1 <= w2 /\ w2 <= w3 /\ w3 <= w4
    BY <1>5, <1>6, <1>7
  <2>2. w1 \in Nat /\ w2 \in Nat /\ w3 \in Nat /\ w4 \in Nat
    BY <1>9
  <2> HIDE DEF w1, w2, w3, w4
  <2>3. w1 <= w4
    BY <2>1, <2>2
  <2> QED BY <2>3 DEF w1, w4
<1>11. (c * q2) * q1 <= (r2 * b2) * q1
  BY <1>8, <1>10
<1>12. c * q2 <= r2 * b2
  BY <1>1, <1>9, <1>11, MulCancel
<1> QED BY <1>12 DEF c, b2, q2

-----------------------------------------------------------------------------
(* What spending and rebalancing do to a vault.                            *)

\* The limit, the day and what can be spent are natural numbers.
LEMMA DayTypes ==
  ASSUME NEW v \in Vaults, NEW t \in Nat
  PROVE  /\ budget_day(t) \in Nat
         /\ DailyLimit(v, t) \in Nat
         /\ SpentToday(v, t) \in Nat
         /\ Available(v, t) \in Nat
<1>1. budget_day(t) \in Nat
  BY RateAssumption, DivFloor DEF budget_day
<1>2. v.pool \in Nat /\ v.limit \in Nat /\ v.spent \in Nat
  BY DEF Vaults
<1>3. v.pool \div Divisor \in Nat
  BY <1>2, RateAssumption, DivFloor
<1>4. DailyLimit(v, t) \in Nat /\ SpentToday(v, t) \in Nat
  BY <1>2, <1>3 DEF DailyLimit, SpentToday
<1>5. Available(v, t) \in Nat
  BY <1>2, <1>4 DEF Available, Min2
<1> QED BY <1>1, <1>4, <1>5

\* available_gold_reserve_spending is the most that spend_gold_reserve accepts.
LEMMA SpendAvailable ==
  ASSUME NEW v \in Vaults, NEW t \in Nat, NEW n \in Nat \ {0}
  PROVE  CanSpend(v, t, n) <=> n <= Available(v, t)
<1>1. v.pool \in Nat /\ DailyLimit(v, t) \in Nat /\ SpentToday(v, t) \in Nat
  BY DayTypes DEF Vaults
<1>2. v.enabled \in BOOLEAN /\ v.paused \in BOOLEAN
  BY DEF Vaults
<1>3. CASE v.enabled /\ ~v.paused
  BY <1>1, <1>3 DEF CanSpend, Available, Min2
<1>4. CASE ~(v.enabled /\ ~v.paused)
  <2>1. Available(v, t) = 0
    BY <1>4 DEF Available
  <2>2. ~CanSpend(v, t, n)
    BY <1>4 DEF CanSpend
  <2> QED BY <2>1, <2>2
<1> QED BY <1>3, <1>4

\* spend_gold_reserve moves the amount from the pool to the commitments, stays
\* within the limit and takes it off what is available.
LEMMA SpentFacts ==
  ASSUME NEW v \in Vaults, NEW t \in Nat, NEW n \in Nat \ {0}, CanSpend(v, t, n)
  PROVE  LET w == Spent(v, t, n) IN
         /\ w \in Vaults
         /\ w.enabled = v.enabled /\ w.paused = v.paused /\ w.debt = v.debt
         /\ w.pool = v.pool - n /\ w.committed = v.committed + n
         /\ w.spent <= w.limit
         /\ w.day = v.day => w.limit = v.limit
         /\ Available(w, t) = Available(v, t) - n
<1> DEFINE w == Spent(v, t, n)
           dl == DailyLimit(v, t)
           st == SpentToday(v, t)
           today == budget_day(t)
<1>1. today \in Nat /\ dl \in Nat /\ st \in Nat
  BY DayTypes
<1>2. /\ v.enabled \in BOOLEAN /\ v.paused \in BOOLEAN /\ v.debt \in Nat
      /\ v.pool \in Nat /\ v.committed \in Nat /\ v.locked \in Nat
  BY DEF Vaults
<1>3. v.enabled /\ ~v.paused /\ n <= v.pool /\ n <= dl - st
  BY DEF CanSpend
<1>4. w = [v EXCEPT !.day = today, !.limit = dl, !.spent = st + n,
                    !.pool = v.pool - n, !.committed = v.committed + n]
  BY DEF Spent
<1>5. w.day = v.day => w.limit = v.limit
  <2>1. w.day = today /\ w.limit = dl
    BY <1>4 DEF Vaults
  <2>2. v.day = today => dl = v.limit
    BY DEF DailyLimit, NewDay
  <2> QED BY <2>1, <2>2
<1>6. Available(v, t) = Min2(v.pool, dl - st)
  BY <1>1, <1>2, <1>3 DEF Available
<1> HIDE DEF dl, st, today, w
<1>7. /\ w.enabled = v.enabled /\ w.paused = v.paused /\ w.debt = v.debt
      /\ w.pool = v.pool - n /\ w.committed = v.committed + n /\ w.locked = v.locked
      /\ w.spent = st + n /\ w.limit = dl /\ w.day = today
  BY <1>4 DEF Vaults
<1>8. w \in Vaults
  <2> DEFINE pl == v.pool - n
             cm == v.committed + n
             sp == st + n
  <2>1. pl \in Nat /\ cm \in Nat /\ sp \in Nat
    BY <1>1, <1>2, <1>3
  <2>2. w = [v EXCEPT !.day = today, !.limit = dl, !.spent = sp,
                      !.pool = pl, !.committed = cm]
    BY <1>4
  <2> HIDE DEF pl, cm, sp
  <2> QED BY <1>1, <2>1, <2>2 DEF Vaults
<1>9. w.spent <= w.limit
  BY <1>1, <1>3, <1>7
<1>10. DailyLimit(w, t) = dl /\ SpentToday(w, t) = st + n
  BY <1>7 DEF DailyLimit, SpentToday, NewDay, today
<1>11. Available(w, t) = IF st + n >= dl THEN 0 ELSE Min2(v.pool - n, dl - (st + n))
  BY <1>3, <1>7, <1>10 DEF Available
<1>12. Available(w, t) = Available(v, t) - n
  BY <1>1, <1>2, <1>3, <1>6, <1>11 DEF Min2
<1> QED BY <1>5, <1>7, <1>8, <1>9, <1>12 DEF w

\* A rebalance of a covered vault issues what the reserve covers, within the
\* supply limit, adds it to the pool and changes nothing of the day's spending.
LEMMA RebalancedFacts ==
  ASSUME NEW v \in Vaults, NEW sup \in Nat, NEW res \in Nat, NEW price \in Prices,
         ~v.paused, v.debt <= DebtForCR(res, price), sup <= GoldMax
  PROVE  LET w == Rebalanced(v, sup, res, price) IN
         /\ w \in Vaults
         /\ w.enabled = v.enabled /\ ~w.paused
         /\ w.debt >= v.debt /\ w.debt <= DebtForCR(res, price)
         /\ w.pool - v.pool = w.debt - v.debt
         /\ w.committed = v.committed
         /\ w.spent = v.spent /\ w.limit = v.limit /\ w.day = v.day
         /\ sup + (w.debt - v.debt) <= GoldMax
<1> DEFINE w == Rebalanced(v, sup, res, price)
           i == Issue(v, sup, res, price)
           m == DebtForCR(res, price)
<1>1. m \in Nat
  BY DebtForCRCovered
<1>2. /\ v.debt \in Nat /\ v.pool \in Nat /\ v.committed \in Nat
      /\ v.spent \in Nat /\ v.limit \in Nat /\ v.day \in Nat
      /\ v.enabled \in BOOLEAN /\ v.paused \in BOOLEAN /\ v.paused = FALSE
  BY DEF Vaults
<1>3. i = Min2(m - v.debt, GoldMax - sup)
  BY DEF Issue
<1>4. v.debt <= m
  OBVIOUS
<1>5. w = [v EXCEPT !.locked = res, !.debt = v.debt + i, !.pool = v.pool + i]
  BY <1>1, <1>2, <1>4 DEF Rebalanced
<1> HIDE DEF w, i, m
<1>6. i \in Nat /\ i <= m - v.debt /\ sup + i <= GoldMax
  BY <1>1, <1>2, <1>3, <1>4, SupplyAssumption DEF Min2
<1>7. /\ w.enabled = v.enabled /\ w.paused = v.paused /\ w.debt = v.debt + i
      /\ w.pool = v.pool + i /\ w.committed = v.committed
      /\ w.spent = v.spent /\ w.limit = v.limit /\ w.day = v.day
  BY <1>5 DEF Vaults
<1>8. w \in Vaults
  <2> DEFINE db == v.debt + i
             pl == v.pool + i
  <2>1. db \in Nat /\ pl \in Nat
    BY <1>2, <1>6
  <2>2. w = [v EXCEPT !.locked = res, !.debt = db, !.pool = pl]
    BY <1>5
  <2> HIDE DEF db, pl
  <2> QED BY <2>1, <2>2 DEF Vaults
<1>9. w.debt - v.debt = i /\ w.pool - v.pool = i /\ w.debt >= v.debt /\ w.debt <= m
  BY <1>1, <1>2, <1>6, <1>7
<1> QED BY <1>2, <1>6, <1>7, <1>8, <1>9 DEF w, m

-----------------------------------------------------------------------------
(* Epochs of the GOLD feed.                                                *)

\* A quotient is at most its dividend.
LEMMA DivLe ==
  ASSUME NEW a \in Nat, NEW b \in Nat \ {0}
  PROVE  a \div b <= a
<1> DEFINE q == a \div b
<1>1. q \in Nat /\ b * q <= a
  BY DivFloor
<1> HIDE DEF q
<1>2. 1 * q <= b * q /\ b * q \in Nat
  BY <1>1, MulMono, MulNat
<1>3. q <= a
  BY <1>1, <1>2
<1> QED BY <1>3 DEF q

\* A quotient changes only at a multiple of the divisor.
LEMMA DivStep ==
  ASSUME NEW x \in Nat \ {0}, NEW r \in Nat \ {0}, x % r # 0
  PROVE  x \div r = (x - 1) \div r
<1>1. x \div r \in Nat /\ r * (x \div r) <= x /\ r * (x \div r) \in Nat
  BY DivFloor, MulNat
<1>2. x = r * (x \div r) + (x % r) /\ x % r \in Nat
  BY SMT
<1>3. r * (x \div r) <= x - 1
  BY <1>1, <1>2
<1>4. x \div r <= (x - 1) \div r
  BY <1>1, <1>3, DivGe, x - 1 \in Nat
<1>5. (x - 1) \div r <= x \div r
  BY DivMono, x - 1 \in Nat, x - 1 <= x
<1> QED BY <1>1, <1>4, <1>5, DivFloor, x - 1 \in Nat

\* The epoch of the next block: a new one when the feed is refreshed, the same
\* one otherwise, and never an earlier one.
LEMMA EpochStep ==
  ASSUME created \in 1..MaxBlock, block \in 0..MaxBlock, block + 1 <= MaxBlock
  PROVE  /\ Epoch(block) \in 0..MaxBlock /\ Epoch(block + 1) \in 0..MaxBlock
         /\ Epoch(block) <= Epoch(block + 1)
         /\ ~RefreshDue(block + 1) => Epoch(block + 1) = Epoch(block)
<1> DEFINE r == RefreshBlocks
           x == block + 1 - created
<1>0. r \in Nat \ {0} /\ MaxBlock \in Nat /\ block \in Nat /\ created \in Nat \ {0}
  BY RateAssumption, BoundAssumption
<1>1. CASE block + 1 <= created
  <2>1. Epoch(block + 1) = 0 /\ Epoch(block) = 0
    BY <1>0, <1>1 DEF Epoch
  <2> QED BY <2>1, <1>0
<1>2. CASE created < block + 1
  <2>1. x \in Nat \ {0} /\ x <= MaxBlock /\ x - 1 \in Nat
    BY <1>0, <1>2
  <2>2. Epoch(block + 1) = x \div r
    BY <1>0, <1>2 DEF Epoch
  <2>3. Epoch(block) = (x - 1) \div r
    <3>1. CASE created < block
      BY <1>0, <3>1, block - created = x - 1 DEF Epoch
    <3>2. CASE created = block
      <4>1. Epoch(block) = 0 /\ x - 1 = 0
        BY <1>0, <3>2 DEF Epoch
      <4>2. 0 \div r = 0
        BY <1>0, DivLe, DivFloor
      <4> QED BY <4>1, <4>2
    <3> QED BY <1>0, <1>2, <3>1, <3>2
  <2>4. RefreshDue(block + 1) <=> x % r = 0
    BY <1>0, <1>2 DEF RefreshDue, NoGold
  <2> HIDE DEF x, r
  <2>5. x \div r \in Nat /\ (x - 1) \div r \in Nat /\ x \div r <= x /\ (x - 1) \div r <= x - 1
    BY <1>0, <2>1, DivFloor, DivLe
  <2>6. (x - 1) \div r <= x \div r
    BY <1>0, <2>1, DivMono, x - 1 <= x
  <2>7. x % r # 0 => x \div r = (x - 1) \div r
    BY <1>0, <2>1, DivStep
  <2> QED BY <1>0, <2>1, <2>2, <2>3, <2>4, <2>5, <2>6, <2>7
<1> QED BY <1>0, <1>1, <1>2

-----------------------------------------------------------------------------
(* The inductive invariant.                                                *)

\* What the safety properties need of each other and of the vault.
Side ==
  /\ supply <= GoldMax
  /\ vault.enabled \/ vault = NoVault
  /\ vault.enabled => ReservePassed(time) /\ created # NoGold
  /\ vault.debt <= MaxShareSupply
  /\ vault.spent <= vault.limit
  /\ lastBudget <= time

IndInv ==
  /\ TypeOK
  /\ GoldConserved
  /\ CoreConserved
  /\ AlwaysCollateralized
  /\ NeverEmergency
  /\ FeedIsCurrent
  /\ BudgetIsAvailable
  /\ Side

\* The vault of a chain before the hardfork.
LEMMA NoVaultType ==
  /\ NoVault \in Vaults /\ ~NoVault.enabled /\ ~NoVault.paused
  /\ NoVault.debt = 0 /\ NoVault.pool = 0 /\ NoVault.committed = 0
  /\ NoVault.spent = 0 /\ NoVault.limit = 0
BY DEF NoVault, Vaults

\* The initial state satisfies the invariant.
LEMMA InitIndInv == Init => IndInv
<1> SUFFICES ASSUME Init PROVE IndInv
  OBVIOUS
<1>1. TypeOK
  <2>1. queue \in Seq(WorkerRecords)
    BY DEF Init
  <2> QED BY <2>1, NoVaultType, SupplyAssumption, BoundAssumption DEF Init, TypeOK, Phases, NoGold
<1>2. GoldConserved /\ CoreConserved
  BY NoVaultType, SupplyAssumption DEF Init, GoldConserved, CoreConserved
<1>3. AlwaysCollateralized /\ NeverEmergency /\ FeedIsCurrent /\ BudgetIsAvailable
  BY NoVaultType DEF Init, AlwaysCollateralized, NeverEmergency, FeedIsCurrent, BudgetIsAvailable
<1>4. Side
  BY NoVaultType, SupplyAssumption DEF Init, Side
<1> QED BY <1>1, <1>2, <1>3, <1>4 DEF IndInv

\* The parts of a vault have their types.
LEMMA VaultParts ==
  ASSUME NEW v \in Vaults
  PROVE  /\ v.enabled \in BOOLEAN /\ v.paused \in BOOLEAN
         /\ v.debt \in Nat /\ v.pool \in Nat /\ v.committed \in Nat
         /\ v.spent \in Nat /\ v.limit \in Nat /\ v.day \in Nat
BY DEF Vaults

\* The vault stays as covered as it was by steps that leave it alone and do not
\* lower the reserve, once the vault exists.
LEMMA KeepsCover ==
  ASSUME IndInv, reserve' \in Nat, vault' = vault, feed' = feed,
         vault.enabled => reserve <= reserve'
  PROVE  AlwaysCollateralized' /\ NeverEmergency'
<1>1. NeverEmergency'
  BY DEF IndInv, NeverEmergency
<1>2. AlwaysCollateralized'
  <2> SUFFICES ASSUME vault.enabled
               PROVE  2 * vault.debt * GoldPrice[feed].quote <= reserve' * GoldPrice[feed].base
    BY DEF AlwaysCollateralized
  <2>1. 2 * vault.debt * GoldPrice[feed].quote <= reserve * GoldPrice[feed].base
    BY DEF IndInv, AlwaysCollateralized
  <2>2. vault.debt \in Nat /\ reserve \in Nat /\ reserve' \in Nat /\ feed \in 0..MaxBlock
    BY VaultParts DEF IndInv, TypeOK
  <2>3. feed <= feed
    BY <2>2, BoundAssumption
  <2> QED BY <2>1, <2>2, <2>3, CoverGrows
<1> QED BY <1>1, <1>2

\* Transactions keep the invariant.
LEMMA TransactionsKeep ==
  ASSUME IndInv, NEW n \in Nat,
         CreateGold \/ BorrowGold(n) \/ RepayGold(n) \/ ReserveCore(n) \/ PayFee(n)
  PROVE  IndInv'
<1> USE DEF coreVars, goldVars
<1>0. /\ n \in Nat /\ MaxBlock \in Nat /\ GoldMax \in Nat
      /\ TypeOK /\ vault' = vault /\ phase' = phase /\ phase \in {"transactions", "maintenance"}
      /\ block' = block /\ time' = time
  BY BoundAssumption, SupplyAssumption
     DEF IndInv, CreateGold, BorrowGold, RepayGold, ReserveCore, PayFee
<1>a. vault.debt \in Nat /\ vault.pool \in Nat /\ vault.committed \in Nat
  BY <1>0, VaultParts DEF TypeOK
<1>1. TypeOK'
  <2>1. CASE CreateGold
    BY <1>0, <2>1 DEF CreateGold, TypeOK
  <2>2. CASE BorrowGold(n)
    BY <1>0, <2>2 DEF BorrowGold, TypeOK
  <2>3. CASE RepayGold(n)
    <3>1. supply - n \in Nat
      BY <1>0, <1>a, <2>3, SMTT(30) DEF RepayGold, IndInv, GoldConserved, TypeOK
    <3> QED BY <1>0, <2>3, <3>1 DEF RepayGold, TypeOK
  <2>4. CASE ReserveCore(n)
    BY <1>0, <2>4 DEF ReserveCore, TypeOK
  <2>5. CASE PayFee(n)
    BY <1>0, <2>5 DEF PayFee, TypeOK
  <2> QED BY <2>1, <2>2, <2>3, <2>4, <2>5
<1>2. GoldConserved' /\ CoreConserved'
  <2>1. /\ reserve \in Nat /\ fees \in Nat /\ witnessBudget \in Nat /\ coreHeld \in Nat
        /\ supply \in Nat /\ userDebt \in Nat /\ held \in Nat
    BY <1>0 DEF TypeOK
  <2>2. \/ supply' = supply /\ userDebt' = userDebt /\ held' = held
        \/ supply' = supply + n /\ userDebt' = userDebt + n /\ held' = held + n
        \/ supply' = supply - n /\ userDebt' = userDebt - n /\ held' = held - n
    BY DEF CreateGold, BorrowGold, RepayGold, ReserveCore, PayFee
  <2>3. /\ supply = userDebt + vault.debt /\ supply = vault.pool + held
        /\ vault.debt = vault.pool + vault.committed
    BY DEF IndInv, GoldConserved
  <2>4. GoldConserved'
    BY <1>0, <1>a, <2>1, <2>2, <2>3 DEF GoldConserved
  <2>5. /\ witnessBudget' = witnessBudget
        /\ \/ reserve' = reserve /\ fees' = fees /\ coreHeld' = coreHeld
           \/ reserve' = reserve + n /\ fees' = fees /\ coreHeld' = coreHeld - n
           \/ reserve' = reserve /\ fees' = fees + n /\ coreHeld' = coreHeld - n
    BY DEF CreateGold, BorrowGold, RepayGold, ReserveCore, PayFee
  <2>6. reserve + fees + witnessBudget + coreHeld = CoreMax
    BY DEF IndInv, CoreConserved
  <2>7. CoreConserved'
    BY <1>0, <2>1, <2>5, <2>6 DEF CoreConserved
  <2> QED BY <2>4, <2>7
<1>3. AlwaysCollateralized' /\ NeverEmergency'
  <2>1. CASE CreateGold
    <3>1. ~vault.enabled /\ ~vault'.enabled
      BY <1>0, <2>1 DEF CreateGold, IndInv, Side
    <3> QED BY <1>0, <3>1 DEF AlwaysCollateralized, NeverEmergency, IndInv
  <2>2. CASE ~CreateGold
    <3>1. feed' = feed /\ reserve <= reserve'
      BY <1>0, <2>2 DEF TypeOK, BorrowGold, RepayGold, ReserveCore, PayFee
    <3>2. reserve' \in Nat
      BY <1>1 DEF TypeOK
    <3> QED BY <1>0, <3>1, <3>2, KeepsCover
  <2> QED BY <2>1, <2>2
<1>4. FeedIsCurrent'
  <2>1. CASE CreateGold
    <3>1. created' = block + 1 /\ feed' = 0 /\ block' = block
      BY <2>1 DEF CreateGold
    <3>2. block' <= created'
      BY <3>1, <1>0 DEF TypeOK
    <3> QED BY <3>1, <3>2 DEF FeedIsCurrent, Epoch
  <2>2. CASE ~CreateGold
    BY <1>0, <2>2 DEF IndInv, FeedIsCurrent, Epoch, BorrowGold, RepayGold, ReserveCore, PayFee
  <2> QED BY <2>1, <2>2
<1>5. BudgetIsAvailable'
  BY <1>0 DEF BudgetIsAvailable
<1>6. Side'
  <2>1. supply' <= GoldMax
    BY <1>0 DEF IndInv, Side, TypeOK, CreateGold, BorrowGold, RepayGold, ReserveCore, PayFee
  <2>2. lastBudget' = lastBudget
    BY DEF CreateGold, BorrowGold, RepayGold, ReserveCore, PayFee
  <2>3. vault.enabled => created' = created
    BY DEF IndInv, Side, CreateGold, BorrowGold, RepayGold, ReserveCore, PayFee
  <2> QED BY <1>0, <2>1, <2>2, <2>3 DEF IndInv, Side, ReservePassed
<1> QED BY <1>1, <1>2, <1>3, <1>4, <1>5, <1>6 DEF IndInv

\* The vault that initialize_gold_reserve_vault creates owes nothing yet.
LEMMA NewVaultType ==
  ASSUME NEW res \in Nat, NEW t \in Nat
  PROVE  LET v == NewVault(res, t) IN
         /\ v \in Vaults /\ v.enabled /\ ~v.paused
         /\ v.debt = 0 /\ v.pool = 0 /\ v.committed = 0 /\ v.spent = 0 /\ v.limit = 0
<1> DEFINE d == IF budget_day(t) = 0 THEN 0 ELSE budget_day(t) - 1
<1>1. budget_day(t) \in Nat
  BY RateAssumption, DivFloor DEF budget_day
<1>2. d \in Nat
  BY <1>1
<1>3. NewVault(res, t) = [NoVault EXCEPT !.enabled = TRUE, !.locked = res, !.day = d]
  BY DEF NewVault
<1> HIDE DEF d
<1>4. NewVault(res, t) =
        [enabled |-> TRUE, paused |-> FALSE, locked |-> res, debt |-> 0, pool |-> 0,
         committed |-> 0, spent |-> 0, limit |-> 0, day |-> d]
  BY <1>3 DEF NoVault
<1> QED BY <1>2, <1>4 DEF Vaults

\* update_global_dynamic_data keeps the invariant.
LEMMA UpdateGlobalKeeps ==
  ASSUME IndInv, NEW dt \in {1, 2}, UpdateGlobalDynamicData(dt)
  PROVE  IndInv'
<1> USE DEF coreVars, goldVars
<1> DEFINE now == time + dt
           head == block + 1
           exists == ReservePassed(now) /\ created # NoGold
           v == IF vault.enabled THEN vault ELSE NewVault(reserve, now)
           due == RefreshDue(head)
           price == GoldPrice[feed']
<1>0. /\ phase' = "witness" /\ block' = head /\ time' = now /\ block < MaxBlock
      /\ feed' = IF due THEN Epoch(head) ELSE feed
      /\ vault' = IF exists /\ (~vault.enabled \/ due)
                  THEN Rebalanced(v, supply, reserve, price) ELSE vault
      /\ supply' = supply + (vault'.debt - vault.debt)
      /\ UNCHANGED <<reserve, fees, witnessBudget, lastBudget, coreHeld, created,
                     userDebt, held, queue, budget>>
  BY DEF UpdateGlobalDynamicData
<1>1. /\ block \in 0..MaxBlock /\ time \in Nat /\ lastBudget \in Nat /\ MaxBlock \in Nat
      /\ created \in {NoGold} \cup (1..MaxBlock) /\ feed \in 0..MaxBlock
      /\ reserve \in Nat /\ supply \in Nat /\ userDebt \in Nat /\ held \in Nat
      /\ vault \in Vaults
  BY BoundAssumption DEF IndInv, TypeOK
<1>2. /\ vault.enabled \in BOOLEAN /\ vault.debt \in Nat /\ vault.pool \in Nat
      /\ vault.committed \in Nat
  BY <1>1, VaultParts
<1>3. now \in Nat /\ now >= time /\ head \in 0..MaxBlock
  BY <1>0, <1>1
<1>4. /\ feed' \in 0..MaxBlock
      /\ created # NoGold => feed' = Epoch(head)
      /\ feed <= feed'
  <2>1. CASE created = NoGold
    <3>1. ~due
      BY <2>1 DEF RefreshDue
    <3> QED BY <1>0, <1>1, <2>1, <3>1
  <2>2. CASE created \in 1..MaxBlock
    <3>1. feed = Epoch(block)
      BY <2>2, <1>1 DEF IndInv, FeedIsCurrent, NoGold
    <3>2. /\ Epoch(block) \in 0..MaxBlock /\ Epoch(head) \in 0..MaxBlock
          /\ Epoch(block) <= Epoch(head)
          /\ ~due => Epoch(head) = Epoch(block)
      BY <1>0, <1>1, <1>3, <2>2, EpochStep
    <3> HIDE DEF due, head
    <3> QED BY <1>0, <1>1, <3>1, <3>2
  <2> QED BY <1>1, <2>1, <2>2
<1>5. price \in Prices
  BY <1>4, PriceAssumption
<1>6. /\ supply <= GoldMax /\ vault.debt <= MaxShareSupply /\ vault.spent <= vault.limit
      /\ vault.enabled \/ vault = NoVault
      /\ vault.enabled => ReservePassed(time) /\ created # NoGold
      /\ lastBudget <= time /\ ~vault.paused
  BY DEF IndInv, Side, NeverEmergency
<1>7. /\ v \in Vaults /\ ~v.paused /\ v.debt = vault.debt /\ v.pool = vault.pool
      /\ v.committed = vault.committed /\ v.spent <= v.limit
  <2>1. CASE vault.enabled
    BY <1>1, <1>6, <2>1
  <2>2. CASE ~vault.enabled
    <3>1. vault = NoVault /\ v = NewVault(reserve, now)
      BY <1>6, <2>2
    <3> HIDE DEF v, now
    <3>2. v \in Vaults /\ ~v.paused /\ v.debt = 0 /\ v.pool = 0 /\ v.committed = 0
      BY <1>1, <1>3, <3>1, NewVaultType
    <3>3. v.spent = 0 /\ v.limit = 0
      BY <1>1, <1>3, <3>1, NewVaultType
    <3> QED BY <3>1, <3>2, <3>3, NoVaultType
  <2> QED BY <2>1, <2>2
<1>8. vault.debt \in Nat /\ 2 * vault.debt * price.quote <= reserve * price.base
  <2>1. CASE vault.enabled
    <3>1. 2 * vault.debt * GoldPrice[feed].quote <= reserve * GoldPrice[feed].base
      BY <2>1 DEF IndInv, AlwaysCollateralized
    <3> QED BY <1>1, <1>2, <1>4, <3>1, CoverGrows, reserve <= reserve
  <2>2. CASE ~vault.enabled
    <3>1. vault.debt = 0
      BY <1>6, <2>2, NoVaultType
    <3>2. price.quote \in Nat /\ price.base \in Nat
      BY <1>5 DEF Prices
    <3> HIDE DEF price
    <3> QED BY <1>1, <3>1, <3>2, MulNat, SMT
  <2> QED BY <2>1, <2>2
<1> HIDE DEF price, v
<1>9. vault.debt <= DebtForCR(reserve, price)
  BY <1>1, <1>5, <1>6, <1>8, DebtForCRLargest
<1>10. /\ vault' \in Vaults /\ ~vault'.paused
       /\ vault'.debt \in Nat /\ vault'.debt >= vault.debt
       /\ vault'.debt <= MaxShareSupply
       /\ 2 * vault'.debt * price.quote <= reserve * price.base
       /\ vault'.pool - vault.pool = vault'.debt - vault.debt
       /\ vault'.committed = vault.committed
       /\ vault'.spent <= vault'.limit
       /\ supply' <= GoldMax
  <2>1. CASE vault' = vault
    <3>1. supply' = supply /\ vault'.pool - vault.pool = vault'.debt - vault.debt
      BY <1>0, <1>1, <1>2, <2>1
    <3> QED BY <1>1, <1>2, <1>6, <1>8, <2>1, <3>1
  <2>2. CASE vault' = Rebalanced(v, supply, reserve, price)
    <3> DEFINE w == Rebalanced(v, supply, reserve, price)
    <3>0. v.debt <= DebtForCR(reserve, price)
      BY <1>7, <1>9
    <3>1. /\ w \in Vaults /\ ~w.paused
          /\ w.debt >= v.debt /\ w.debt <= DebtForCR(reserve, price)
          /\ w.pool - v.pool = w.debt - v.debt
          /\ w.committed = v.committed
          /\ w.spent = v.spent /\ w.limit = v.limit
          /\ supply + (w.debt - v.debt) <= GoldMax
      BY <1>1, <1>5, <1>6, <1>7, <3>0, RebalancedFacts
    <3>2. vault' = w
      BY <2>2
    <3> HIDE DEF w
    <3>3. w.debt \in Nat
      BY <3>1, VaultParts
    <3> DEFINE m == DebtForCR(reserve, price)
    <3>4. m \in Nat /\ m <= MaxShareSupply /\ 2 * m * price.quote <= reserve * price.base
      BY <1>1, <1>5, DebtForCRCovered
    <3>5. w.debt <= m
      BY <3>1
    <3> HIDE DEF m
    <3>6. price.quote \in Nat /\ price.base \in Nat
      BY <1>5 DEF Prices
    <3>7. 2 * w.debt * price.quote <= reserve * price.base
      <4>1. 2 * w.debt <= 2 * m /\ 2 * w.debt \in Nat /\ 2 * m \in Nat
        BY <3>3, <3>4, <3>5
      <4>2. (2 * w.debt) * price.quote <= (2 * m) * price.quote
        BY <3>6, <4>1, MulMono
      <4>3. (2 * w.debt) * price.quote \in Nat /\ (2 * m) * price.quote \in Nat
            /\ reserve * price.base \in Nat
        BY <1>1, <3>6, <4>1, MulNat
      <4> QED BY <3>4, <4>2, <4>3, SMT
    <3>8. w.debt <= MaxShareSupply
      BY <3>3, <3>4, <3>5, SupplyAssumption
    <3>9. supply' <= GoldMax
      BY <1>0, <1>7, <3>1, <3>2
    <3> QED BY <1>7, <3>1, <3>2, <3>3, <3>7, <3>8, <3>9
  <2> QED BY <1>0, <2>1, <2>2
<1>11. vault'.enabled => ReservePassed(time') /\ created' # NoGold
  <2>1. CASE vault' = vault
    BY <1>0, <1>1, <1>3, <1>6, <2>1, RateAssumption DEF ReservePassed
  <2>2. CASE exists
    BY <1>0, <2>2
  <2> QED BY <1>0, <2>1, <2>2
<1>12. vault'.enabled \/ vault' = NoVault
  <2>1. CASE vault' = vault
    BY <1>6, <2>1
  <2>2. CASE vault' = Rebalanced(v, supply, reserve, price)
    <3>1. v.debt <= DebtForCR(reserve, price)
      BY <1>7, <1>9
    <3>2. vault'.enabled = v.enabled
      BY <1>1, <1>5, <1>6, <1>7, <2>2, <3>1, RebalancedFacts
    <3>3. v.enabled
      <4>1. CASE vault.enabled
        BY <4>1 DEF v
      <4>2. CASE ~vault.enabled
        <5>1. NewVault(reserve, now).enabled
          BY <1>1, <1>3, NewVaultType
        <5> QED BY <4>2, <5>1 DEF v
      <4> QED BY <4>1, <4>2
    <3> QED BY <3>2, <3>3
  <2> QED BY <1>0, <2>1, <2>2
<1>13. supply' \in Nat
  BY <1>0, <1>1, <1>2, <1>10
<1>14. TypeOK'
  BY <1>0, <1>3, <1>4, <1>10, <1>13 DEF IndInv, TypeOK, Phases
<1>15. GoldConserved'
  <2>1. /\ supply = userDebt + vault.debt /\ supply = vault.pool + held
        /\ vault.debt = vault.pool + vault.committed
    BY DEF IndInv, GoldConserved
  <2>2. vault'.pool \in Nat
    BY <1>10, VaultParts
  <2>3. userDebt' = userDebt /\ held' = held /\ supply' = supply + (vault'.debt - vault.debt)
    BY <1>0
  <2> QED BY <1>1, <1>2, <1>10, <2>1, <2>2, <2>3 DEF GoldConserved
<1>16. CoreConserved'
  BY <1>0 DEF IndInv, CoreConserved
<1>17. AlwaysCollateralized' /\ NeverEmergency'
  BY <1>0, <1>10 DEF AlwaysCollateralized, NeverEmergency, price
<1>18. FeedIsCurrent'
  <2>1. created' # NoGold => feed' = Epoch(head)
    BY <1>0, <1>4
  <2>2. Epoch(block)' = Epoch(head)
    BY <1>0 DEF Epoch
  <2> QED BY <2>1, <2>2 DEF FeedIsCurrent
<1>19. BudgetIsAvailable'
  BY <1>0 DEF BudgetIsAvailable
<1>20. lastBudget' <= time'
  BY <1>0, <1>1, <1>3, <1>6
<1>21. Side'
  BY <1>10, <1>11, <1>12, <1>20 DEF Side
<1> QED BY <1>14, <1>15, <1>16, <1>17, <1>18, <1>19, <1>21 DEF IndInv

\* Steps after update_global_dynamic_data that leave the vault alone.
LEMMA QuietStep ==
  ASSUME IndInv,
         UNCHANGED <<block, time, created, feed, supply, userDebt, held, vault>>,
         lastBudget' \in {lastBudget, time}, reserve' \in Nat,
         vault.enabled => reserve <= reserve'
  PROVE  /\ GoldConserved' /\ AlwaysCollateralized' /\ NeverEmergency'
         /\ FeedIsCurrent' /\ Side'
<1>1. AlwaysCollateralized' /\ NeverEmergency'
  BY KeepsCover
<1>2. GoldConserved' /\ FeedIsCurrent'
  BY DEF IndInv, GoldConserved, FeedIsCurrent, Epoch
<1>3. lastBudget' <= time'
  <2>1. time \in Nat /\ lastBudget \in Nat /\ lastBudget <= time
    BY DEF IndInv, TypeOK, Side
  <2> QED BY <2>1
<1>4. Side'
  BY <1>3 DEF IndInv, Side, ReservePassed
<1> QED BY <1>1, <1>2, <1>4

\* Steps that pay n GOLD out of the vault.
LEMMA SpendStep ==
  ASSUME IndInv, NEW n \in Nat \ {0}, CanSpend(vault, time, n),
         UNCHANGED <<block, time, created, feed, reserve, supply, userDebt, lastBudget>>,
         vault' = Spent(vault, time, n), held' = held + n
  PROVE  /\ vault' \in Vaults /\ held' \in Nat
         /\ GoldConserved' /\ AlwaysCollateralized' /\ NeverEmergency'
         /\ FeedIsCurrent' /\ Side'
         /\ Available(vault', time) = Available(vault, time) - n
<1>1. vault \in Vaults /\ time \in Nat /\ supply \in Nat /\ userDebt \in Nat /\ held \in Nat
  BY DEF IndInv, TypeOK
<1>2. /\ vault' \in Vaults
      /\ vault'.enabled = vault.enabled /\ vault'.paused = vault.paused
      /\ vault'.debt = vault.debt
      /\ vault'.pool = vault.pool - n /\ vault'.committed = vault.committed + n
      /\ vault'.spent <= vault'.limit
      /\ Available(vault', time) = Available(vault, time) - n
  BY <1>1, SpentFacts
<1>3. vault.debt \in Nat /\ vault.pool \in Nat /\ vault.committed \in Nat
  BY <1>1, VaultParts
<1>4. held' \in Nat
  BY <1>1
<1>5. GoldConserved'
  <2>1. /\ supply = userDebt + vault.debt /\ supply = vault.pool + held
        /\ vault.debt = vault.pool + vault.committed
    BY DEF IndInv, GoldConserved
  <2> QED BY <1>1, <1>2, <1>3, <2>1 DEF GoldConserved
<1>6. AlwaysCollateralized' /\ NeverEmergency'
  BY <1>2 DEF IndInv, AlwaysCollateralized, NeverEmergency
<1>7. FeedIsCurrent'
  BY DEF IndInv, FeedIsCurrent, Epoch
<1>8. Side'
  <2>1. vault.enabled
    BY DEF CanSpend
  <2> QED BY <1>2, <2>1 DEF IndInv, Side, ReservePassed
<1> QED BY <1>2, <1>4, <1>5, <1>6, <1>7, <1>8

\* update_signing_witness keeps the invariant.
LEMMA UpdateWitnessKeeps ==
  ASSUME IndInv, NEW maint \in BOOLEAN, UpdateSigningWitness(maint)
  PROVE  IndInv'
<1> USE DEF coreVars, goldVars
<1>0. /\ phase' \in {"maintenance", "transactions"}
      /\ UNCHANGED <<block, time, reserve, fees, lastBudget, created, feed, supply,
                     userDebt, queue, budget>>
  BY DEF UpdateSigningWitness
<1>1. BudgetIsAvailable'
  BY <1>0 DEF BudgetIsAvailable
<1>2. reserve \in Nat /\ reserve' \in Nat /\ reserve <= reserve'
  BY <1>0 DEF IndInv, TypeOK
<1>3. CASE /\ CanSpend(vault, time, WitnessGold) /\ WitnessGold > 0
           /\ vault' = Spent(vault, time, WitnessGold) /\ held' = held + WitnessGold
           /\ UNCHANGED <<witnessBudget, coreHeld>>
  <2>1. WitnessGold \in Nat \ {0}
    BY <1>3, RateAssumption
  <2>2. /\ vault' \in Vaults /\ held' \in Nat
        /\ GoldConserved' /\ AlwaysCollateralized' /\ NeverEmergency'
        /\ FeedIsCurrent' /\ Side'
    BY <1>0, <1>3, <2>1, SpendStep
  <2>3. TypeOK'
    BY <1>0, <1>3, <2>2 DEF IndInv, TypeOK, Phases
  <2>4. CoreConserved'
    BY <1>0, <1>3 DEF IndInv, CoreConserved
  <2> QED BY <1>1, <2>2, <2>3, <2>4 DEF IndInv
<1>4. CASE UNCHANGED <<vault, held, witnessBudget, coreHeld>>
  <2>1. /\ GoldConserved' /\ AlwaysCollateralized' /\ NeverEmergency'
        /\ FeedIsCurrent' /\ Side'
    BY <1>0, <1>2, <1>4, QuietStep
  <2>2. TypeOK'
    BY <1>0, <1>4 DEF IndInv, TypeOK, Phases
  <2>3. CoreConserved'
    BY <1>0, <1>4 DEF IndInv, CoreConserved
  <2> QED BY <1>1, <2>1, <2>2, <2>3 DEF IndInv
<1>5. CASE /\ witnessBudget' = witnessBudget - Min2(WitnessCore, witnessBudget)
           /\ coreHeld' = coreHeld + Min2(WitnessCore, witnessBudget)
           /\ UNCHANGED <<vault, held>>
  <2>1. /\ GoldConserved' /\ AlwaysCollateralized' /\ NeverEmergency'
        /\ FeedIsCurrent' /\ Side'
    BY <1>0, <1>2, <1>5, QuietStep
  <2>2. /\ reserve \in Nat /\ fees \in Nat /\ witnessBudget \in Nat /\ coreHeld \in Nat
        /\ WitnessCore \in Nat
    BY RateAssumption DEF IndInv, TypeOK
  <2>3. witnessBudget' \in Nat /\ coreHeld' \in Nat
    BY <1>5, <2>2 DEF Min2
  <2>4. TypeOK'
    BY <1>0, <1>5, <2>3 DEF IndInv, TypeOK, Phases
  <2>5. reserve + fees + witnessBudget + coreHeld = CoreMax
    BY DEF IndInv, CoreConserved
  <2>6. CoreConserved'
    BY <1>0, <1>5, <2>2, <2>5 DEF CoreConserved, Min2
  <2> QED BY <1>1, <2>1, <2>4, <2>6 DEF IndInv
<1> QED BY <1>3, <1>4, <1>5 DEF UpdateSigningWitness

\* process_budget before the hardfork keeps the invariant.
LEMMA LegacyBudgetKeeps ==
  ASSUME IndInv, NEW total \in 0..CoreMax, NEW paid \in 0..WorkerCore,
         NEW refunded \in 0..WorkerCore, LegacyBudget(total, paid, refunded)
  PROVE  IndInv'
<1> USE DEF coreVars, goldVars
<1> DEFINE new == Min2(BudgetCore, total)
           worker == Min2(WorkerCore, total - new)
<1>0. /\ ~ReservePassed(time) /\ total <= reserve + fees + witnessBudget
      /\ paid + refunded <= worker
      /\ reserve' = reserve - (new + paid + refunded - fees - witnessBudget) + refunded
      /\ coreHeld' = coreHeld + paid /\ fees' = 0 /\ witnessBudget' = new
      /\ lastBudget' = time /\ phase' = "transactions"
      /\ UNCHANGED <<block, time, created, feed, supply, userDebt, held, vault, queue, budget>>
  BY DEF LegacyBudget
<1>1. /\ reserve \in Nat /\ fees \in Nat /\ witnessBudget \in Nat /\ coreHeld \in Nat
      /\ total \in Nat /\ paid \in Nat /\ refunded \in Nat /\ time \in Nat
      /\ WorkerCore \in Nat /\ BudgetCore \in Nat
  BY RateAssumption, SupplyAssumption DEF IndInv, TypeOK
<1>2. new \in Nat /\ new <= total /\ worker <= total - new /\ worker \in Nat
  BY <1>1 DEF Min2
<1> HIDE DEF new, worker
<1>3. reserve' \in Nat /\ coreHeld' \in Nat
  BY <1>0, <1>1, <1>2
<1>4. ~vault.enabled
  BY <1>0 DEF IndInv, Side
<1>5. /\ GoldConserved' /\ AlwaysCollateralized' /\ NeverEmergency'
      /\ FeedIsCurrent' /\ Side'
  BY <1>0, <1>3, <1>4, QuietStep
<1>6. TypeOK'
  BY <1>0, <1>1, <1>2, <1>3 DEF IndInv, TypeOK, Phases
<1>7. reserve + fees + witnessBudget + coreHeld = CoreMax
  BY DEF IndInv, CoreConserved
<1>8. CoreConserved'
  BY <1>0, <1>1, <1>2, <1>7 DEF CoreConserved
<1>9. BudgetIsAvailable'
  BY <1>0 DEF BudgetIsAvailable
<1> QED BY <1>5, <1>6, <1>8, <1>9 DEF IndInv

\* The head and the tail of a nonempty sequence.
LEMMA SeqParts ==
  ASSUME NEW S, NEW q \in Seq(S), q # << >>
  PROVE  q[1] \in S /\ Tail(q) \in Seq(S)
BY SMT

\* Reading the budget keeps the invariant.
LEMMA StartWorkersKeeps ==
  ASSUME IndInv, StartWorkers
  PROVE  IndInv'
<1> USE DEF coreVars, goldVars
<1>0. /\ phase' = "workers" /\ budget' = Available(vault, time)
      /\ queue' = IF created # NoGold THEN Workers ELSE << >>
      /\ UNCHANGED <<block, time, reserve, fees, witnessBudget, lastBudget, coreHeld,
                     created, feed, supply, userDebt, held, vault>>
  BY DEF StartWorkers
<1>1. vault \in Vaults /\ time \in Nat /\ reserve \in Nat /\ reserve <= reserve'
  BY <1>0 DEF IndInv, TypeOK
<1>2. Available(vault, time) \in Nat
  BY <1>1, DayTypes
<1>3. /\ GoldConserved' /\ AlwaysCollateralized' /\ NeverEmergency'
      /\ FeedIsCurrent' /\ Side'
  BY <1>0, <1>1, QuietStep
<1>4. queue' \in Seq(WorkerRecords)
  <2> HIDE DEF WorkerRecords
  <2>1. << >> \in Seq(WorkerRecords)
    OBVIOUS
  <2> QED BY <1>0, <2>1, WorkerAssumption
<1>5. TypeOK'
  BY <1>0, <1>2, <1>4 DEF IndInv, TypeOK, Phases
<1>6. CoreConserved'
  BY <1>0 DEF IndInv, CoreConserved
<1>7. BudgetIsAvailable'
  <2>1. budget' = Available(vault', time')
    BY <1>0
  <2> QED BY <1>0, <1>2, <2>1 DEF BudgetIsAvailable
<1> QED BY <1>3, <1>5, <1>6, <1>7 DEF IndInv

\* Steps of the worker loop that lower the budget and pay nobody.
LEMMA LowerBudgetKeeps ==
  ASSUME IndInv, phase = "workers", phase' = phase,
         queue' \in Seq(WorkerRecords), budget' \in Nat, budget' <= budget,
         UNCHANGED <<block, time, reserve, fees, witnessBudget, lastBudget, coreHeld,
                     created, feed, supply, userDebt, held, vault>>
  PROVE  IndInv'
<1>1. /\ vault \in Vaults /\ time \in Nat /\ reserve \in Nat /\ reserve <= reserve'
      /\ budget \in Nat
  BY DEF IndInv, TypeOK
<1>2. /\ GoldConserved' /\ AlwaysCollateralized' /\ NeverEmergency'
      /\ FeedIsCurrent' /\ Side'
  BY <1>1, QuietStep
<1>3. TypeOK'
  BY DEF IndInv, TypeOK, Phases
<1>4. CoreConserved'
  BY DEF IndInv, CoreConserved
<1>5. BudgetIsAvailable'
  <2>1. Available(vault, time) \in Nat /\ budget <= Available(vault, time)
    BY <1>1, DayTypes DEF IndInv, BudgetIsAvailable
  <2>2. budget' <= Available(vault, time)
    BY <1>1, <2>1
  <2> QED BY <2>2 DEF BudgetIsAvailable
<1> QED BY <1>2, <1>3, <1>4, <1>5 DEF IndInv

\* Percentages are taken of a positive number.
LEMMA HundredType == HundredPercent \in Nat \ {0}
  BY DEF HundredPercent

\* A refund worker gives back at most all of its pay.
LEMMA RatioType ==
  ASSUME NEW w \in WorkerRecords
  PROVE  w.ratio \in Nat /\ w.ratio <= HundredPercent
<1>1. w.ratio \in 0..HundredPercent
  BY DEF WorkerRecords
<1> QED BY <1>1, HundredType

\* Refund and skipped workers keep the invariant.
LEMMA UnpaidWorkersKeep ==
  ASSUME IndInv, RefundWorker \/ SkipWorker
  PROVE  IndInv'
<1> USE DEF coreVars, goldVars
<1>0. /\ phase = "workers" /\ phase' = phase /\ queue # << >>
      /\ UNCHANGED <<block, time, reserve, fees, witnessBudget, lastBudget, coreHeld,
                     created, feed, supply, userDebt, held, vault>>
  BY DEF RefundWorker, SkipWorker
<1>1. queue \in Seq(WorkerRecords) /\ budget \in Nat
  BY DEF IndInv, TypeOK
<1>2. queue[1] \in WorkerRecords /\ Tail(queue) \in Seq(WorkerRecords)
  BY <1>0, <1>1, SeqParts
<1>3. << >> \in Seq(WorkerRecords)
  OBVIOUS
<1>4. queue' \in Seq(WorkerRecords)
  <2>1. queue' \in {<< >>, Tail(queue)}
    BY DEF RefundWorker, SkipWorker
  <2> QED BY <1>2, <1>3, <2>1
<1>5. budget' \in Nat /\ budget' <= budget
  <2>1. CASE SkipWorker
    BY <1>1, <2>1 DEF SkipWorker
  <2>2. CASE RefundWorker
    <3> DEFINE r == queue[1].ratio
               rejected == (budget * r) \div HundredPercent
    <3>1. r \in Nat /\ r <= HundredPercent
      BY <1>2, RatioType
    <3>2. budget' = budget - rejected
      BY <2>2 DEF RefundWorker
    <3> HIDE DEF r
    <3>3. budget * r \in Nat /\ budget * r <= budget * HundredPercent
      BY <1>1, <3>1, HundredType, MulMono, MulNat
    <3>4. rejected \in Nat /\ HundredPercent * rejected <= budget * r
      BY <3>3, HundredType, DivFloor
    <3> HIDE DEF rejected
    <3>5. rejected * HundredPercent <= budget * HundredPercent
      BY <1>1, <3>3, <3>4, HundredType, MulNat
    <3>6. rejected <= budget
      BY <1>1, <3>4, <3>5, HundredType, MulCancel
    <3> QED BY <1>1, <3>2, <3>4, <3>6
  <2> QED BY <2>1, <2>2
<1> QED BY <1>0, <1>4, <1>5, LowerBudgetKeeps

\* Paying a worker keeps the invariant.
LEMMA PayWorkerKeeps ==
  ASSUME IndInv, PayWorker
  PROVE  IndInv'
<1> USE DEF coreVars, goldVars
<1> DEFINE a == Available(vault, time)
           reward == Min2(Requested(queue[1]), Min2(budget, a))
<1>0. /\ phase = "workers" /\ phase' = phase /\ queue # << >>
      /\ Requested(queue[1]) \in 1..MaxShareSupply
      /\ UNCHANGED <<block, time, reserve, fees, witnessBudget, lastBudget, coreHeld,
                     created, feed, supply, userDebt>>
      /\ queue' \in {<< >>, Tail(queue)}
  BY DEF PayWorker
<1>1. /\ queue \in Seq(WorkerRecords) /\ budget \in Nat /\ vault \in Vaults
      /\ time \in Nat /\ MaxShareSupply \in Nat
  BY SupplyAssumption DEF IndInv, TypeOK
<1>2. << >> \in Seq(WorkerRecords) /\ Tail(queue) \in Seq(WorkerRecords)
  BY <1>0, <1>1, SeqParts
<1>3. queue' \in Seq(WorkerRecords)
  BY <1>0, <1>2
<1>4. a \in Nat /\ budget <= a
  BY <1>0, <1>1, DayTypes DEF IndInv, BudgetIsAvailable
<1>5. CASE UNCHANGED <<vault, held, budget>>
  BY <1>0, <1>1, <1>3, <1>5, LowerBudgetKeeps
<1>6. CASE /\ ~(reward <= 0) /\ CanSpend(vault, time, reward)
           /\ vault' = Spent(vault, time, reward)
           /\ held' = held + reward /\ budget' = budget - reward
  <2>1. reward \in Nat \ {0} /\ reward <= budget
    BY <1>0, <1>1, <1>4, <1>6 DEF Min2
  <2> HIDE DEF reward
  <2>2. /\ vault' \in Vaults /\ held' \in Nat
        /\ GoldConserved' /\ AlwaysCollateralized' /\ NeverEmergency'
        /\ FeedIsCurrent' /\ Side'
        /\ Available(vault', time) = a - reward
    BY <1>0, <1>6, <2>1, SpendStep
  <2>3. budget' \in Nat
    BY <1>1, <1>6, <2>1
  <2>4. TypeOK'
    BY <1>0, <1>3, <2>2, <2>3 DEF IndInv, TypeOK
  <2>5. CoreConserved'
    BY <1>0 DEF IndInv, CoreConserved
  <2>6. BudgetIsAvailable'
    <3>1. Available(vault, time)' = Available(vault', time)
      BY <1>0
    <3> HIDE DEF a
    <3>2. budget' <= Available(vault', time)
      BY <1>1, <1>4, <1>6, <2>1, <2>2
    <3> QED BY <3>1, <3>2 DEF BudgetIsAvailable
  <2> QED BY <2>2, <2>4, <2>5, <2>6 DEF IndInv
<1> QED BY <1>5, <1>6 DEF PayWorker

\* The end of process_budget keeps the invariant.
LEMMA FinishBudgetKeeps ==
  ASSUME IndInv, FinishBudget
  PROVE  IndInv'
<1> USE DEF coreVars, goldVars
<1>0. /\ reserve' = reserve + fees + witnessBudget /\ fees' = 0 /\ witnessBudget' = 0
      /\ lastBudget' = time /\ budget' = 0 /\ phase' = "transactions"
      /\ UNCHANGED <<block, time, coreHeld, created, feed, supply, userDebt, held, vault, queue>>
  BY DEF FinishBudget
<1>1. /\ reserve \in Nat /\ fees \in Nat /\ witnessBudget \in Nat /\ coreHeld \in Nat
      /\ time \in Nat
  BY DEF IndInv, TypeOK
<1>2. reserve' \in Nat /\ reserve <= reserve'
  BY <1>0, <1>1
<1>3. /\ GoldConserved' /\ AlwaysCollateralized' /\ NeverEmergency'
      /\ FeedIsCurrent' /\ Side'
  BY <1>0, <1>2, QuietStep
<1>4. TypeOK'
  BY <1>0, <1>1, <1>2 DEF IndInv, TypeOK, Phases
<1>5. reserve + fees + witnessBudget + coreHeld = CoreMax
  BY DEF IndInv, CoreConserved
<1>6. CoreConserved'
  BY <1>0, <1>1, <1>5 DEF CoreConserved
<1>7. BudgetIsAvailable'
  BY <1>0 DEF BudgetIsAvailable
<1> QED BY <1>3, <1>4, <1>6, <1>7 DEF IndInv

\* Every step keeps the invariant.
LEMMA NextIndInv == IndInv /\ [Next]_vars => IndInv'
<1> SUFFICES ASSUME IndInv, [Next]_vars PROVE IndInv'
  OBVIOUS
<1>1. CASE CreateGold
  BY <1>1, TransactionsKeep, 0 \in Nat
<1>2. ASSUME NEW n \in Amounts, BorrowGold(n) \/ RepayGold(n) \/ ReserveCore(n) \/ PayFee(n)
      PROVE  IndInv'
  BY <1>2, TransactionsKeep, BoundAssumption
<1>3. ASSUME NEW dt \in {1, 2}, UpdateGlobalDynamicData(dt)
      PROVE  IndInv'
  BY <1>3, UpdateGlobalKeeps
<1>4. ASSUME NEW maint \in BOOLEAN, UpdateSigningWitness(maint)
      PROVE  IndInv'
  BY <1>4, UpdateWitnessKeeps
<1>5. ASSUME NEW total \in 0..CoreMax, NEW paid \in 0..WorkerCore,
             NEW refunded \in 0..WorkerCore, LegacyBudget(total, paid, refunded)
      PROVE  IndInv'
  BY <1>5, LegacyBudgetKeeps
<1>6. CASE StartWorkers
  BY <1>6, StartWorkersKeeps
<1>7. CASE RefundWorker \/ SkipWorker
  BY <1>7, UnpaidWorkersKeep
<1>8. CASE PayWorker
  BY <1>8, PayWorkerKeeps
<1>9. CASE FinishBudget
  BY <1>9, FinishBudgetKeeps
<1>10. CASE UNCHANGED vars
  BY <1>10 DEF vars, coreVars, goldVars, IndInv, TypeOK, GoldConserved, CoreConserved,
      AlwaysCollateralized, NeverEmergency, FeedIsCurrent, BudgetIsAvailable, Side, Epoch,
      ReservePassed
<1> QED BY <1>1, <1>2, <1>3, <1>4, <1>5, <1>6, <1>7, <1>8, <1>9, <1>10 DEF Next

-----------------------------------------------------------------------------
(* Theorems.                                                               *)

\* The invariant holds in every reachable state.
LEMMA SpecIndInv == Spec => []IndInv
<1> QED BY InitIndInv, NextIndInv, PTL DEF Spec

\* No balance, debt, budget or pool is ever negative and everything has its type
\* after any sequence of transactions, blocks and maintenances.
THEOREM TypeCorrect == Spec => []TypeOK
<1>1. IndInv => TypeOK
  BY DEF IndInv
<1> QED BY <1>1, SpecIndInv, PTL

\* GOLD and DFS are conserved by rebalance_gold_reserve_vault,
\* spend_gold_reserve and process_budget, also across the hardfork.
THEOREM Conservation == Spec => []Conserved
<1>1. IndInv => Conserved
  BY DEF IndInv, Conserved
<1> QED BY <1>1, SpecIndInv, PTL

\* The two roundings of calculate_gold_debt_for_cr, the reserve that changes
\* between rebalances and the feed that changes with the epochs never leave the
\* vault's debt covered less than twice.
THEOREM Collateralized == Spec => []AlwaysCollateralized
<1>1. IndInv => AlwaysCollateralized
  BY DEF IndInv
<1> QED BY <1>1, SpecIndInv, PTL

\* rebalance_gold_reserve_vault never latches emergency_mode.
THEOREM NoEmergency == Spec => []NeverEmergency
<1>1. IndInv => NeverEmergency
  BY DEF IndInv
<1> QED BY <1>1, SpecIndInv, PTL

\* refresh_scheduled_feeds keeps the GOLD feed at the epoch of the head block.
THEOREM FeedCurrent == Spec => []FeedIsCurrent
<1>1. IndInv => FeedIsCurrent
  BY DEF IndInv
<1> QED BY <1>1, SpecIndInv, PTL

\* available_gold_reserve_spending and spend_gold_reserve agree on what can be
\* spent, and the worker loop never promises more.
THEOREM SpendingAgrees == Spec => []SpendingExact
<1>1. IndInv => SpendingExact
  <2> SUFFICES ASSUME IndInv PROVE AvailableIsExact /\ BudgetIsAvailable
    BY DEF SpendingExact
  <2>1. vault \in Vaults /\ time \in Nat
    BY DEF IndInv, TypeOK
  <2>2. \A n \in 1..GoldMax : n \in Nat \ {0}
    BY SupplyAssumption
  <2>3. AvailableIsExact
    BY <2>1, <2>2, SpendAvailable DEF AvailableIsExact
  <2> QED BY <2>3 DEF IndInv
<1> QED BY <1>1, SpecIndInv, PTL

\* A step that leaves the vault alone keeps the day's limit.
LEMMA DailyLimitStep ==
  ASSUME IndInv, Next, vault.enabled
  PROVE  /\ vault'.spent <= vault'.limit
         /\ vault'.day = vault.day => vault'.limit = vault.limit
<1>1. vault'.spent <= vault'.limit
  BY NextIndInv DEF IndInv, Side
<1>0. vault \in Vaults /\ time \in Nat /\ supply \in Nat /\ reserve \in Nat
  BY DEF IndInv, TypeOK
<1>2. CASE vault' = vault
  BY <1>1, <1>2
<1>3. ASSUME NEW n \in Nat \ {0}, CanSpend(vault, time, n), vault' = Spent(vault, time, n)
      PROVE  vault'.day = vault.day => vault'.limit = vault.limit
  BY <1>0, <1>3, SpentFacts
<1>4. ASSUME NEW dt \in {1, 2}, UpdateGlobalDynamicData(dt)
      PROVE  vault'.day = vault.day => vault'.limit = vault.limit
  <2>1. vault' = vault \/ vault' = Rebalanced(vault, supply, reserve, GoldPrice[feed'])
    BY <1>4 DEF UpdateGlobalDynamicData
  <2>2. vault.limit = Rebalanced(vault, supply, reserve, GoldPrice[feed']).limit
    BY <1>0 DEF Rebalanced, Vaults
  <2> QED BY <2>1, <2>2
<1>5. ASSUME NEW maint \in BOOLEAN, UpdateSigningWitness(maint)
      PROVE  vault'.day = vault.day => vault'.limit = vault.limit
  <2>1. \/ vault' = vault
        \/ /\ WitnessGold > 0 /\ CanSpend(vault, time, WitnessGold)
           /\ vault' = Spent(vault, time, WitnessGold)
    BY <1>5 DEF UpdateSigningWitness
  <2>2. WitnessGold > 0 => WitnessGold \in Nat \ {0}
    BY RateAssumption
  <2> QED BY <1>3, <2>1, <2>2
<1>6. CASE PayWorker
  <2> DEFINE reward == Min2(Requested(queue[1]), Min2(budget, Available(vault, time)))
  <2>1. \/ vault' = vault
        \/ /\ ~(reward <= 0) /\ CanSpend(vault, time, reward)
           /\ vault' = Spent(vault, time, reward)
    BY <1>6 DEF PayWorker
  <2>2. Requested(queue[1]) \in Nat
    BY <1>6, SupplyAssumption DEF PayWorker
  <2>3. budget \in Nat /\ Available(vault, time) \in Nat
    BY <1>0, DayTypes DEF IndInv, TypeOK
  <2>4. reward \in Nat
    BY <2>2, <2>3 DEF Min2
  <2> HIDE DEF reward
  <2>5. ~(reward <= 0) => reward \in Nat \ {0}
    BY <2>4
  <2> QED BY <1>1, <1>3, <2>1, <2>5
<1> QED BY <1>1, <1>2, <1>4, <1>5, <1>6 DEF Next, coreVars, goldVars,
        CreateGold, BorrowGold, RepayGold, ReserveCore, PayFee, LegacyBudget,
        StartWorkers, RefundWorker, SkipWorker, FinishBudget

\* Neither a rebalance nor a second payment of the day changes the day's limit,
\* and the limit is never overspent.
THEOREM LimitHolds == Spec => DailyLimitHolds
<1>1. IndInv /\ [Next]_vars =>
        [vault.enabled => /\ vault'.spent <= vault'.limit
                          /\ vault'.day = vault.day => vault'.limit = vault.limit]_vars
  <2> SUFFICES ASSUME IndInv, Next, vault.enabled
               PROVE  /\ vault'.spent <= vault'.limit
                      /\ vault'.day = vault.day => vault'.limit = vault.limit
    OBVIOUS
  <2> QED BY DailyLimitStep
<1> QED BY <1>1, SpecIndInv, PTL DEF Spec, DailyLimitHolds

-----------------------------------------------------------------------------
\* Smartcoins, with constants and variables of their own.
CONSTANTS
  Holders, Producers, IsGold, Fed, NoBorrowing, FeedPrices, AnchorPrice, FeedBlocks, MaintBlocks, Methods, Lifetimes,
  MinFeeds, VoteLife, SqueezeRatio, DebtDeltas, CollDeltas, StartCore, CoinSupply, LastBlock
VARIABLES fBlock, fAsset, fCalls, fBal, fCore, fVoted
F == INSTANCE Smartcoin WITH
  Accounts <- Holders, GoldPrice <- AnchorPrice, RefreshBlocks <- FeedBlocks, MaxSupply <- CoinSupply,
  MaxBlock <- LastBlock,
  block <- fBlock, bitasset <- fAsset, calls <- fCalls, bal <- fBal, core <- fCore, voted <- fVoted

-----------------------------------------------------------------------------
(* Smartcoins: the inductive invariant.                                    *)

Units == {"null", "core", "gold"}
Quote == [unit : Units, n : Nat, d : F!Positive]
Feed == [time : Nat, price : Quote]
Bitasset == [feeds : [Producers -> Feed], median : Quote, current : Quote, pub : Nat,
             method : Methods, life : Lifetimes, min : MinFeeds]
Position == [debt : Nat, coll : Nat]

\* A feed that was published at or before block b is what asset_publish_feed makes it.
Published(ba, b) ==
  \A p \in Producers : /\ ba.feeds[p].time <= b
                       /\ ba.feeds[p].time # 0 => /\ ba.feeds[p].price.n > 0
                                                  /\ ba.feeds[p].price.unit = IF IsGold THEN "core" ELSE "gold"

\* A position has both debt and collateral or neither.
Whole(cs) == \A a \in Holders : cs[a].debt = 0 <=> cs[a].coll = 0

FTypes ==
  /\ fBlock \in 1..LastBlock
  /\ fCalls \in [Holders -> Position] /\ Whole(fCalls)
  /\ fBal \in [Holders -> Nat] /\ fCore \in [Holders -> Nat]
  /\ fVoted \in [Holders -> 0..fBlock]

\* Coin and debt agree and are within the maximum; no CORE is lost.
FAdds ==
  /\ SumOver(fBal, Holders) = SumOver(F!DebtOf, Holders)
  /\ SumOver(fBal, Holders) <= CoinSupply
  /\ SumOver(F!CoreOf, Holders) = StartCore * Cardinality(Holders)

\* m is in the middle of the prices of the feeds of S.
Middle(ba, S, m) ==
  /\ Cardinality({q \in S : F!PriceLess(ba.feeds[q].price, m)}) <= Cardinality(S) \div 2
  /\ Cardinality({q \in S : ~F!PriceLess(m, ba.feeds[q].price)}) > Cardinality(S) \div 2

\* The median is that of the feeds alive at block b, and pub not after any of them.
MedianFits(ba, b) ==
  LET S == F!Live(ba, b) IN
  IF Cardinality(S) < ba.min THEN ba.median = F!Null
  ELSE /\ ba.median.unit = "gold" /\ ba.median.n > 0
       /\ Middle(ba, S, ba.median)
       /\ \A p \in S : ba.pub <= ba.feeds[p].time

\* The effective feed is the median at the anchor price of block b.
CurrentFits(ba, b) ==
  ba.current = IF ba.median.unit = "gold" THEN F!multiply_feed_prices(ba.median, F!GoldPerCore(b))
               ELSE ba.median

\* GOLD's median and effective feed are the anchor price of block b.
AnchorFits(ba, b) ==
  LET g == F!Price("core", F!GoldPerCore(b)) IN ba.median = g /\ ba.current = g

\* Every position is covered twice at the anchor price of block b.
CoveredTwice(cs, b) ==
  \A a \in Holders : F!Covers(cs[a], 2, F!Price("core", F!GoldPerCore(b)))

\* The effective feed is that of block b.
FeedFits(ba, b) ==
  IF IsGold THEN AnchorFits(ba, b) ELSE MedianFits(ba, b) /\ CurrentFits(ba, b)

FFeeds ==
  /\ fAsset \in Bitasset /\ fAsset.pub <= fBlock /\ Published(fAsset, fBlock)
  /\ FeedFits(fAsset, fBlock)
  /\ IsGold => CoveredTwice(fCalls, fBlock)

\* What holds whatever the options of the coin, and what holds of an effective feed
\* that is not distorted.
FInv == FTypes /\ FAdds
FeedInv == FInv /\ FFeeds

\* What the constants are.
LEMMA CoinConstants ==
  ASSUME F!SmartcoinAssumption
  PROVE  /\ IsFiniteSet(Holders) /\ IsFiniteSet(Producers) /\ IsGold \in BOOLEAN
         /\ FeedBlocks \in Nat \ {0} /\ MaintBlocks \in Nat \ {0}
         /\ SqueezeRatio \in Nat \ {0} /\ LastBlock \in Nat \ {0}
         /\ Lifetimes \subseteq Nat \ {0} /\ MinFeeds \subseteq Nat \ {0}
         /\ FeedPrices \subseteq (Nat \ {0}) \X (Nat \ {0})
         /\ \A k \in F!Periods : AnchorPrice[k] \in (Nat \ {0}) \X (Nat \ {0})
         /\ DebtDeltas \subseteq Int /\ CollDeltas \subseteq Int
         /\ VoteLife \in Nat /\ StartCore \in Nat /\ CoinSupply \in Nat
BY DEF F!SmartcoinAssumption, F!Positive, F!IsFiniteSet, IsFiniteSet

\* The library operators in Smartcoin are those of the lemmas.
LEMMA CoinSums ==
  /\ \A f, S : F!SumOver(f, S) = SumOver(f, S)
  /\ \A S : F!Cardinality(S) = Cardinality(S)
<1>1. \A f, S : F!SumOver(f, S) = SumOver(f, S)
  BY DEF F!SumOver, SumOver, F!FoldFunctionOnSet, FoldFunctionOnSet, F!MapThenFoldSet, MapThenFoldSet
<1>2. \A S : F!Cardinality(S) = Cardinality(S)
  BY DEF F!Cardinality, Cardinality, F!IsFiniteSet, IsFiniteSet
<1> QED
  BY <1>1, <1>2

\* A block's anchor price is a price.
LEMMA AnchorType ==
  ASSUME F!SmartcoinAssumption, NEW b \in Nat, b <= LastBlock
  PROVE  F!GoldPerCore(b) \in (Nat \ {0}) \X (Nat \ {0})
<1>1. b \div FeedBlocks \in Nat /\ b \div FeedBlocks <= LastBlock \div FeedBlocks
      /\ LastBlock \div FeedBlocks \in Nat
  BY CoinConstants, DivMono, DivFloor
<1>2. b \div FeedBlocks \in F!Periods
  BY <1>1 DEF F!Periods
<1> QED
  BY <1>2, CoinConstants DEF F!GoldPerCore

-----------------------------------------------------------------------------
(* Orders on finite sets.                                                  *)

\* R is total and transitive on S.
Ordered(R, S) ==
  /\ \A x, y \in S : <<x, y>> \in R \/ <<y, x>> \in R
  /\ \A x, y, z \in S : <<x, y>> \in R /\ <<y, z>> \in R => <<x, z>> \in R

\* A finite set has a greatest element.
LEMMA Greatest ==
  ASSUME NEW S, IsFiniteSet(S), S # {}, NEW R, Ordered(R, S)
  PROVE  \E r \in S : \A q \in S : <<q, r>> \in R
<1> DEFINE Above == [r \in S |-> {q \in S : <<q, r>> \notin R}]
           T == {Above[r] : r \in S}
<1>1. T \subseteq SUBSET S /\ T # {}
  OBVIOUS
<1>2. PICK t \in T : \A y \in T : y \subseteq t => y = t
  <2> HIDE DEF T
  <2> QED
    BY ONLY <1>1, IsFiniteSet(S), SmallestSubset
<1>3. PICK r \in S : t = Above[r]
  BY <1>2
<1>4. ASSUME NEW q \in S, <<q, r>> \notin R PROVE FALSE
  <2>1. Above[q] = {z \in S : <<z, q>> \notin R} /\ Above[r] = {z \in S : <<z, r>> \notin R} /\ Above[q] \in T
    OBVIOUS
  <2> HIDE DEF Above, T
  <2>2. <<r, q>> \in R /\ <<q, q>> \in R
    BY <1>4 DEF Ordered
  <2>3. Above[q] \subseteq Above[r]
    BY <2>1, <2>2, Zenon DEF Ordered
  <2>4. q \in Above[r] /\ q \notin Above[q]
    BY <1>4, <2>1, <2>2
  <2> QED
    BY <1>2, <1>3, <2>1, <2>3, <2>4
<1> QED
  BY <1>4

\* Of a finite set one can choose the element at place m when it is sorted.
LEMMA PlaceExists ==
  ASSUME NEW S, IsFiniteSet(S), NEW R, Ordered(R, S), NEW m \in Nat, m < Cardinality(S)
  PROVE  \E p \in S : /\ Cardinality({q \in S : <<p, q>> \notin R}) <= m
                      /\ Cardinality({q \in S : <<q, p>> \in R}) > m
<1> DEFINE UpTo(p) == {q \in S : <<q, p>> \in R}
           T == {p \in S : Cardinality(UpTo(p)) > m}
<1>0. Cardinality(S) \in Nat
  BY FS_CardinalityType
<1>1. S # {}
  BY <1>0, FS_EmptySet
<1>2. PICK top \in S : \A q \in S : <<q, top>> \in R
  BY ONLY <1>1, Greatest, IsFiniteSet(S), Ordered(R, S)
<1>3. UpTo(top) = S
  BY <1>2
<1>4. T # {} /\ T \subseteq S /\ IsFiniteSet(T)
  BY <1>3, FS_Subset
<1> DEFINE V == {e \in S \X S : <<e[2], e[1]>> \in R}
<1>5. Ordered(V, T)
  BY <1>4 DEF Ordered
<1>6. PICK p \in T : \A q \in T : <<q, p>> \in V
  <2> HIDE DEF T, V
  <2> QED
    BY ONLY <1>4, <1>5, Greatest
<1>7. p \in S /\ \A q \in T : <<p, q>> \in R
  BY <1>4, <1>6
<1> DEFINE B == {q \in S : <<p, q>> \notin R}
<1>8. IsFiniteSet(B) /\ Cardinality(B) \in Nat
  BY FS_Subset, FS_CardinalityType
<1>9. ASSUME Cardinality(B) > m PROVE FALSE
  <2>1. B # {}
    <3> HIDE DEF B
    <3> QED
      BY ONLY <1>8, <1>9, FS_EmptySet, m \in Nat
  <2>2. Ordered(R, B)
    BY DEF Ordered
  <2>3. PICK r \in B : \A q \in B : <<q, r>> \in R
    <3> HIDE DEF B
    <3> QED
      BY ONLY <1>8, <2>1, <2>2, Greatest
  <2>4. B \subseteq UpTo(r) /\ IsFiniteSet(UpTo(r))
    BY <2>3, FS_Subset
  <2>5. Cardinality(B) <= Cardinality(UpTo(r)) /\ Cardinality(UpTo(r)) \in Nat
    BY <2>4, FS_Subset, FS_CardinalityType
  <2>6. r \in T
    BY <1>8, <1>9, <2>3, <2>5
  <2> QED
    BY <1>7, <2>3, <2>6
<1>10. Cardinality(B) <= m
  BY <1>8, <1>9
<1>11. Cardinality(UpTo(p)) > m
  BY <1>6
<1> QED
  BY <1>7, <1>10, <1>11

-----------------------------------------------------------------------------
(* Smartcoins: the median.                                                 *)

\* Comparing fractions by their cross products is transitive.
LEMMA RatioTransitive ==
  ASSUME NEW a \in Nat, NEW b \in Nat \ {0}, NEW c \in Nat, NEW d \in Nat \ {0},
         NEW e \in Nat, NEW f \in Nat \ {0}, a * d <= c * b, c * f <= e * d
  PROVE  a * f <= e * b
<1>0. a * d \in Nat /\ c * b \in Nat /\ c * f \in Nat /\ e * d \in Nat /\ a * f \in Nat /\ e * b \in Nat
  BY MulNat
<1>1. (a * d) * f <= (c * b) * f
  BY <1>0, MulMono
<1>2. (c * f) * b <= (e * d) * b
  BY <1>0, MulMono
<1>3. (a * d) * f = (a * f) * d /\ (c * b) * f = (c * f) * b /\ (e * d) * b = (e * b) * d
  BY MulSwap
<1>4. (a * f) * d <= (e * b) * d
  <2> DEFINE x == (a * f) * d
             y == (c * f) * b
             z == (e * b) * d
  <2>1. x \in Nat /\ y \in Nat /\ z \in Nat
    BY <1>0, MulNat
  <2>2. x <= y /\ y <= z
    BY <1>1, <1>2, <1>3
  <2> HIDE DEF x, y, z
  <2>3. x <= z
    BY <2>1, <2>2
  <2> QED
    BY <2>3 DEF x, z
<1> QED
  BY <1>0, <1>4, MulCancel

\* Multiplying positive numbers.
LEMMA PositiveProduct ==
  ASSUME NEW a \in Nat \ {0}, NEW b \in Nat \ {0}
  PROVE  a * b \in Nat \ {0}
BY SMT

\* The feeds alive are published ones.
LEMMA LiveIs ==
  ASSUME F!SmartcoinAssumption, NEW ba \in Bitasset, NEW b \in Nat, Published(ba, b)
  PROVE  /\ F!Live(ba, b) \subseteq Producers /\ IsFiniteSet(F!Live(ba, b))
         /\ Cardinality(F!Live(ba, b)) \in Nat
         /\ \A p \in F!Live(ba, b) :
              /\ ba.feeds[p] \in Feed /\ ba.feeds[p].price \in Quote /\ ba.feeds[p].price.n > 0
              /\ ba.feeds[p].time \in 1..b
              /\ ba.feeds[p].price.unit = IF IsGold THEN "core" ELSE "gold"
<1>1. F!Live(ba, b) \subseteq Producers
  BY DEF F!Live
<1>2. IsFiniteSet(F!Live(ba, b))
  BY <1>1, CoinConstants, FS_Subset
<1>3. ASSUME NEW p \in F!Live(ba, b)
      PROVE  /\ ba.feeds[p] \in Feed /\ ba.feeds[p].price \in Quote /\ ba.feeds[p].price.n > 0
             /\ ba.feeds[p].time \in 1..b
             /\ ba.feeds[p].price.unit = IF IsGold THEN "core" ELSE "gold"
  <2>1. p \in Producers /\ ba.feeds[p].time # 0
    BY <1>3 DEF F!Live
  <2>2. ba.feeds \in [Producers -> Feed]
    BY DEF Bitasset
  <2>3. ba.feeds[p] \in Feed
    BY <2>1, <2>2
  <2>4. ba.feeds[p].time \in Nat /\ ba.feeds[p].price \in Quote
    BY <2>3 DEF Feed
  <2> QED
    BY <2>1, <2>3, <2>4 DEF Published
<1> QED
  BY <1>1, <1>2, <1>3, FS_CardinalityType

\* The median of the feeds alive is the price of one of them, and in the middle.
LEMMA MedianIs ==
  ASSUME F!SmartcoinAssumption, NEW ba \in Bitasset, NEW b \in Nat, Published(ba, b), ~IsGold,
         Cardinality(F!Live(ba, b)) > 0
  PROVE  /\ \E p \in F!Live(ba, b) : F!Median(ba, b) = ba.feeds[p].price
         /\ Middle(ba, F!Live(ba, b), F!Median(ba, b))
<1> DEFINE S == F!Live(ba, b)
           price(p) == ba.feeds[p].price
           R == {e \in S \X S : ~F!PriceLess(price(e[2]), price(e[1]))}
           m == Cardinality(S) \div 2
           isAt(p) == /\ F!Cardinality({q \in S : F!PriceLess(price(q), price(p))}) <= F!MedianAt(S)
                      /\ F!Cardinality({q \in S : ~F!PriceLess(price(p), price(q))}) > F!MedianAt(S)
<1>1. /\ IsFiniteSet(S) /\ Cardinality(S) \in Nat
      /\ \A p \in S : price(p) \in Quote /\ price(p).unit = "gold"
  BY LiveIs
<1>2. \A p, q \in S : F!PriceLess(price(p), price(q)) <=> price(p).n * price(q).d < price(q).n * price(p).d
  BY <1>1 DEF F!PriceLess
<1>3. Ordered(R, S)
  <2> DEFINE n(p) == price(p).n
             d(p) == price(p).d
  <2>1. \A p \in S : n(p) \in Nat /\ d(p) \in Nat \ {0}
    BY <1>1 DEF Quote, F!Positive
  <2>2. \A p, q \in S : n(p) * d(q) \in Nat
    BY <2>1, MulNat
  <2>3. \A p, q \in S : <<p, q>> \in R <=> ~(n(q) * d(p) < n(p) * d(q))
    BY <1>2
  <2> HIDE DEF n, d, R, S
  <2>4. ASSUME NEW p \in S, NEW q \in S
        PROVE  /\ <<p, q>> \in R <=> n(p) * d(q) <= n(q) * d(p)
               /\ <<p, q>> \in R \/ <<q, p>> \in R
    <3> DEFINE x == n(p) * d(q)
               y == n(q) * d(p)
    <3>1. x \in Nat /\ y \in Nat
      BY <2>2
    <3>2. (<<p, q>> \in R <=> ~(y < x)) /\ (<<q, p>> \in R <=> ~(x < y))
      BY <2>3
    <3> HIDE DEF x, y
    <3>3. (<<p, q>> \in R <=> x <= y) /\ (<<p, q>> \in R \/ <<q, p>> \in R)
      BY <3>1, <3>2
    <3> QED
      BY <3>3 DEF x, y
  <2>5. \A x, y \in S : <<x, y>> \in R \/ <<y, x>> \in R
    BY <2>4
  <2>6. ASSUME NEW x \in S, NEW y \in S, NEW z \in S, <<x, y>> \in R, <<y, z>> \in R
        PROVE  <<x, z>> \in R
    <3>1. n(x) * d(y) <= n(y) * d(x) /\ n(y) * d(z) <= n(z) * d(y)
      BY <2>4, <2>6
    <3>2. n(x) * d(z) <= n(z) * d(x)
      BY <2>1, <3>1, RatioTransitive
    <3> QED
      BY <2>4, <3>2
  <2> QED
    BY <2>5, <2>6 DEF Ordered
<1>4. m \in Nat /\ m < Cardinality(S)
  BY <1>1
<1>5. PICK p \in S : /\ Cardinality({q \in S : <<p, q>> \notin R}) <= m
                     /\ Cardinality({q \in S : <<q, p>> \in R}) > m
  <2> HIDE DEF S, R, m
  <2> QED
    BY ONLY <1>1, <1>3, <1>4, PlaceExists
<1>6. /\ {q \in S : <<p, q>> \notin R} = {q \in S : F!PriceLess(price(q), price(p))}
      /\ {q \in S : <<q, p>> \in R} = {q \in S : ~F!PriceLess(price(p), price(q))}
  OBVIOUS
<1>7. F!MedianAt(S) = m
  BY CoinSums DEF F!MedianAt
<1>8. isAt(p)
  BY <1>5, <1>6, <1>7, CoinSums
<1> DEFINE c == CHOOSE z \in S : isAt(z)
<1>9. c \in S /\ isAt(c)
  <2> HIDE DEF S, isAt
  <2> QED
    BY <1>5, <1>8
<1>10. F!Median(ba, b) = price(c)
  BY DEF F!Median
<1>11. /\ Cardinality({q \in S : F!PriceLess(price(q), price(c))}) <= m
       /\ Cardinality({q \in S : ~F!PriceLess(price(c), price(q))}) > m
  BY <1>7, <1>9, CoinSums
<1> QED
  BY <1>9, <1>10, <1>11 DEF Middle

-----------------------------------------------------------------------------
(* Smartcoins: the feed of a coin other than GOLD.                         *)

\* What happened to an asset object left everything but the feed alone.
SameTerms(ba, u) ==
  /\ u \in Bitasset /\ u.feeds = ba.feeds /\ u.method = ba.method /\ u.life = ba.life /\ u.min = ba.min

\* What is alive depends on the feeds and their lifetime alone.
LEMMA LiveSame ==
  ASSUME NEW ba, NEW u, NEW b, u.feeds = ba.feeds, u.life = ba.life
  PROVE  F!Live(u, b) = F!Live(ba, b)
BY DEF F!Live

\* What update_median_feeds makes of the feeds.
LEMMA MedianUpdated ==
  ASSUME F!SmartcoinAssumption, NEW ba \in Bitasset, NEW b \in Nat, b > 0, Published(ba, b), ~IsGold
  PROVE  LET v == F!update_median_feeds(ba, b) IN
         SameTerms(ba, v) /\ v.pub <= b /\ MedianFits(v, b)
<1> DEFINE S == F!Live(ba, b)
           v == F!update_median_feeds(ba, b)
<1>1. IsFiniteSet(S) /\ Cardinality(S) \in Nat /\ F!Cardinality(S) = Cardinality(S)
  BY LiveIs, CoinSums
<1>2. ba.min \in Nat \ {0} /\ ba.feeds \in [Producers -> Feed]
  BY CoinConstants DEF Bitasset
<1>3. F!Null \in Quote
  BY DEF F!Null, Quote, Units, F!Positive
<1>4. CASE Cardinality(S) < ba.min
  <2>1. v = [ba EXCEPT !.median = F!Null, !.pub = b]
    BY <1>1, <1>4 DEF F!update_median_feeds
  <2>2. SameTerms(ba, v) /\ v.pub = b /\ v.median = F!Null
    BY <1>3, <2>1 DEF SameTerms, Bitasset
  <2>3. F!Live(v, b) = S
    BY <2>2, LiveSame DEF SameTerms
  <2> QED
    BY <1>4, <2>2, <2>3 DEF SameTerms, MedianFits
<1>5. CASE ~(Cardinality(S) < ba.min)
  <2> DEFINE T == {ba.feeds[p].time : p \in S}
  <2>1. Cardinality(S) > 0
    BY <1>1, <1>2, <1>5
  <2>2. Middle(ba, S, F!Median(ba, b)) /\ \E p \in S : F!Median(ba, b) = ba.feeds[p].price
    BY <2>1, MedianIs
  <2>3. PICK p \in S : F!Median(ba, b) = ba.feeds[p].price
    BY <2>2
  <2>4. F!Median(ba, b) \in Quote /\ F!Median(ba, b).unit = "gold" /\ F!Median(ba, b).n > 0
    BY <2>3, LiveIs
  <2>5. T \subseteq Nat /\ T # {} /\ \A t \in T : t <= b
    BY <2>3, LiveIs
  <2>6. F!PublicationTime(ba, b) \in T /\ \A t \in T : F!PublicationTime(ba, b) <= t
    <3>1. F!PublicationTime(ba, b) = CHOOSE x \in T : \A y \in T : x <= y
      BY DEF F!PublicationTime, F!Min
    <3> HIDE DEF T
    <3>2. \E x \in T : \A y \in T : x <= y
      BY <2>5, LeastNumber
    <3> QED
      BY <3>1, <3>2
  <2>7. v = [ba EXCEPT !.median = F!Median(ba, b), !.pub = F!PublicationTime(ba, b)]
    BY <1>1, <1>5 DEF F!update_median_feeds
  <2>8. /\ SameTerms(ba, v)
        /\ v.pub = F!PublicationTime(ba, b) /\ v.median = F!Median(ba, b)
    BY <2>4, <2>5, <2>6, <2>7 DEF SameTerms, Bitasset
  <2>9. F!Live(v, b) = S
    BY <2>8, LiveSame DEF SameTerms
  <2>10. Middle(v, S, v.median)
    BY <2>2, <2>8 DEF Middle, SameTerms
  <2>11. \A q \in S : v.pub <= v.feeds[q].time
    BY <2>6, <2>8 DEF SameTerms
  <2>12. MedianFits(v, b)
    BY <1>5, <2>4, <2>8, <2>9, <2>10, <2>11 DEF SameTerms, MedianFits
  <2> QED
    BY <2>5, <2>6, <2>8, <2>12
<1> QED
  BY <1>4, <1>5

\* What apply_feed_policy makes of the median.
LEMMA FeedUpdated ==
  ASSUME F!SmartcoinAssumption, F!Undistorted, NEW ba \in Bitasset, NEW b \in Nat, b > 0, b <= LastBlock,
         Published(ba, b), ~IsGold, NEW cs
  PROVE  LET u == F!update_bitasset_current_feed(ba, cs, b) IN
         SameTerms(ba, u) /\ u.pub <= b /\ MedianFits(u, b) /\ CurrentFits(u, b)
<1> DEFINE v == F!update_median_feeds(ba, b)
           g == F!GoldPerCore(b)
           cur == IF v.median.unit = "gold" THEN F!multiply_feed_prices(v.median, g) ELSE v.median
           u == F!update_bitasset_current_feed(ba, cs, b)
<1>1. SameTerms(ba, v) /\ v.pub <= b /\ MedianFits(v, b)
  BY MedianUpdated
<1>2. v \in Bitasset /\ v.median \in Quote
  BY <1>1 DEF SameTerms, Bitasset
<1>3. g \in (Nat \ {0}) \X (Nat \ {0})
  BY AnchorType
<1>4. cur \in Quote
  <2>1. v.median.n \in Nat /\ v.median.d \in Nat \ {0} /\ g[1] \in Nat \ {0} /\ g[2] \in Nat \ {0}
    BY <1>2, <1>3 DEF Quote, F!Positive
  <2>2. v.median.n * g[1] \in Nat /\ v.median.d * g[2] \in Nat \ {0}
    <3> HIDE DEF v, g
    <3> QED
      BY <2>1, PositiveProduct, MulNat
  <2>3. F!multiply_feed_prices(v.median, g) \in Quote
    <3> HIDE DEF v, g
    <3> QED
      BY <2>2 DEF F!multiply_feed_prices, Quote, Units, F!Positive
  <2> QED
    BY <1>2, <2>3
<1>5. ~F!Derives(ba)
  <2>1. ba.method \in Methods
    BY DEF Bitasset
  <2> QED
    BY <2>1 DEF F!Undistorted, F!Derives
<1>6. u = [v EXCEPT !.current = cur]
  BY <1>5 DEF F!update_bitasset_current_feed, F!apply_feed_policy
<1> HIDE DEF v, u, cur, g
<1>7. /\ u \in Bitasset /\ u.feeds = v.feeds /\ u.method = v.method /\ u.life = v.life /\ u.min = v.min
      /\ u.pub = v.pub /\ u.median = v.median /\ u.current = cur
  BY <1>2, <1>4, <1>6 DEF Bitasset
<1>8. SameTerms(ba, u)
  BY <1>1, <1>7 DEF SameTerms
<1>9. F!Live(u, b) = F!Live(v, b)
  BY <1>7, LiveSame
<1>10. MedianFits(u, b)
  <2>1. Middle(v, F!Live(v, b), v.median) => Middle(u, F!Live(v, b), v.median)
    BY <1>7 DEF Middle
  <2> QED
    BY <1>1, <1>7, <1>9, <2>1 DEF MedianFits
<1>11. CurrentFits(u, b)
  BY <1>7 DEF CurrentFits, cur, g
<1> QED
  BY <1>1, <1>7, <1>8, <1>10, <1>11 DEF u

\* Feeds that cannot be alive may be erased.
LEMMA FeedsErased ==
  ASSUME NEW ba \in Bitasset, NEW u \in Bitasset, NEW b \in Nat, NEW c \in Nat,
         F!Live(u, c) = F!Live(ba, b), u.life = ba.life, u.min = ba.min, u.median = ba.median, u.pub = ba.pub,
         \A p \in F!Live(ba, b) : u.feeds[p] = ba.feeds[p],
         MedianFits(ba, b)
  PROVE  MedianFits(u, c)
<1> DEFINE S == F!Live(ba, b)
<1>1. Middle(ba, S, ba.median) => Middle(u, S, ba.median)
  <2> DEFINE m == ba.median
  <2> HIDE DEF S, m
  <2>1. /\ {q \in S : F!PriceLess(u.feeds[q].price, m)} = {q \in S : F!PriceLess(ba.feeds[q].price, m)}
        /\ {q \in S : ~F!PriceLess(m, u.feeds[q].price)} = {q \in S : ~F!PriceLess(m, ba.feeds[q].price)}
    BY DEF S
  <2> QED
    BY <2>1 DEF Middle, m
<1> QED
  BY <1>1 DEF MedianFits

\* The anchor price changes with the first block of a period only.
LEMMA PeriodSame ==
  ASSUME F!SmartcoinAssumption, NEW b \in Nat, (b + 1) % FeedBlocks # 0
  PROVE  F!GoldPerCore(b + 1) = F!GoldPerCore(b)
<1> DEFINE q == (b + 1) \div FeedBlocks
<1>1. FeedBlocks \in Nat \ {0}
  BY CoinConstants
<1>2. q \in Nat /\ FeedBlocks * q <= b + 1
  BY <1>1, DivFloor
<1>3. (b + 1) % FeedBlocks = (b + 1) - FeedBlocks * q
  BY <1>1, SMT
<1>4. FeedBlocks * q <= b
  <2> DEFINE x == FeedBlocks * q
  <2>1. x \in Nat /\ x <= b + 1 /\ x # b + 1
    BY <1>1, <1>2, <1>3, MulNat
  <2> HIDE DEF x
  <2>2. x <= b
    BY <2>1
  <2> QED
    BY <2>2 DEF x
<1>5. q <= b \div FeedBlocks
  BY <1>1, <1>2, <1>4, DivGe
<1>6. b \div FeedBlocks <= q /\ b \div FeedBlocks \in Nat
  BY <1>1, DivMono, DivFloor
<1>7. q = b \div FeedBlocks
  BY <1>2, <1>5, <1>6
<1> QED
  BY <1>7 DEF F!GoldPerCore

\* refresh_scheduled_feeds at a new block.
LEMMA CoinRefreshed ==
  ASSUME F!SmartcoinAssumption, F!Undistorted, ~IsGold, NEW ba \in Bitasset, NEW b \in Nat,
         b + 1 <= LastBlock, Published(ba, b), ba.pub <= b, MedianFits(ba, b), CurrentFits(ba, b)
  PROVE  LET r == F!refresh_scheduled_feeds(ba, b + 1) IN
         /\ SameTerms(ba, r) /\ r.pub <= b + 1 /\ Published(r, b + 1) /\ CurrentFits(r, b + 1)
         /\ MedianFits(r, b) \/ MedianFits(r, b + 1)
<1> DEFINE c == b + 1
           r == F!refresh_scheduled_feeds(ba, c)
<1>1. Published(ba, c)
  <2>1. \A p \in Producers : ba.feeds[p].time \in Nat
    BY DEF Bitasset, Feed
  <2> QED
    BY <2>1 DEF Published
<1>2. CASE c % FeedBlocks = 0
  <2>1. r = F!update_bitasset_current_feed(ba, fCalls, c)
    BY <1>2 DEF F!refresh_scheduled_feeds
  <2>2. SameTerms(ba, r) /\ r.pub <= c /\ MedianFits(r, c) /\ CurrentFits(r, c)
    BY <1>1, <2>1, FeedUpdated
  <2> QED
    BY <1>1, <2>2 DEF SameTerms, Published
<1>3. CASE c % FeedBlocks # 0
  <2>1. r = ba
    BY <1>3 DEF F!refresh_scheduled_feeds
  <2>2. F!GoldPerCore(c) = F!GoldPerCore(b)
    BY <1>3, PeriodSame
  <2>3. ba.pub <= c
    BY DEF Bitasset
  <2> QED
    BY <1>1, <2>1, <2>2, <2>3 DEF SameTerms, CurrentFits
<1> QED
  BY <1>2, <1>3

\* Two objects agree but for feeds that are not alive.
Pruned(r, s) ==
  /\ s \in Bitasset
  /\ s.median = r.median /\ s.current = r.current /\ s.pub = r.pub
  /\ s.method = r.method /\ s.life = r.life /\ s.min = r.min
  /\ \A p \in Producers : s.feeds[p] = r.feeds[p] \/ s.feeds[p] = [time |-> 0, price |-> F!Null]

\* process_bitassets at a new block.
LEMMA CoinProcessed ==
  ASSUME F!SmartcoinAssumption, NEW r \in Bitasset, NEW b \in Nat, Published(r, b + 1)
  PROVE  LET s == F!process_bitassets(r, b + 1) IN
         /\ Pruned(r, s) /\ Published(s, b + 1)
         /\ MedianFits(r, b) => MedianFits(s, b)
         /\ MedianFits(r, b + 1) => MedianFits(s, b + 1)
<1> DEFINE c == b + 1
           s == F!process_bitassets(r, c)
<1>1. CASE ~Fed \/ c % MaintBlocks # 0
  <2>1. s = r
    BY <1>1 DEF F!process_bitassets
  <2> QED
    BY <2>1 DEF Pruned
<1>2. CASE Fed /\ c % MaintBlocks = 0
  <2> DEFINE none == [time |-> 0, price |-> F!Null]
             feeds == [p \in Producers |-> IF r.feeds[p].time < c - r.life THEN none ELSE r.feeds[p]]
  <2>1. s = [r EXCEPT !.feeds = feeds]
    BY <1>2 DEF F!process_bitassets
  <2>2. r.feeds \in [Producers -> Feed] /\ r.life \in Nat \ {0}
    BY CoinConstants DEF Bitasset
  <2>3. none \in Feed
    BY DEF Feed, F!Null, Quote, Units, F!Positive
  <2>4. feeds \in [Producers -> Feed]
    BY <2>2, <2>3
  <2>5. Pruned(r, s) /\ s.feeds = feeds
    BY <2>1, <2>4 DEF Pruned, Bitasset
  <2>6. Published(s, c)
    BY <2>5 DEF Published
  <2>7. ASSUME NEW e \in {b, c}
        PROVE  F!Live(s, e) = F!Live(r, e) /\ \A p \in F!Live(r, e) : s.feeds[p] = r.feeds[p]
    <3>1. ASSUME NEW p \in Producers
          PROVE  /\ r.feeds[p].time # 0 /\ e - r.feeds[p].time < r.life => s.feeds[p] = r.feeds[p]
                 /\ s.feeds[p].time # 0 => s.feeds[p] = r.feeds[p]
      <4>1. r.feeds[p].time \in Nat
        BY <2>2 DEF Feed
      <4>2. s.feeds[p] = IF r.feeds[p].time < c - r.life THEN none ELSE r.feeds[p]
        BY <2>5
      <4> HIDE DEF s, feeds
      <4> QED
        BY <2>2, <2>7, <4>1, <4>2
    <3>2. s.life = r.life
      BY <2>5 DEF Pruned
    <3> HIDE DEF s, feeds, none
    <3> QED
      BY <3>1, <3>2 DEF F!Live
  <2>8. ASSUME NEW e \in {b, c}, MedianFits(r, e) PROVE MedianFits(s, e)
    <3>1. e \in Nat
      BY <2>8
    <3> HIDE DEF s, c
    <3> QED
      BY <2>5, <2>7, <2>8, <3>1, FeedsErased DEF Pruned
  <2> QED
    BY <2>5, <2>6, <2>8
<1> QED
  BY <1>1, <1>2

\* Before its time is over, no feed expires that the median depends on.
LEMMA CoinNotExpired ==
  ASSUME F!SmartcoinAssumption, NEW s \in Bitasset, NEW b \in Nat, Published(s, b + 1), s.pub + s.life > b + 1,
         MedianFits(s, b)
  PROVE  MedianFits(s, b + 1)
<1> DEFINE c == b + 1
<1>1. s.feeds \in [Producers -> Feed] /\ s.life \in Nat \ {0} /\ s.pub \in Nat /\ s.min \in Nat
  BY CoinConstants DEF Bitasset
<1>2. \A p \in Producers : s.feeds[p].time \in Nat
  BY <1>1 DEF Feed
<1>3. F!Live(s, c) \subseteq F!Live(s, b) /\ F!Live(s, b) \subseteq Producers
  BY <1>1, <1>2 DEF F!Live
<1>4. IsFiniteSet(F!Live(s, b))
  BY <1>3, CoinConstants, FS_Subset
<1>5. CASE Cardinality(F!Live(s, b)) < s.min
  <2>1. Cardinality(F!Live(s, c)) <= Cardinality(F!Live(s, b))
    BY <1>3, <1>4, FS_Subset
  <2>2. Cardinality(F!Live(s, c)) \in Nat /\ Cardinality(F!Live(s, b)) \in Nat
    BY <1>3, <1>4, FS_Subset, FS_CardinalityType
  <2>3. Cardinality(F!Live(s, c)) < s.min
    BY <1>1, <1>5, <2>1, <2>2
  <2> QED
    BY <1>5, <2>3 DEF MedianFits
<1>6. CASE ~(Cardinality(F!Live(s, b)) < s.min)
  <2>1. \A p \in F!Live(s, b) : s.pub <= s.feeds[p].time
    BY <1>6 DEF MedianFits
  <2>2. F!Live(s, b) \subseteq F!Live(s, c)
    <3>1. ASSUME NEW p \in F!Live(s, b) PROVE c - s.feeds[p].time < s.life
      <4>1. s.feeds[p].time \in Nat /\ s.pub <= s.feeds[p].time
        BY <1>2, <1>3, <2>1
      <4> QED
        BY <1>1, <4>1
    <3> QED
      BY <3>1 DEF F!Live
  <2>3. F!Live(s, c) = F!Live(s, b)
    BY <1>3, <2>2
  <2> QED
    BY <2>3, FeedsErased
<1> QED
  BY <1>5, <1>6

\* A block without operations.
LEMMA CoinBlock ==
  ASSUME F!SmartcoinAssumption, F!Undistorted, ~IsGold, fAsset \in Bitasset, fBlock \in 1..LastBlock,
         fAsset.pub <= fBlock, Published(fAsset, fBlock), MedianFits(fAsset, fBlock), CurrentFits(fAsset, fBlock),
         F!Block
  PROVE  /\ fAsset' \in Bitasset /\ fAsset'.pub <= fBlock' /\ Published(fAsset', fBlock')
         /\ MedianFits(fAsset', fBlock') /\ CurrentFits(fAsset', fBlock')
<1> DEFINE b == fBlock
           c == b + 1
           r == F!refresh_scheduled_feeds(fAsset, c)
           s == F!process_bitassets(r, c)
           u == F!update_expired_feeds(s, c)
<1>0. b \in Nat /\ c \in Nat /\ c > 0 /\ c <= LastBlock /\ fBlock' = c /\ fAsset' = u
  BY CoinConstants DEF F!Block
<1>1. /\ SameTerms(fAsset, r) /\ r.pub <= c /\ Published(r, c) /\ CurrentFits(r, c)
      /\ MedianFits(r, b) \/ MedianFits(r, c)
  BY <1>0, CoinRefreshed
<1>2. r \in Bitasset
  BY <1>1 DEF SameTerms
<1>3. /\ Pruned(r, s) /\ Published(s, c)
      /\ MedianFits(s, b) \/ MedianFits(s, c)
  <2> HIDE DEF r
  <2> QED
    BY <1>0, <1>1, <1>2, CoinProcessed
<1>4. s \in Bitasset /\ s.pub <= c /\ CurrentFits(s, c)
  <2> HIDE DEF r, s
  <2> QED
    BY <1>1, <1>3 DEF Pruned, CurrentFits
<1>5. CASE F!feed_is_expired(s, c)
  <2>1. u = F!update_bitasset_current_feed(s, fCalls, c)
    BY <1>5 DEF F!update_expired_feeds
  <2> HIDE DEF s, u
  <2>2. SameTerms(s, u) /\ u.pub <= c /\ MedianFits(u, c) /\ CurrentFits(u, c)
    BY <1>0, <1>3, <1>4, <2>1, FeedUpdated
  <2>3. u \in Bitasset /\ Published(u, c)
    BY <1>3, <2>2 DEF SameTerms, Published
  <2> QED
    BY <1>0, <2>2, <2>3
<1>6. CASE ~F!feed_is_expired(s, c)
  <2>1. u = s
    BY <1>6 DEF F!update_expired_feeds
  <2> HIDE DEF s, u
  <2>2. s.pub + s.life > c
    <3>1. s.pub \in Nat /\ s.life \in Nat
      BY <1>4, CoinConstants DEF Bitasset
    <3> QED
      BY <1>0, <1>6, <3>1 DEF F!feed_is_expired
  <2>3. MedianFits(s, c)
    BY <1>0, <1>3, <1>4, <2>2, CoinNotExpired
  <2> QED
    BY <1>0, <1>3, <1>4, <2>1, <2>3
<1> QED
  BY <1>5, <1>6

-----------------------------------------------------------------------------
(* Smartcoins: the feed of GOLD.                                           *)

\* A position covered twice is not reached by a squeeze ratio of at most 2.0.
LEMMA NotSqueezed ==
  ASSUME NEW n \in Nat, NEW d \in Nat, NEW x \in Nat, NEW y \in Nat, NEW q \in Nat, q <= 20,
         x * n >= 2 * y * d
  PROVE  ~(n * (x * 10) < (y * q) * d)
<1> DEFINE xn == x * n
           yd == y * d
<1>1. xn \in Nat /\ yd \in Nat
  BY MulNat
<1>2. 2 * y * d = 2 * yd
  BY SMT
<1>3. n * (x * 10) = 10 * xn
  BY SMT
<1>4. (y * q) * d = yd * q
  BY MulSwap
<1>5. yd * q <= yd * 20
  <2> HIDE DEF yd
  <2> QED
    BY <1>1, MulMono
<1>6. xn >= 2 * yd
  BY <1>2
<1>7. ~(10 * xn < yd * q)
  <2> DEFINE z == yd * q
  <2>1. z \in Nat /\ z <= yd * 20
    <3> HIDE DEF yd
    <3> QED
      BY <1>1, <1>5, MulNat
  <2> HIDE DEF xn, yd, z
  <2>2. ~(10 * xn < z)
    BY <1>1, <1>6, <2>1
  <2> QED
    BY <2>2 DEF z
<1> QED
  BY <1>3, <1>4, <1>7

\* The position with the least collateral per debt is one of the positions.
LEMMA LeastIs ==
  ASSUME F!SmartcoinAssumption, NEW cs \in [Holders -> Position], F!Positions(cs) # {}
  PROVE  F!LeastCollateralized(cs) \in F!Positions(cs)
<1> DEFINE S == F!Positions(cs)
           R == {e \in S \X S : cs[e[2]].coll * cs[e[1]].debt <= cs[e[1]].coll * cs[e[2]].debt}
           n(a) == cs[a].coll
           d(a) == cs[a].debt
<1>1. S \subseteq Holders /\ IsFiniteSet(S)
  <2>1. S \subseteq Holders
    BY DEF F!Positions
  <2> QED
    BY <2>1, CoinConstants, FS_Subset
<1>2. \A a \in S : n(a) \in Nat /\ d(a) \in Nat \ {0}
  <2>1. \A a \in S : cs[a] \in Position /\ cs[a].debt > 0
    BY <1>1 DEF F!Positions
  <2> QED
    BY <2>1 DEF Position
<1>3. \A o, a \in S : <<o, a>> \in R <=> n(a) * d(o) <= n(o) * d(a)
  OBVIOUS
<1>4. Ordered(R, S)
  <2> HIDE DEF S, R, n, d
  <2>1. ASSUME NEW x \in S, NEW y \in S PROVE <<x, y>> \in R \/ <<y, x>> \in R
    <3> DEFINE i == n(x) * d(y)
               j == n(y) * d(x)
    <3>1. i \in Nat /\ j \in Nat
      BY <1>2, MulNat
    <3>2. (<<x, y>> \in R <=> j <= i) /\ (<<y, x>> \in R <=> i <= j)
      BY <1>3
    <3> HIDE DEF i, j
    <3> QED
      BY <3>1, <3>2
  <2>2. ASSUME NEW x \in S, NEW y \in S, NEW z \in S, <<x, y>> \in R, <<y, z>> \in R
        PROVE  <<x, z>> \in R
    <3>1. n(y) * d(x) <= n(x) * d(y) /\ n(z) * d(y) <= n(y) * d(z)
      BY <1>3, <2>2
    <3>2. n(z) * d(x) <= n(x) * d(z)
      BY <1>2, <3>1, RatioTransitive
    <3> QED
      BY <1>3, <3>2
  <2> QED
    BY <2>1, <2>2 DEF Ordered
<1>5. PICK a \in S : \A o \in S : <<o, a>> \in R
  <2> HIDE DEF R, S
  <2> QED
    BY <1>1, <1>4, Greatest DEF S
<1>6. \A o \in S : cs[a].coll * cs[o].debt <= cs[o].coll * cs[a].debt
  BY <1>3, <1>5
<1> HIDE DEF S
<1> QED
  BY <1>6 DEF F!LeastCollateralized, S

\* While positions are covered twice, the feed that is derived is the median.
LEMMA DerivedIs ==
  ASSUME F!SmartcoinAssumption, F!Undistorted, IsGold, NEW b \in Nat, b <= LastBlock,
         NEW cs \in [Holders -> Position], CoveredTwice(cs, b),
         NEW ba, ba.method \in Methods, ba.median = F!Price("core", F!GoldPerCore(b))
  PROVE  F!get_derived_current_feed_price(ba, cs) = ba.median
<1> DEFINE a == F!LeastCollateralized(cs)
           c == cs[a]
           g == F!GoldPerCore(b)
           x == [unit |-> "core", n |-> c.debt * SqueezeRatio, d |-> c.coll * 10]
<1>1. SUFFICES ASSUME ba.method = "no_settlement", F!Positions(cs) # {}
               PROVE  F!PriceMax(ba.median, x) = ba.median
  BY DEF F!get_derived_current_feed_price
<1>2. a \in Holders
  BY <1>1, LeastIs DEF F!Positions
<1>3. c \in Position /\ F!Covers(c, 2, ba.median)
  BY <1>2 DEF CoveredTwice
<1>4. c.debt \in Nat /\ c.coll \in Nat
  BY <1>3 DEF Position
<1>5. g[1] \in Nat /\ g[2] \in Nat
  BY AnchorType
<1>6. ba.median.n = g[1] /\ ba.median.d = g[2] /\ ba.median.unit = "core"
  BY DEF F!Price
<1>7. c.coll * g[1] >= 2 * c.debt * g[2]
  BY <1>3, <1>6 DEF F!Covers
<1>8. SqueezeRatio \in Nat /\ SqueezeRatio <= 20
  BY <1>1, CoinConstants DEF F!Undistorted
<1>9. ~(g[1] * (c.coll * 10) < (c.debt * SqueezeRatio) * g[2])
  <2> HIDE DEF c, g
  <2> QED
    BY <1>4, <1>5, <1>7, <1>8, NotSqueezed
<1>10. x.unit = "core" /\ x.n = c.debt * SqueezeRatio /\ x.d = c.coll * 10
  OBVIOUS
<1> HIDE DEF x, c, g
<1>11. ~F!PriceLess(ba.median, x)
  BY <1>6, <1>9, <1>10 DEF F!PriceLess
<1> QED
  BY <1>11 DEF F!PriceMax

\* What update_bitasset_current_feed makes of GOLD's feed.
LEMMA AnchorUpdated ==
  ASSUME F!SmartcoinAssumption, F!Undistorted, IsGold, NEW ba \in Bitasset, NEW b \in Nat, b <= LastBlock,
         NEW cs \in [Holders -> Position], CoveredTwice(cs, b)
  PROVE  LET u == F!update_bitasset_current_feed(ba, cs, b) IN
         SameTerms(ba, u) /\ u.pub <= b /\ AnchorFits(u, b)
<1> DEFINE g == F!Price("core", F!GoldPerCore(b))
           v == F!update_median_feeds(ba, b)
           w == F!apply_feed_policy(v, b)
           u == F!update_bitasset_current_feed(ba, cs, b)
<1>1. g \in Quote
  <2>1. F!GoldPerCore(b)[1] \in Nat \ {0} /\ F!GoldPerCore(b)[2] \in Nat \ {0}
    BY AnchorType
  <2> QED
    BY <2>1 DEF F!Price, Quote, Units, F!Positive
<1>2. \E m, t : v = [ba EXCEPT !.median = m, !.pub = t]
  BY Zenon DEF F!update_median_feeds
<1>3. w = [v EXCEPT !.median = g, !.current = g, !.pub = b]
  BY DEF F!apply_feed_policy
<1>4. SameTerms(ba, w) /\ w.pub = b /\ w.median = g /\ w.current = g
  <2> HIDE DEF v, w, g
  <2>1. PICK m, t : v = [ba EXCEPT !.median = m, !.pub = t]
    BY <1>2
  <2> QED
    BY <1>1, <1>3, <2>1 DEF SameTerms, Bitasset
<1>5. u = IF F!Derives(ba) THEN F!SetCurrent(w, F!get_derived_current_feed_price(w, cs)) ELSE w
  BY DEF F!update_bitasset_current_feed
<1> HIDE DEF w, u
<1>6. w.method \in Methods
  BY <1>4 DEF SameTerms, Bitasset
<1>7. F!get_derived_current_feed_price(w, cs) = g
  BY <1>4, <1>6, DerivedIs
<1>8. F!SetCurrent(w, g) = w
  BY <1>4 DEF F!SetCurrent, F!PriceEq
<1>9. u = w
  BY <1>5, <1>7, <1>8
<1> QED
  BY <1>4, <1>9 DEF AnchorFits, u

-----------------------------------------------------------------------------
(* Smartcoins: positions.                                                  *)

\* A position changes, and its owner pays or receives the difference.
LEMMA PositionMoves ==
  ASSUME F!SmartcoinAssumption, FInv, NEW a \in Holders, NEW dd \in Int, NEW dc \in Int,
         NEW new \in Position, new.debt = fCalls[a].debt + dd, new.coll = fCalls[a].coll + dc,
         new.debt = 0 <=> new.coll = 0,
         F!Pay(a, dd, dc), fCalls' = [fCalls EXCEPT ![a] = new], fBlock' = fBlock, fVoted' = fVoted,
         SumOver(fBal, Holders) + dd <= CoinSupply
  PROVE  FInv'
<1>0. IsFiniteSet(Holders) /\ FTypes /\ FAdds
  BY CoinConstants DEF FInv
<1>1. /\ fBal \in [Holders -> Nat] /\ fCore \in [Holders -> Nat] /\ fCalls \in [Holders -> Position]
  BY <1>0 DEF FTypes
<1>2. /\ fBal[a] + dd \in Nat /\ fCore[a] - dc \in Nat
      /\ fBal' = [fBal EXCEPT ![a] = fBal[a] + dd] /\ fCore' = [fCore EXCEPT ![a] = fCore[a] - dc]
  <2>1. fBal[a] \in Nat /\ fCore[a] \in Nat
    BY <1>1
  <2> QED
    BY <2>1 DEF F!Pay
<1>3. fBal' \in [Holders -> Nat] /\ fCore' \in [Holders -> Nat] /\ fCalls' \in [Holders -> Position]
  BY <1>1, <1>2
<1>4. /\ fBal'[a] = fBal[a] + dd /\ fCore'[a] = fCore[a] - dc /\ fCalls'[a] = new
      /\ \A x \in Holders \ {a} : fBal[x] = fBal'[x] /\ fCore[x] = fCore'[x] /\ fCalls[x] = fCalls'[x]
  BY <1>1, <1>2
<1>5. /\ \A x \in Holders : fCalls[x].debt \in Nat /\ fCalls[x].coll \in Nat
      /\ \A x \in Holders : fCalls'[x].debt \in Nat /\ fCalls'[x].coll \in Nat
  BY <1>1, <1>3 DEF Position
<1> DEFINE d0 == F!DebtOf
           d1 == F!DebtOf'
           c0 == F!CoreOf
           c1 == F!CoreOf'
<1>6. /\ d0 \in [Holders -> Nat] /\ d1 \in [Holders -> Nat] /\ c0 \in [Holders -> Nat] /\ c1 \in [Holders -> Nat]
      /\ \A x \in Holders : d0[x] = fCalls[x].debt /\ c0[x] = fCore[x] + fCalls[x].coll
      /\ \A x \in Holders : d1[x] = fCalls'[x].debt /\ c1[x] = fCore'[x] + fCalls'[x].coll
  BY <1>1, <1>3, <1>5 DEF F!DebtOf, F!CoreOf
<1> HIDE DEF d0, d1, c0, c1
<1>7. \A x \in Holders \ {a} : d0[x] = d1[x]
  BY <1>4, <1>6
<1>8. \A x \in Holders \ {a} : c0[x] = c1[x]
  BY <1>4, <1>6
<1>9. d1[a] = d0[a] + dd /\ c1[a] = c0[a]
  BY <1>1, <1>4, <1>5, <1>6
<1>10. SumOver(fBal, Holders) \in Nat /\ SumOver(fBal', Holders) = SumOver(fBal, Holders) + dd
  <2>1. /\ fBal[a] \in Nat /\ SumOver(fBal, Holders) \in Nat
        /\ SumOver(fBal', Holders) = SumOver(fBal, Holders) + fBal'[a] - fBal[a]
    BY <1>0, <1>1, <1>3, <1>4, OneChanges
  <2> QED
    BY <1>4, <2>1
<1>11. SumOver(d0, Holders) \in Nat /\ SumOver(d1, Holders) = SumOver(d0, Holders) + dd
  <2>1. /\ d0[a] \in Nat /\ SumOver(d0, Holders) \in Nat
        /\ SumOver(d1, Holders) = SumOver(d0, Holders) + d1[a] - d0[a]
    BY <1>0, <1>6, <1>7, OneChanges
  <2> QED
    BY <1>9, <2>1
<1>12. SumOver(c0, Holders) \in Nat /\ SumOver(c1, Holders) = SumOver(c0, Holders)
  <2>1. /\ c0[a] \in Nat /\ SumOver(c0, Holders) \in Nat
        /\ SumOver(c1, Holders) = SumOver(c0, Holders) + c1[a] - c0[a]
    BY <1>0, <1>6, <1>8, OneChanges
  <2> QED
    BY <1>9, <2>1
<1>13. FAdds'
  BY <1>0, <1>10, <1>11, <1>12 DEF FAdds, d0, d1, c0, c1
<1>14. Whole(fCalls')
  BY <1>0, <1>4 DEF FTypes, Whole
<1>15. FTypes'
  BY <1>0, <1>3, <1>14 DEF FTypes, Whole
<1> QED
  BY <1>13, <1>15 DEF FInv

\* call_order_update that opens or changes a position.
LEMMA PositionUpdated ==
  ASSUME F!SmartcoinAssumption, FInv, NEW a \in Holders, NEW dd \in DebtDeltas, NEW dc \in CollDeltas,
         F!UpdatePosition(a, dd, dc)
  PROVE  FInv'
<1> DEFINE new == F!Changed(fCalls[a], dd, dc)
<1>1. dd \in Int /\ dc \in Int
  BY CoinConstants
<1>2. fCalls \in [Holders -> Position]
  BY DEF FInv, FTypes
<1>3. fCalls[a].debt \in Nat /\ fCalls[a].coll \in Nat
  BY <1>2 DEF Position
<1>4. fCalls[a].debt + dd > 0 /\ fCalls[a].coll + dc > 0 /\ F!supply + dd <= CoinSupply
  BY DEF F!UpdatePosition, F!Accepted, F!Admissible
<1>5. /\ new \in Position /\ new.debt = fCalls[a].debt + dd /\ new.coll = fCalls[a].coll + dc
      /\ new.debt # 0 /\ new.coll # 0
  BY <1>1, <1>3, <1>4 DEF F!Changed, Position
<1>6. /\ F!Pay(a, dd, dc) /\ fCalls' = [fCalls EXCEPT ![a] = new] /\ fBlock' = fBlock /\ fVoted' = fVoted
  BY <1>2 DEF F!UpdatePosition
<1>7. SumOver(fBal, Holders) + dd <= CoinSupply
  BY <1>4, CoinSums DEF F!supply
<1> HIDE DEF new
<1> QED
  BY <1>1, <1>5, <1>6, <1>7, PositionMoves

\* call_order_update that closes a position.
LEMMA PositionClosed ==
  ASSUME F!SmartcoinAssumption, FInv, NEW a \in Holders, F!ClosePosition(a)
  PROVE  FInv'
<1> DEFINE new == [debt |-> 0, coll |-> 0]
           dd == - fCalls[a].debt
           dc == - fCalls[a].coll
<1>1. fCalls \in [Holders -> Position] /\ fBal \in [Holders -> Nat]
  BY DEF FInv, FTypes
<1>2. fCalls[a].debt \in Nat /\ fCalls[a].coll \in Nat
  BY <1>1 DEF Position
<1>3. /\ F!Pay(a, dd, dc) /\ fCalls' = [fCalls EXCEPT ![a] = new] /\ fBlock' = fBlock /\ fVoted' = fVoted
  BY DEF F!ClosePosition
<1>4. /\ new \in Position /\ new.debt = fCalls[a].debt + dd /\ new.coll = fCalls[a].coll + dc
      /\ new.debt = 0 /\ new.coll = 0 /\ dd \in Int /\ dc \in Int /\ dd <= 0
  BY <1>2 DEF Position
<1>5. SumOver(fBal, Holders) \in Nat /\ SumOver(fBal, Holders) <= CoinSupply /\ CoinSupply \in Nat
  BY <1>1, CoinConstants, SumNat DEF FInv, FAdds
<1>6. SumOver(fBal, Holders) + dd <= CoinSupply
  BY <1>4, <1>5
<1> HIDE DEF new, dd, dc
<1> QED
  BY <1>3, <1>4, <1>6, PositionMoves

\* A transfer of the coin.
LEMMA CoinTransferred ==
  ASSUME F!SmartcoinAssumption, FInv, NEW a \in Holders, NEW b \in Holders, NEW x, F!Transfer(a, b, x)
  PROVE  FInv'
<1>1. IsFiniteSet(Holders) /\ FTypes /\ FAdds
  BY CoinConstants DEF FInv
<1>2. fBal \in [Holders -> Nat]
  BY <1>1 DEF FTypes
<1>3. /\ a # b /\ x \in 1..fBal[a] /\ fBal' = [fBal EXCEPT ![a] = fBal[a] - x, ![b] = fBal[b] + x]
      /\ fBlock' = fBlock /\ fCalls' = fCalls /\ fCore' = fCore /\ fVoted' = fVoted
  BY DEF F!Transfer
<1>4. x \in Nat /\ fBal[a] - x \in Nat
  BY <1>2, <1>3
<1> DEFINE mid == [fBal EXCEPT ![a] = fBal[a] - x]
<1>5. mid \in [Holders -> Nat] /\ mid[a] = fBal[a] + (-x) /\ \A y \in Holders \ {a} : fBal[y] = mid[y]
  BY <1>2, <1>4
<1>6. fBal' \in [Holders -> Nat] /\ fBal'[b] = mid[b] + x /\ \A y \in Holders \ {b} : mid[y] = fBal'[y]
  BY <1>2, <1>3, <1>4, <1>5
<1> HIDE DEF mid
<1>7. /\ fBal[a] \in Nat /\ SumOver(fBal, Holders) \in Nat /\ SumOver(mid, Holders) \in Nat
      /\ SumOver(mid, Holders) = SumOver(fBal, Holders) + mid[a] - fBal[a]
  BY ONLY <1>1, <1>2, <1>5, a \in Holders, OneChanges
<1>8. /\ mid[b] \in Nat
      /\ SumOver(fBal', Holders) = SumOver(mid, Holders) + fBal'[b] - mid[b]
  BY ONLY <1>1, <1>5, <1>6, b \in Holders, OneChanges
<1>9. SumOver(fBal', Holders) = SumOver(fBal, Holders)
  BY ONLY <1>4, <1>5, <1>6, <1>7, <1>8
<1>10. F!DebtOf' = F!DebtOf /\ F!CoreOf' = F!CoreOf
  BY <1>3 DEF F!DebtOf, F!CoreOf
<1>11. FAdds'
  BY <1>1, <1>9, <1>10 DEF FAdds
<1>12. FTypes'
  BY <1>1, <1>3, <1>6 DEF FTypes, Whole
<1> QED
  BY <1>11, <1>12 DEF FInv

\* Steps that leave coin, CORE and positions alone.
LEMMA PositionsStay ==
  ASSUME F!SmartcoinAssumption, FInv, UNCHANGED <<fCalls, fBal, fCore>>, fBlock' \in 1..LastBlock, fBlock' >= fBlock,
         \A a \in Holders : fVoted'[a] = fVoted[a] \/ fVoted'[a] = fBlock, DOMAIN fVoted' = Holders,
         fVoted' = [a \in Holders |-> fVoted'[a]]
  PROVE  FInv'
<1>1. F!DebtOf' = F!DebtOf /\ F!CoreOf' = F!CoreOf
  BY DEF F!DebtOf, F!CoreOf
<1>2. FAdds'
  BY <1>1 DEF FInv, FAdds
<1>3. fVoted' \in [Holders -> 0..fBlock']
  <2>1. fVoted \in [Holders -> 0..fBlock] /\ fBlock \in 1..LastBlock /\ LastBlock \in Nat
    BY CoinConstants DEF FInv, FTypes
  <2>2. \A a \in Holders : fVoted'[a] \in 0..fBlock'
    BY <2>1
  <2> QED
    BY <2>2, Zenon
<1>4. FTypes'
  BY <1>3 DEF FInv, FTypes, Whole
<1> QED
  BY <1>2, <1>4 DEF FInv

\* Every step keeps coin, CORE and positions in order.
LEMMA CoinStep ==
  ASSUME F!SmartcoinAssumption, FInv, [F!Next]_F!vars
  PROVE  FInv'
<1>0. fVoted \in [Holders -> 0..fBlock] /\ fBlock \in 1..LastBlock /\ LastBlock \in Nat
  BY CoinConstants DEF FInv, FTypes
<1>1. CASE UNCHANGED F!vars
  <2>1. F!DebtOf' = F!DebtOf /\ F!CoreOf' = F!CoreOf
    BY <1>1 DEF F!vars, F!DebtOf, F!CoreOf
  <2> QED
    BY <1>1, <2>1 DEF F!vars, FInv, FTypes, FAdds, Whole
<1>2. CASE \E a \in Holders, dd \in DebtDeltas, dc \in CollDeltas : F!UpdatePosition(a, dd, dc)
  BY <1>2, PositionUpdated
<1>3. CASE \E a \in Holders : F!ClosePosition(a)
  BY <1>3, PositionClosed
<1>4. CASE \E a, b \in Holders : \E x \in 1..CoinSupply : F!Transfer(a, b, x)
  BY <1>4, CoinTransferred
<1>5. CASE \E a \in Holders : F!CastVote(a)
  <2>1. PICK a \in Holders : fVoted' = [fVoted EXCEPT ![a] = fBlock] /\ UNCHANGED <<fBlock, fCalls, fBal, fCore>>
    BY <1>5 DEF F!CastVote
  <2>2. /\ \A x \in Holders : fVoted'[x] = fVoted[x] \/ fVoted'[x] = fBlock
        /\ DOMAIN fVoted' = Holders /\ fVoted' = [x \in Holders |-> fVoted'[x]]
    BY <1>0, <2>1
  <2>3. fBlock' \in 1..LastBlock /\ fBlock' >= fBlock /\ UNCHANGED <<fCalls, fBal, fCore>>
    BY <1>0, <2>1
  <2> QED
    BY <2>2, <2>3, PositionsStay
<1>6. CASE \E p \in Producers, x \in FeedPrices : F!asset_publish_feed(p, x)
  <2>1. UNCHANGED <<fBlock, fCalls, fBal, fCore, fVoted>>
    BY <1>6 DEF F!asset_publish_feed
  <2> QED
    BY <1>0, <2>1, PositionsStay
<1>7. CASE \E m \in Methods, life \in Lifetimes, min \in MinFeeds : F!asset_update_bitasset(m, life, min)
  <2>1. UNCHANGED <<fBlock, fCalls, fBal, fCore, fVoted>>
    BY <1>7 DEF F!asset_update_bitasset
  <2> QED
    BY <1>0, <2>1, PositionsStay
<1>8. CASE \E S \in SUBSET Producers : F!asset_update_feed_producers(S)
  <2>1. UNCHANGED <<fBlock, fCalls, fBal, fCore, fVoted>>
    BY <1>8 DEF F!asset_update_feed_producers
  <2> QED
    BY <1>0, <2>1, PositionsStay
<1>9. CASE F!Block
  <2>1. UNCHANGED <<fCalls, fBal, fCore, fVoted>> /\ fBlock < LastBlock /\ fBlock' = fBlock + 1
    BY <1>9 DEF F!Block
  <2>2. fBlock' \in 1..LastBlock /\ fBlock' >= fBlock
    BY <1>0, <2>1
  <2> QED
    BY <1>0, <2>1, <2>2, PositionsStay
<1> QED
  BY <1>1, <1>2, <1>3, <1>4, <1>5, <1>6, <1>7, <1>8, <1>9 DEF F!Next

\* A new coin: nothing is owed.
LEMMA CoinInit ==
  ASSUME F!SmartcoinAssumption, F!Init
  PROVE  FInv
<1>0. IsFiniteSet(Holders) /\ LastBlock \in Nat \ {0} /\ StartCore \in Nat /\ CoinSupply \in Nat
  BY CoinConstants
<1>1. /\ fBlock = 1 /\ fCalls = [a \in Holders |-> [debt |-> 0, coll |-> 0]] /\ fBal = [a \in Holders |-> 0]
      /\ fCore = [a \in Holders |-> StartCore] /\ fVoted = [a \in Holders |-> 0]
  BY DEF F!Init
<1>2. FTypes
  BY <1>0, <1>1 DEF FTypes, Position, Whole
<1>3. /\ \A a \in Holders : fBal[a] = 0
      /\ \A a \in Holders : F!DebtOf[a] = 0
      /\ \A a \in Holders : F!CoreOf[a] = StartCore
  BY <1>0, <1>1 DEF F!DebtOf, F!CoreOf
<1>4. SumOver(fBal, Holders) = 0 * Cardinality(Holders) /\ SumOver(F!DebtOf, Holders) = 0 * Cardinality(Holders)
      /\ SumOver(F!CoreOf, Holders) = StartCore * Cardinality(Holders)
  BY <1>0, <1>3, SumConstant
<1>5. Cardinality(Holders) \in Nat
  BY <1>0, FS_CardinalityType
<1> QED
  BY <1>0, <1>2, <1>4, <1>5 DEF FInv, FAdds

\* What a repair gains: strictly more collateral per debt.
LEMMA RepairIncreases ==
  ASSUME NEW x \in Nat \ {0}, NEW y \in Nat \ {0}, NEW dd \in Int, NEW dc \in Int, dd <= 0, dc >= 0,
         dd # 0 \/ dc # 0, x + dd > 0
  PROVE  (y + dc) * x > y * (x + dd)
<1>1. (y + dc) * x = y * x + dc * x /\ y * (x + dd) = y * x + y * dd
  BY SMT
<1>2. dc * x \in Nat /\ (dc # 0 => dc * x > 0)
  BY SMT
<1>3. y * dd <= 0 /\ y * dd \in Int /\ (dd # 0 => y * dd < 0)
  <2>1. -dd \in Nat /\ y * (-dd) \in Nat /\ (dd # 0 => y * (-dd) > 0)
    BY SMT
  <2>2. y * (-dd) = - (y * dd) /\ y * dd \in Int
    BY SMT
  <2> DEFINE z == y * dd
  <2> HIDE DEF z
  <2>3. y * (-dd) = - z /\ z \in Int
    BY <2>2 DEF z
  <2>4. z <= 0 /\ z \in Int /\ (dd # 0 => z < 0)
    BY <2>1, <2>3
  <2> QED
    BY <2>4 DEF z
<1>4. y * x \in Nat
  BY SMT
<1> DEFINE m == y * x
           p == dc * x
           q == y * dd
<1> HIDE DEF m, p, q
<1>5. m \in Nat /\ p \in Nat /\ (dc # 0 => p > 0) /\ q <= 0 /\ q \in Int /\ (dd # 0 => q < 0)
  BY <1>2, <1>3, <1>4 DEF m, p, q
<1>6. m + p > m + q
  BY <1>5
<1> QED
  BY <1>1, <1>6 DEF m, p, q

\* The invariant implies that coin is backed and repairs are accepted.
LEMMA CoinInvIs ==
  ASSUME F!SmartcoinAssumption, FInv
  PROVE  F!Backed /\ F!RepairNeverRefused
<1>1. F!Backed
  BY CoinSums DEF F!Backed, F!supply, FInv, FAdds
<1>2. ASSUME NEW a \in Holders, NEW dd \in DebtDeltas, NEW dc \in CollDeltas,
             fAsset.current # F!Null, fCalls[a].debt + dd > 0, ~F!MeetsICR(fCalls[a], fAsset.current),
             dd <= 0, dc >= 0, dd # 0 \/ dc # 0
      PROVE  F!Accepted(a, dd, dc)
  <2> DEFINE old == fCalls[a]
             new == F!Changed(old, dd, dc)
  <2>1. dd \in Int /\ dc \in Int /\ CoinSupply \in Nat
    BY CoinConstants
  <2>2. old \in Position /\ (old.debt = 0 <=> old.coll = 0)
    BY DEF FInv, FTypes, Whole
  <2>3. old.debt \in Nat \ {0} /\ old.coll \in Nat \ {0}
    <3>1. old.debt \in Nat /\ old.coll \in Nat
      BY <2>2 DEF Position
    <3> QED
      BY <1>2, <2>1, <2>2, <3>1
  <2>4. F!supply + dd <= CoinSupply
    <3>1. SumOver(fBal, Holders) \in Nat /\ SumOver(fBal, Holders) <= CoinSupply
      BY CoinConstants, SumNat DEF FInv, FTypes, FAdds
    <3>2. F!supply = SumOver(fBal, Holders)
      BY CoinSums DEF F!supply
    <3> QED
      BY <1>2, <2>1, <3>1, <3>2
  <2>5. old.coll + dc > 0
    BY <1>2, <2>1, <2>3
  <2>6. F!Admissible(a, dd, dc)
    <3>1. old.debt = 0 => dd > 0 /\ dc > 0
      BY <2>3
    <3>2. dd > 0 => F!HasVoted(a)
      BY <1>2, <2>1
    <3>3. F!RepairOnly(old, dd, dc)
      BY <1>2 DEF F!RepairOnly
    <3>4. ~(dd > 0)
      BY <1>2, <2>1
    <3> QED
      BY <1>2, <2>4, <2>5, <3>1, <3>2, <3>3, <3>4, Zenon DEF F!Admissible
  <2>7. new.debt = old.debt + dd /\ new.coll = old.coll + dc
    BY DEF F!Changed
  <2>8. F!IncreasesCR(old, new)
    <3>1. (old.coll + dc) * old.debt > old.coll * (old.debt + dd)
      <4> HIDE DEF old
      <4>1. old.debt + dd > 0
        BY <1>2 DEF old
      <4> QED
        BY ONLY <1>2, <2>1, <2>3, <4>1, RepairIncreases
    <3>2. new.debt <= old.debt /\ old.debt > 0
      BY <1>2, <2>1, <2>3, <2>7
    <3> HIDE DEF old, new
    <3> QED
      BY <2>7, <3>1, <3>2 DEF F!IncreasesCR
  <2> QED
    BY <2>6, <2>8 DEF F!Accepted
<1>3. F!RepairNeverRefused
  BY <1>2 DEF F!RepairNeverRefused
<1> QED
  BY <1>1, <1>3

\* Coin, CORE and positions are in order throughout.
LEMMA CoinInvariant ==
  ASSUME F!SmartcoinAssumption
  PROVE  F!Spec => []FInv
<1>1. F!Init => FInv
  BY CoinInit
<1>2. FInv /\ [F!Next]_F!vars => FInv'
  BY CoinStep
<1> QED
  BY <1>1, <1>2, PTL DEF F!Spec

\* The supply of a coin is its debt, no CORE is lost in positions, and a repair of a
\* position is never refused, whatever the options and the feeds
\* (call_order_update_evaluator).
THEOREM CoinIsBacked ==
  ASSUME F!SmartcoinAssumption
  PROVE  F!Spec => [](F!Backed /\ F!RepairNeverRefused)
<1>1. FInv => F!Backed /\ F!RepairNeverRefused
  BY CoinInvIs
<1> QED
  BY <1>1, CoinInvariant, PTL

-----------------------------------------------------------------------------
(* Smartcoins: the feed in every step.                                     *)

\* A recomputed feed fits.
LEMMA AnyUpdated ==
  ASSUME F!SmartcoinAssumption, F!Undistorted, NEW ba \in Bitasset, NEW b \in Nat, b > 0, b <= LastBlock,
         Published(ba, b), NEW cs \in [Holders -> Position], IsGold => CoveredTwice(cs, b)
  PROVE  LET u == F!update_bitasset_current_feed(ba, cs, b) IN
         SameTerms(ba, u) /\ u.pub <= b /\ Published(u, b) /\ FeedFits(u, b)
<1> DEFINE u == F!update_bitasset_current_feed(ba, cs, b)
<1>1. SameTerms(ba, u) /\ u.pub <= b /\ FeedFits(u, b)
  <2>1. CASE IsGold
    BY <2>1, AnchorUpdated DEF FeedFits
  <2>2. CASE ~IsGold
    BY <2>2, FeedUpdated DEF FeedFits
  <2> QED
    BY <2>1, <2>2
<1> HIDE DEF u
<1>2. Published(u, b)
  BY <1>1 DEF SameTerms, Published
<1> QED
  BY <1>1, <1>2 DEF u

\* With positions covered twice nothing is left to derive.
LEMMA SkipKeeps ==
  ASSUME F!SmartcoinAssumption, F!Undistorted, IsGold, NEW ba \in Bitasset, NEW b \in Nat, b <= LastBlock,
         NEW cs \in [Holders -> Position], CoveredTwice(cs, b), AnchorFits(ba, b)
  PROVE  F!SkipMedianUpdate(ba, cs) = ba
<1>1. ba.method \in Methods /\ ba.median = F!Price("core", F!GoldPerCore(b)) /\ ba.current = ba.median
  BY DEF Bitasset, AnchorFits
<1>2. F!get_derived_current_feed_price(ba, cs) = ba.median
  BY <1>1, DerivedIs
<1>3. F!SetCurrent(ba, ba.median) = ba
  BY <1>1 DEF F!SetCurrent, F!PriceEq
<1> QED
  BY <1>2, <1>3 DEF F!SkipMedianUpdate

\* A position that is covered twice still is after an update that increases its
\* collateral per debt.
LEMMA IncreaseCovers ==
  ASSUME NEW old \in Position, NEW new \in Position, NEW p \in Quote, old.coll > 0,
         F!Covers(old, 2, p), F!IncreasesCR(old, new)
  PROVE  F!Covers(new, 2, p)
<1> DEFINE x == new.coll
           y == new.debt
           c == old.coll
           d == old.debt
           n == p.n
           q == p.d
<1>1. x \in Nat /\ y \in Nat /\ c \in Nat \ {0} /\ d \in Nat \ {0} /\ n \in Nat /\ q \in Nat \ {0}
  BY DEF Position, Quote, F!Positive, F!IncreasesCR
<1>2. p.unit = "core" /\ c * n >= 2 * d * q /\ x * d > c * y
  BY DEF F!Covers, F!IncreasesCR
<1> HIDE DEF x, y, c, d, n, q
<1>3. x # 0
  <2>1. c * y \in Nat
    BY <1>1, MulNat
  <2> QED
    BY <1>1, <1>2, <2>1
<1>4. (2 * y) * c <= (2 * x) * d
  <2> DEFINE i == y * c
             j == x * d
  <2>1. i \in Nat /\ j \in Nat
    BY <1>1, MulNat
  <2>2. c * y = i /\ (2 * y) * c = 2 * i /\ (2 * x) * d = 2 * j
    BY <1>1, SMT
  <2>3. j > i
    BY <1>2, <2>2
  <2> HIDE DEF i, j
  <2>4. 2 * i <= 2 * j
    BY <2>1, <2>3
  <2> QED
    BY <2>2, <2>4
<1>5. (2 * d) * q <= n * c
  <2>1. n * c = c * n
    BY <1>1, SMT
  <2> QED
    BY <1>1, <1>2, <2>1, MulNat
<1>6. (2 * y) * q <= n * x
  \* 2y / x <= 2d / c <= n / q
  <2>1. (2 * y) * c <= (2 * d) * x
    <3>1. (2 * x) * d = (2 * d) * x
      BY <1>1, SMT
    <3> QED
      BY <1>4, <3>1
  <2>2. 2 * y \in Nat /\ 2 * d \in Nat
    BY <1>1
  <2> QED
    BY <1>1, <1>3, <1>5, <2>1, <2>2, RatioTransitive
<1>7. x * n >= 2 * y * q
  <2>1. n * x = x * n /\ n * x \in Nat /\ (2 * y) * q \in Nat
    BY <1>1, SMT
  <2> QED
    BY <1>6, <2>1
<1> QED
  BY <1>2, <1>7 DEF F!Covers, x, y, n, q

\* An update of a position that adds risk ends covered twice at the effective feed,
\* and one of a position that is covered twice as well.
LEMMA UpdateCovers ==
  ASSUME F!SmartcoinAssumption, FInv, fAsset.current \in Quote, NEW a \in Holders, NEW dd \in DebtDeltas, NEW dc \in CollDeltas,
         F!Accepted(a, dd, dc),
         \/ F!Covers(fCalls[a], 2, fAsset.current)
         \/ dd > 0 \/ dc < 0
  PROVE  F!Covers(F!Changed(fCalls[a], dd, dc), 2, fAsset.current)
<1> DEFINE old == fCalls[a]
           new == F!Changed(old, dd, dc)
<1>1. dd \in Int /\ dc \in Int
  BY CoinConstants
<1>2. old \in Position /\ (old.debt = 0 <=> old.coll = 0)
  BY DEF FInv, FTypes, Whole
<1>3. old.debt \in Nat /\ old.coll \in Nat
  BY <1>2 DEF Position
<1>4. F!Admissible(a, dd, dc) /\ (F!IncreasesCR(old, new) \/ F!MeetsICR(new, fAsset.current))
  BY DEF F!Accepted
<1>5. /\ old.debt + dd > 0 /\ old.coll + dc > 0
      /\ old.debt > 0 => F!RepairOnly(old, dd, dc)
  BY <1>4, Zenon DEF F!Admissible
<1>6. new \in Position /\ new.debt = old.debt + dd /\ new.coll = old.coll + dc
  BY <1>1, <1>3, <1>5 DEF F!Changed, Position
<1>7. CASE F!IncreasesCR(old, new)
  <2>1. old.debt > 0 /\ old.coll > 0
    BY <1>2, <1>3, <1>7 DEF F!IncreasesCR
  <2>2. F!Covers(old, 2, fAsset.current)
    <3>1. dd > 0 \/ dc < 0 => ~(dd <= 0 /\ dc >= 0)
      BY <1>1
    <3> QED
      BY <1>5, <2>1, <3>1 DEF F!RepairOnly, F!MeetsICR
  <2> HIDE DEF old, new
  <2>3. F!Covers(new, 2, fAsset.current)
    BY <1>2, <1>6, <1>7, <2>1, <2>2, IncreaseCovers
  <2> QED
    BY <2>3 DEF old, new
<1>8. CASE F!MeetsICR(new, fAsset.current)
  BY <1>8 DEF F!MeetsICR
<1> QED
  BY <1>4, <1>7, <1>8

\* The anchor price of GOLD does not fall, so what is covered stays covered.
LEMMA AnchorGrows ==
  ASSUME F!SmartcoinAssumption, F!Undistorted, IsGold, NEW b \in Nat, b + 1 <= LastBlock,
         NEW cs \in [Holders -> Position], Whole(cs), CoveredTwice(cs, b)
  PROVE  CoveredTwice(cs, b + 1)
<1> DEFINE R == FeedBlocks
           k == b \div R
           q == (b + 1) \div R
           g == F!GoldPerCore(b)
           h == F!GoldPerCore(b + 1)
<1>1. R \in Nat \ {0} /\ LastBlock \in Nat
  BY CoinConstants
<1>2. k \in Nat /\ q \in Nat /\ k <= q /\ R * q <= b + 1 /\ b < R * k + R
  BY <1>1, DivFloor, DivMono
<1>3. q <= k + 1
  <2>1. R * (k + 1) = R * k + R
    BY <1>1, <1>2, SMT
  <2>2. q * R <= (k + 1) * R
    <3> DEFINE i == R * q
               j == R * (k + 1)
    <3>1. i \in Nat /\ j \in Nat
      BY <1>1, <1>2, MulNat
    <3>2. i <= b + 1 /\ b < j
      BY <1>2, <2>1
    <3>3. i = q * R /\ j = (k + 1) * R
      BY <1>1, <1>2, SMT
    <3> HIDE DEF i, j
    <3>4. i <= j
      BY <3>1, <3>2
    <3> QED
      BY <3>3, <3>4
  <2> QED
    BY <1>1, <1>2, <2>2, MulCancel
<1>4. q \in F!Periods /\ k \in F!Periods
  <2>1. q <= LastBlock \div R /\ LastBlock \div R \in Nat
    BY <1>1, DivMono, DivFloor
  <2> QED
    BY <1>2, <2>1 DEF F!Periods
<1>5. g = AnchorPrice[k] /\ h = AnchorPrice[q]
  BY DEF F!GoldPerCore
<1>6. g \in (Nat \ {0}) \X (Nat \ {0}) /\ h \in (Nat \ {0}) \X (Nat \ {0})
  <2>1. b <= LastBlock /\ b + 1 \in Nat
    BY <1>1
  <2> QED
    BY <2>1, AnchorType
<1>7. g[1] * h[2] <= h[1] * g[2]
  <2>1. CASE q = k
    BY <1>5, <1>6, <2>1, MulNat
  <2>2. CASE q = k + 1
    <3> HIDE DEF q, k, g, h
    <3> QED
      BY <1>4, <1>5, <2>2 DEF F!Undistorted
  <2> QED
    BY <1>2, <1>3, <2>1, <2>2
<1>8. ASSUME NEW a \in Holders PROVE F!Covers(cs[a], 2, F!Price("core", h))
  <2> DEFINE x == cs[a].coll
             y == cs[a].debt
  <2>1. x \in Nat /\ y \in Nat
    BY DEF Position
  <2>2. x * g[1] >= 2 * y * g[2]
    BY DEF CoveredTwice, F!Covers, F!Price
  <2>3. y = 0 <=> x = 0
    BY DEF Whole
  <2>4. g[1] \in Nat \ {0} /\ g[2] \in Nat \ {0} /\ h[1] \in Nat \ {0} /\ h[2] \in Nat \ {0}
    BY <1>6
  <2>5. x * h[1] >= 2 * y * h[2]
    <3> HIDE DEF x, y, g, h
    <3>1. CASE x = 0
      BY <2>3, <2>4, <3>1
    <3>2. CASE x # 0
      <4>1. (2 * y) * g[2] <= g[1] * x
        <5>1. g[1] * x = x * g[1] /\ x * g[1] \in Nat /\ (2 * y) * g[2] \in Nat
          BY <2>1, <2>4, SMT
        <5> QED
          BY <2>2, <5>1
      <4>2. 2 * y \in Nat /\ x \in Nat \ {0}
        BY <2>1, <3>2
      <4>3. (2 * y) * h[2] <= h[1] * x
        BY <1>7, <2>4, <4>1, <4>2, RatioTransitive
      <4>4. h[1] * x = x * h[1] /\ x * h[1] \in Nat /\ (2 * y) * h[2] \in Nat
        BY <2>1, <2>4, SMT
      <4> QED
        BY <4>3, <4>4
    <3> QED
      BY <3>1, <3>2
  <2>6. F!Price("core", h) = [unit |-> "core", n |-> h[1], d |-> h[2]]
    BY DEF F!Price
  <2> HIDE DEF h
  <2> QED
    BY <2>5, <2>6 DEF F!Covers
<1> QED
  BY <1>8 DEF CoveredTwice

\* A block without operations, of GOLD.
LEMMA AnchorBlock ==
  ASSUME F!SmartcoinAssumption, F!Undistorted, IsGold, FTypes, fAsset \in Bitasset,
         fAsset.pub <= fBlock, Published(fAsset, fBlock), AnchorFits(fAsset, fBlock), CoveredTwice(fCalls, fBlock),
         F!Block
  PROVE  /\ fAsset' \in Bitasset /\ fAsset'.pub <= fBlock' /\ Published(fAsset', fBlock')
         /\ AnchorFits(fAsset', fBlock') /\ CoveredTwice(fCalls', fBlock')
<1> DEFINE b == fBlock
           c == b + 1
           r == F!refresh_scheduled_feeds(fAsset, c)
           s == F!process_bitassets(r, c)
           u == F!update_expired_feeds(s, c)
<1>0. /\ b \in Nat /\ c \in Nat /\ c > 0 /\ c <= LastBlock /\ fBlock' = c /\ fAsset' = u /\ fCalls' = fCalls
      /\ fCalls \in [Holders -> Position] /\ Whole(fCalls)
  BY CoinConstants DEF F!Block, FTypes
<1>1. CoveredTwice(fCalls, c)
  BY <1>0, AnchorGrows
<1>2. Published(fAsset, c)
  <2>1. \A p \in Producers : fAsset.feeds[p].time \in Nat
    BY DEF Bitasset, Feed
  <2> QED
    BY <1>0, <2>1 DEF Published
<1>3. SameTerms(fAsset, r) /\ r.pub <= c /\ AnchorFits(r, c)
  <2>1. CASE c % FeedBlocks = 0
    <3>1. r = F!update_bitasset_current_feed(fAsset, fCalls, c)
      BY <2>1 DEF F!refresh_scheduled_feeds
    <3> HIDE DEF r
    <3> QED
      BY <1>0, <1>1, <3>1, AnchorUpdated
  <2>2. CASE c % FeedBlocks # 0
    <3>1. r = fAsset
      BY <2>2 DEF F!refresh_scheduled_feeds
    <3>2. F!GoldPerCore(c) = F!GoldPerCore(b)
      BY <1>0, <2>2, PeriodSame
    <3>3. fAsset.pub <= c
      BY <1>0 DEF Bitasset
    <3> QED
      BY <3>1, <3>2, <3>3 DEF SameTerms, AnchorFits
  <2> QED
    BY <2>1, <2>2
<1> HIDE DEF r
<1>4. r \in Bitasset /\ Published(r, c)
  BY <1>2, <1>3 DEF SameTerms, Published
<1>5. Pruned(r, s) /\ Published(s, c)
  BY <1>0, <1>4, CoinProcessed
<1> HIDE DEF s
<1>6. s \in Bitasset /\ s.pub <= c /\ AnchorFits(s, c)
  BY <1>3, <1>5 DEF Pruned, AnchorFits
<1>7. u \in Bitasset /\ u.pub <= c /\ Published(u, c) /\ AnchorFits(u, c)
  <2>1. CASE F!feed_is_expired(s, c)
    <3>1. u = F!update_bitasset_current_feed(s, fCalls, c)
      BY <2>1 DEF F!update_expired_feeds
    <3> HIDE DEF u
    <3>2. SameTerms(s, u) /\ u.pub <= c /\ AnchorFits(u, c)
      BY <1>0, <1>1, <1>6, <3>1, AnchorUpdated
    <3> QED
      BY <1>5, <3>2 DEF SameTerms, Published
  <2>2. CASE ~F!feed_is_expired(s, c)
    <3>1. u = s
      BY <2>2 DEF F!update_expired_feeds
    <3> QED
      BY <1>5, <1>6, <3>1
  <2> QED
    BY <2>1, <2>2
<1> HIDE DEF u, c, b
<1> QED
  BY <1>0, <1>1, <1>7

\* A change of a position keeps the feed and, of GOLD, every position covered.
LEMMA FeedPosition ==
  ASSUME F!SmartcoinAssumption, F!Undistorted, FeedInv, fBlock' = fBlock,
         fCalls' \in [Holders -> Position], IsGold => CoveredTwice(fCalls', fBlock),
         fAsset' = IF fAsset.method = "no_settlement" THEN F!SkipMedianUpdate(fAsset, fCalls') ELSE fAsset
  PROVE  FFeeds'
<1>1. fBlock \in Nat /\ fBlock <= LastBlock
  BY CoinConstants DEF FeedInv, FInv, FTypes
<1>2. FFeeds /\ fAsset.method \in Methods
  BY DEF FeedInv, FFeeds, Bitasset
<1>3. fAsset' = fAsset
  <2>1. CASE fAsset.method = "no_settlement"
    <3>1. IsGold
      BY <1>2, <2>1 DEF F!Undistorted
    <3>2. F!SkipMedianUpdate(fAsset, fCalls') = fAsset
      BY <1>1, <1>2, <3>1, SkipKeeps DEF FFeeds, FeedFits
    <3> QED
      BY <2>1, <3>2
  <2>2. CASE fAsset.method # "no_settlement"
    BY <2>2
  <2> QED
    BY <2>1, <2>2
<1>4. IsGold => CoveredTwice(fCalls', fBlock')
  OBVIOUS
<1>5. fAsset' \in Bitasset /\ fAsset'.pub <= fBlock' /\ Published(fAsset', fBlock') /\ FeedFits(fAsset', fBlock')
  BY <1>2, <1>3 DEF FFeeds
<1> QED
  BY <1>4, <1>5, Zenon DEF FFeeds

\* GOLD's anchor price as a price.
LEMMA AnchorIs ==
  ASSUME F!SmartcoinAssumption, FeedInv, IsGold
  PROVE  /\ fAsset.current = F!Price("core", F!GoldPerCore(fBlock)) /\ fAsset.current \in Quote
         /\ fAsset.current.unit = "core" /\ CoveredTwice(fCalls, fBlock)
BY DEF FeedInv, FFeeds, FeedFits, AnchorFits, Bitasset, F!Price

\* call_order_update that opens or changes a position.
LEMMA FeedPositionUpdated ==
  ASSUME F!SmartcoinAssumption, F!Undistorted, FeedInv, NEW a \in Holders,
         NEW dd \in DebtDeltas, NEW dc \in CollDeltas, F!UpdatePosition(a, dd, dc)
  PROVE  FFeeds'
<1> DEFINE new == F!Changed(fCalls[a], dd, dc)
<1>1. FInv /\ FInv'
  BY PositionUpdated DEF FeedInv
<1>2. fCalls \in [Holders -> Position] /\ fCalls' \in [Holders -> Position]
  BY <1>1 DEF FInv, FTypes
<1>3. /\ F!Accepted(a, dd, dc) /\ fCalls' = [fCalls EXCEPT ![a] = new] /\ fBlock' = fBlock
      /\ fAsset' = IF fAsset.method = "no_settlement" THEN F!SkipMedianUpdate(fAsset, fCalls') ELSE fAsset
  BY <1>2 DEF F!UpdatePosition
<1>4. ASSUME IsGold PROVE CoveredTwice(fCalls', fBlock)
  <2>1. /\ fAsset.current = F!Price("core", F!GoldPerCore(fBlock)) /\ fAsset.current \in Quote
        /\ CoveredTwice(fCalls, fBlock)
    BY <1>4, AnchorIs
  <2>2. F!Covers(fCalls[a], 2, fAsset.current)
    BY <2>1 DEF CoveredTwice
  <2>3. F!Covers(new, 2, fAsset.current)
    BY <1>1, <1>3, <2>1, <2>2, UpdateCovers
  <2> HIDE DEF new
  <2>4. \A x \in Holders : fCalls'[x] = IF x = a THEN new ELSE fCalls[x]
    BY <1>2, <1>3
  <2> QED
    BY <2>1, <2>3, <2>4 DEF CoveredTwice
<1> QED
  BY <1>2, <1>3, <1>4, FeedPosition

\* call_order_update that closes a position.
LEMMA FeedPositionClosed ==
  ASSUME F!SmartcoinAssumption, F!Undistorted, FeedInv, NEW a \in Holders, F!ClosePosition(a)
  PROVE  FFeeds'
<1> DEFINE new == [debt |-> 0, coll |-> 0]
<1>1. FInv /\ FInv'
  BY PositionClosed DEF FeedInv
<1>2. fCalls \in [Holders -> Position] /\ fCalls' \in [Holders -> Position]
  BY <1>1 DEF FInv, FTypes
<1>3. /\ fCalls' = [fCalls EXCEPT ![a] = new] /\ fBlock' = fBlock
      /\ fAsset' = IF fAsset.method = "no_settlement" THEN F!SkipMedianUpdate(fAsset, fCalls') ELSE fAsset
  BY DEF F!ClosePosition
<1>4. ASSUME IsGold PROVE CoveredTwice(fCalls', fBlock)
  <2>1. /\ fAsset.current = F!Price("core", F!GoldPerCore(fBlock)) /\ fAsset.current \in Quote
        /\ fAsset.current.unit = "core" /\ CoveredTwice(fCalls, fBlock)
    BY <1>4, AnchorIs
  <2>2. fAsset.current.n \in Nat /\ fAsset.current.d \in Nat
    BY <2>1 DEF Quote, F!Positive
  <2>3. F!Covers(new, 2, fAsset.current)
    <3>1. 0 * fAsset.current.n = 0 /\ 2 * 0 * fAsset.current.d = 0
      BY <2>2
    <3> QED
      BY <2>1, <3>1 DEF F!Covers
  <2> HIDE DEF new
  <2>4. \A x \in Holders : fCalls'[x] = IF x = a THEN new ELSE fCalls[x]
    BY <1>2, <1>3
  <2> QED
    BY <2>1, <2>3, <2>4 DEF CoveredTwice
<1> QED
  BY <1>2, <1>3, <1>4, FeedPosition

\* A recomputed feed while nothing else happens.
LEMMA FeedRecomputed ==
  ASSUME F!SmartcoinAssumption, F!Undistorted, FeedInv, NEW ba \in Bitasset, Published(ba, fBlock),
         fAsset' = F!update_bitasset_current_feed(ba, fCalls, fBlock), UNCHANGED <<fBlock, fCalls>>
  PROVE  FFeeds'
<1> DEFINE u == F!update_bitasset_current_feed(ba, fCalls, fBlock)
<1>1. fBlock \in Nat /\ fBlock > 0 /\ fBlock <= LastBlock /\ fCalls \in [Holders -> Position]
  BY CoinConstants DEF FeedInv, FInv, FTypes
<1>2. IsGold => CoveredTwice(fCalls, fBlock)
  BY DEF FeedInv, FFeeds
<1>3. SameTerms(ba, u) /\ u.pub <= fBlock /\ Published(u, fBlock) /\ FeedFits(u, fBlock)
  BY <1>1, <1>2, AnyUpdated
<1> HIDE DEF u
<1>4. fAsset' = u /\ fBlock' = fBlock /\ fCalls' = fCalls
  BY DEF u
<1>5. fAsset' \in Bitasset /\ fAsset'.pub <= fBlock' /\ Published(fAsset', fBlock') /\ FeedFits(fAsset', fBlock')
  BY <1>3, <1>4 DEF SameTerms
<1>6. IsGold => CoveredTwice(fCalls', fBlock')
  BY <1>2, <1>4
<1> QED
  BY <1>5, <1>6, Zenon DEF FFeeds

\* asset_publish_feed
LEMMA FeedPublished ==
  ASSUME F!SmartcoinAssumption, F!Undistorted, FeedInv, NEW p \in Producers, NEW x \in FeedPrices,
         F!asset_publish_feed(p, x)
  PROVE  FFeeds'
<1> DEFINE f == [time |-> fBlock, price |-> F!Price(IF IsGold THEN "core" ELSE "gold", x)]
           fed == [fAsset EXCEPT !.feeds[p] = f]
<1>1. fAsset \in Bitasset /\ Published(fAsset, fBlock) /\ fBlock \in Nat /\ fBlock > 0
  BY CoinConstants DEF FeedInv, FFeeds, FInv, FTypes
<1>2. x[1] \in Nat \ {0} /\ x[2] \in Nat \ {0}
  BY CoinConstants
<1>3. /\ f \in Feed /\ f.time = fBlock /\ f.price.n > 0
      /\ f.price.unit = IF IsGold THEN "core" ELSE "gold"
  BY <1>1, <1>2 DEF F!Price, Feed, Quote, Units, F!Positive
<1>4. fAsset.feeds \in [Producers -> Feed]
  BY <1>1 DEF Bitasset
<1> HIDE DEF f
<1>5. fed \in Bitasset /\ fed.feeds = [fAsset.feeds EXCEPT ![p] = f]
  BY <1>1, <1>3, <1>4 DEF Bitasset
<1> HIDE DEF fed
<1>6. Published(fed, fBlock)
  <2>1. ASSUME NEW q \in Producers
        PROVE  /\ fed.feeds[q].time <= fBlock
               /\ fed.feeds[q].time # 0 => /\ fed.feeds[q].price.n > 0
                                           /\ fed.feeds[q].price.unit = IF IsGold THEN "core" ELSE "gold"
    <3>1. CASE q = p
      BY <1>1, <1>3, <1>4, <1>5, <3>1
    <3>2. CASE q # p
      BY <1>1, <1>4, <1>5, <3>2 DEF Published
    <3> QED
      BY <3>1, <3>2
  <2> QED
    BY <2>1 DEF Published
<1>7. fAsset' = F!update_bitasset_current_feed(fed, fCalls, fBlock) /\ UNCHANGED <<fBlock, fCalls>>
  BY DEF F!asset_publish_feed, fed, f
<1> QED
  BY <1>5, <1>6, <1>7, FeedRecomputed

\* asset_update_feed_producers
LEMMA FeedProducers ==
  ASSUME F!SmartcoinAssumption, F!Undistorted, FeedInv, NEW S, F!asset_update_feed_producers(S)
  PROVE  FFeeds'
<1> DEFINE none == [time |-> 0, price |-> F!Null]
           feeds == [p \in Producers |-> IF p \in S THEN fAsset.feeds[p] ELSE none]
           ba == [fAsset EXCEPT !.feeds = feeds]
<1>1. fAsset \in Bitasset /\ Published(fAsset, fBlock) /\ fBlock \in Nat
  BY CoinConstants DEF FeedInv, FFeeds, FInv, FTypes
<1>2. none \in Feed /\ none.time = 0
  BY DEF Feed, F!Null, Quote, Units, F!Positive
<1>3. fAsset.feeds \in [Producers -> Feed]
  BY <1>1 DEF Bitasset
<1> HIDE DEF none
<1>4. feeds \in [Producers -> Feed]
  BY <1>2, <1>3
<1>5. ba \in Bitasset /\ ba.feeds = feeds
  BY <1>1, <1>4 DEF Bitasset
<1>6. Published(ba, fBlock)
  BY <1>1, <1>2, <1>5 DEF Published
<1>7. fAsset' = F!update_bitasset_current_feed(ba, fCalls, fBlock) /\ UNCHANGED <<fBlock, fCalls>>
  BY DEF F!asset_update_feed_producers, none
<1> HIDE DEF ba
<1> QED
  BY <1>5, <1>6, <1>7, FeedRecomputed

\* asset_update_bitasset
LEMMA FeedOptions ==
  ASSUME F!SmartcoinAssumption, F!Undistorted, FeedInv, NEW m \in Methods, NEW life \in Lifetimes, NEW min \in MinFeeds,
         F!asset_update_bitasset(m, life, min)
  PROVE  FFeeds'
<1> DEFINE ba == [fAsset EXCEPT !.method = m, !.life = life, !.min = min]
<1>1. /\ fAsset \in Bitasset /\ Published(fAsset, fBlock) /\ FeedFits(fAsset, fBlock) /\ fAsset.pub <= fBlock
      /\ IsGold => CoveredTwice(fCalls, fBlock)
      /\ fBlock \in Nat /\ fBlock <= LastBlock /\ fCalls \in [Holders -> Position]
  BY CoinConstants DEF FeedInv, FFeeds, FInv, FTypes
<1>2. /\ ba \in Bitasset /\ ba.feeds = fAsset.feeds /\ ba.method = m /\ ba.life = life /\ ba.min = min
      /\ ba.median = fAsset.median /\ ba.current = fAsset.current /\ ba.pub = fAsset.pub
  BY <1>1 DEF Bitasset
<1>3. Published(ba, fBlock)
  BY <1>1, <1>2 DEF Published
<1>4. fAsset' = F!UpdateOptions(m, life, min) /\ UNCHANGED <<fBlock, fCalls>>
  BY DEF F!asset_update_bitasset
<1>5. F!UpdateOptions(m, life, min) =
        IF life # fAsset.life \/ min # fAsset.min THEN F!update_bitasset_current_feed(ba, fCalls, fBlock)
        ELSE IF "no_settlement" \in {m, fAsset.method} THEN F!SkipMedianUpdate(ba, fCalls) ELSE ba
  BY Zenon DEF F!UpdateOptions
<1> HIDE DEF ba
<1>6. CASE life # fAsset.life \/ min # fAsset.min
  <2>1. fAsset' = F!update_bitasset_current_feed(ba, fCalls, fBlock)
    BY <1>4, <1>5, <1>6
  <2> QED
    BY <1>2, <1>3, <1>4, <2>1, FeedRecomputed
<1>7. CASE life = fAsset.life /\ min = fAsset.min
  <2>1. FeedFits(ba, fBlock)
    <3>1. CASE IsGold
      BY <1>1, <1>2, <3>1 DEF FeedFits, AnchorFits
    <3>2. CASE ~IsGold
      <4>1. F!Live(ba, fBlock) = F!Live(fAsset, fBlock)
        BY <1>2, <1>7, LiveSame
      <4>2. MedianFits(ba, fBlock)
        BY <1>1, <1>2, <1>7, <3>2, <4>1, FeedsErased DEF FeedFits
      <4>3. CurrentFits(ba, fBlock)
        BY <1>1, <1>2, <3>2 DEF FeedFits, CurrentFits
      <4> QED
        BY <3>2, <4>2, <4>3 DEF FeedFits
    <3> QED
      BY <3>1, <3>2
  <2>2. "no_settlement" \in {m, fAsset.method} => F!SkipMedianUpdate(ba, fCalls) = ba
    <3>1. SUFFICES ASSUME "no_settlement" \in {m, fAsset.method} PROVE F!SkipMedianUpdate(ba, fCalls) = ba
      OBVIOUS
    <3>2. IsGold
      BY <1>1, <3>1 DEF F!Undistorted, Bitasset
    <3> QED
      BY <1>1, <1>2, <2>1, <3>2, SkipKeeps DEF FeedFits
  <2>3. fAsset' = ba
    BY <1>4, <1>5, <1>7, <2>2
  <2>4. fAsset' \in Bitasset /\ fAsset'.pub <= fBlock' /\ Published(fAsset', fBlock') /\ FeedFits(fAsset', fBlock')
    BY <1>1, <1>2, <1>3, <1>4, <2>1, <2>3
  <2>5. IsGold => CoveredTwice(fCalls', fBlock')
    BY <1>1, <1>4
  <2> QED
    BY <2>4, <2>5, Zenon DEF FFeeds
<1> QED
  BY <1>6, <1>7

\* Every step keeps the effective feed that of the moment.
LEMMA FeedStep ==
  ASSUME F!SmartcoinAssumption, F!Undistorted, FeedInv, [F!Next]_F!vars
  PROVE  FeedInv'
<1>0. FInv' /\ FInv /\ FFeeds
  BY CoinStep DEF FeedInv
<1> SUFFICES FFeeds'
  BY <1>0 DEF FeedInv
<1>1. ASSUME UNCHANGED <<fBlock, fAsset, fCalls>> PROVE FFeeds'
  <2>1. fAsset' \in Bitasset /\ fAsset'.pub <= fBlock' /\ Published(fAsset', fBlock') /\ FeedFits(fAsset', fBlock')
    BY <1>0, <1>1 DEF FFeeds
  <2>2. IsGold => CoveredTwice(fCalls', fBlock')
    BY <1>0, <1>1 DEF FFeeds
  <2> QED
    BY <2>1, <2>2, Zenon DEF FFeeds
<1>2. CASE UNCHANGED F!vars
  BY <1>1, <1>2 DEF F!vars
<1>3. CASE \E a \in Holders, dd \in DebtDeltas, dc \in CollDeltas : F!UpdatePosition(a, dd, dc)
  BY <1>3, FeedPositionUpdated
<1>4. CASE \E a \in Holders : F!ClosePosition(a)
  BY <1>4, FeedPositionClosed
<1>5. CASE \E a, b \in Holders : \E x \in 1..CoinSupply : F!Transfer(a, b, x)
  BY <1>1, <1>5 DEF F!Transfer
<1>6. CASE \E a \in Holders : F!CastVote(a)
  BY <1>1, <1>6 DEF F!CastVote
<1>7. CASE \E p \in Producers, x \in FeedPrices : F!asset_publish_feed(p, x)
  BY <1>7, FeedPublished
<1>8. CASE \E m \in Methods, life \in Lifetimes, min \in MinFeeds : F!asset_update_bitasset(m, life, min)
  BY <1>8, FeedOptions
<1>9. CASE \E S \in SUBSET Producers : F!asset_update_feed_producers(S)
  BY <1>9, FeedProducers
<1>10. CASE F!Block
  <2>1. /\ fAsset \in Bitasset /\ fAsset.pub <= fBlock /\ Published(fAsset, fBlock) /\ FeedFits(fAsset, fBlock)
        /\ IsGold => CoveredTwice(fCalls, fBlock)
        /\ FTypes /\ fBlock \in 1..LastBlock
    BY <1>0 DEF FFeeds, FInv, FTypes
  <2>2. CASE IsGold
    <3>1. /\ fAsset' \in Bitasset /\ fAsset'.pub <= fBlock' /\ Published(fAsset', fBlock')
          /\ AnchorFits(fAsset', fBlock') /\ CoveredTwice(fCalls', fBlock')
      BY <1>10, <2>1, <2>2, AnchorBlock DEF FeedFits
    <3>2. FeedFits(fAsset', fBlock')
      BY <2>2, <3>1 DEF FeedFits
    <3> QED
      BY <2>2, <3>1, <3>2, Zenon DEF FFeeds
  <2>3. CASE ~IsGold
    <3>1. /\ fAsset' \in Bitasset /\ fAsset'.pub <= fBlock' /\ Published(fAsset', fBlock')
          /\ MedianFits(fAsset', fBlock') /\ CurrentFits(fAsset', fBlock')
      BY <1>10, <2>1, <2>3, CoinBlock DEF FeedFits
    <3>2. FeedFits(fAsset', fBlock')
      BY <2>3, <3>1 DEF FeedFits
    <3> QED
      BY <2>3, <3>1, <3>2, Zenon DEF FFeeds
  <2> QED
    BY <2>2, <2>3
<1> QED
  BY <1>2, <1>3, <1>4, <1>5, <1>6, <1>7, <1>8, <1>9, <1>10 DEF F!Next

\* A new coin has no feed, and GOLD has its own at once.
LEMMA FeedInit ==
  ASSUME F!SmartcoinAssumption, F!Undistorted, F!Init
  PROVE  FeedInv
<1>0. FInv
  BY CoinInit
<1>1. /\ fBlock = 1 /\ LastBlock \in Nat \ {0} /\ fCalls = [a \in Holders |-> [debt |-> 0, coll |-> 0]]
      /\ fCalls \in [Holders -> Position]
  BY <1>0, CoinConstants DEF F!Init, FInv, FTypes
<1> DEFINE none == [time |-> 0, price |-> F!Null]
           new(m, life, min) == [feeds |-> [p \in Producers |-> none], median |-> F!Null, current |-> F!Null,
                                 pub |-> 1, method |-> m, life |-> life, min |-> min]
<1>2. PICK m \in Methods, life \in Lifetimes, min \in MinFeeds :
        fAsset = IF IsGold THEN F!update_bitasset_current_feed(new(m, life, min), fCalls, 1) ELSE new(m, life, min)
  BY <1>1 DEF F!Init
<1> DEFINE ba == new(m, life, min)
<1>3. F!Null \in Quote /\ none \in Feed
  BY DEF F!Null, Quote, Feed, Units, F!Positive
<1>4. ba \in Bitasset /\ ba.pub = 1 /\ ba.min \in Nat \ {0} /\ ba.median = F!Null /\ ba.current = F!Null
      /\ \A p \in Producers : ba.feeds[p].time = 0
  BY <1>3, CoinConstants DEF Bitasset
<1> HIDE DEF ba
<1>5. Published(ba, 1)
  BY <1>4 DEF Published
<1>6. CASE IsGold
  <2>1. CoveredTwice(fCalls, 1)
    <3> DEFINE g == F!GoldPerCore(1)
    <3>1. g[1] \in Nat /\ g[2] \in Nat
      BY <1>1, AnchorType
    <3>2. 0 * g[1] = 0 /\ 2 * 0 * g[2] = 0
      BY <3>1
    <3>3. F!Price("core", g).unit = "core" /\ F!Price("core", g).n = g[1] /\ F!Price("core", g).d = g[2]
      BY DEF F!Price
    <3>4. \A a \in Holders : fCalls[a].debt = 0 /\ fCalls[a].coll = 0
      BY <1>1
    <3> HIDE DEF g
    <3>5. \A a \in Holders : F!Covers(fCalls[a], 2, F!Price("core", g))
      BY <3>2, <3>3, <3>4 DEF F!Covers
    <3> QED
      BY <3>5 DEF CoveredTwice, g
  <2>2. fAsset = F!update_bitasset_current_feed(ba, fCalls, 1)
    BY <1>2, <1>6 DEF ba
  <2>3. SameTerms(ba, fAsset) /\ fAsset.pub <= 1 /\ Published(fAsset, 1) /\ FeedFits(fAsset, 1)
    BY <1>1, <1>4, <1>5, <2>1, <2>2, AnyUpdated
  <2> QED
    BY <1>0, <1>1, <2>1, <2>3 DEF SameTerms, FeedInv, FFeeds
<1>7. CASE ~IsGold
  <2>1. fAsset = ba
    BY <1>2, <1>7 DEF ba
  <2>2. F!Live(ba, 1) = {}
    BY <1>4 DEF F!Live
  <2>3. Cardinality(F!Live(ba, 1)) < ba.min
    BY <1>4, <2>2, FS_EmptySet
  <2>4. MedianFits(ba, 1)
    BY <1>4, <2>3 DEF MedianFits
  <2>5. CurrentFits(ba, 1)
    BY <1>4 DEF CurrentFits, F!Null
  <2> QED
    BY <1>0, <1>1, <1>4, <1>5, <1>7, <2>1, <2>4, <2>5 DEF FeedInv, FFeeds, FeedFits
<1> QED
  BY <1>6, <1>7

-----------------------------------------------------------------------------
(* Smartcoins: what the invariant says of the effective feed.              *)

\* Fractions compare as they do at a common anchor price.
LEMMA ScaledLess ==
  ASSUME NEW a \in Nat, NEW b \in Nat, NEW c \in Nat, NEW d \in Nat, NEW g \in Nat \ {0}, NEW h \in Nat \ {0}
  PROVE  (a * g) * (d * h) < (c * g) * (b * h) <=> a * d < c * b
<1> DEFINE i == a * d
           j == c * b
           k == g * h
<1>1. i \in Nat /\ j \in Nat /\ k \in Nat \ {0}
  BY MulNat, PositiveProduct
<1>2. (a * g) * (d * h) = i * k /\ (c * g) * (b * h) = j * k
  <2>1. (a * g) * (d * h) = (a * d) * (g * h)
    BY SMT
  <2>2. (c * g) * (b * h) = (c * b) * (g * h)
    BY SMT
  <2> QED
    BY <2>1, <2>2
<1> HIDE DEF i, j, k
<1>3. i * k < j * k <=> i < j
  <2>1. i * k \in Nat /\ j * k \in Nat
    BY <1>1, MulNat
  <2>2. j <= i => j * k <= i * k
    BY <1>1, MulMono
  <2>3. j * k <= i * k => j <= i
    BY <1>1, MulCancel
  <2> DEFINE x == i * k
             y == j * k
  <2> HIDE DEF x, y
  <2>4. x \in Nat /\ y \in Nat /\ (j <= i => y <= x) /\ (y <= x => j <= i)
    BY <2>1, <2>2, <2>3 DEF x, y
  <2>5. x < y <=> i < j
    BY <1>1, <2>4
  <2> QED
    BY <2>5 DEF x, y
<1> QED
  BY <1>2, <1>3 DEF i, j

\* The effective feed is in the middle of what the feeds alive are worth now.
LEMMA WorthMiddle ==
  ASSUME F!SmartcoinAssumption, FeedInv, ~IsGold
  PROVE  LET S == F!Live(fAsset, fBlock)
             cur == fAsset.current
         IN  /\ IsFiniteSet(S) /\ Cardinality(S) \in Nat
             /\ cur = F!Null <=> Cardinality(S) < fAsset.min
             /\ cur # F!Null =>
                  /\ cur \in Quote /\ cur.unit = "core"
                  /\ \A p \in S : F!Worth(p) \in Quote /\ F!Worth(p).unit = "core"
                  /\ Cardinality({p \in S : F!PriceLess(F!Worth(p), cur)}) <= Cardinality(S) \div 2
                  /\ Cardinality({p \in S : ~F!PriceLess(cur, F!Worth(p))}) > Cardinality(S) \div 2
<1> DEFINE S == F!Live(fAsset, fBlock)
           cur == fAsset.current
           med == fAsset.median
           g == F!GoldPerCore(fBlock)
           price(p) == fAsset.feeds[p].price
<1>1. /\ fAsset \in Bitasset /\ Published(fAsset, fBlock) /\ fBlock \in Nat /\ fBlock <= LastBlock
      /\ MedianFits(fAsset, fBlock) /\ CurrentFits(fAsset, fBlock)
  BY CoinConstants DEF FeedInv, FFeeds, FeedFits, FInv, FTypes
<1>2. IsFiniteSet(S) /\ Cardinality(S) \in Nat
  BY <1>1, LiveIs
<1>3. CASE Cardinality(S) < fAsset.min
  <2>1. med = F!Null /\ med.unit = "null"
    BY <1>1, <1>3 DEF MedianFits, F!Null
  <2>2. cur = F!Null
    BY <1>1, <2>1 DEF CurrentFits
  <2> QED
    BY <1>2, <1>3, <2>2
<1>4. CASE ~(Cardinality(S) < fAsset.min)
  <2>1. med.unit = "gold" /\ med.n > 0 /\ Middle(fAsset, S, med) /\ med \in Quote
    BY <1>1, <1>4 DEF MedianFits, Bitasset
  <2>2. cur = F!multiply_feed_prices(med, g) /\ cur \in Quote
    BY <1>1, <2>1 DEF CurrentFits, Bitasset
  <2>3. cur.unit = "core" /\ cur.n = med.n * g[1] /\ cur.d = med.d * g[2]
    BY <2>2 DEF F!multiply_feed_prices
  <2>4. cur # F!Null
    BY <2>3 DEF F!Null
  <2>5. g[1] \in Nat \ {0} /\ g[2] \in Nat \ {0}
    BY <1>1, AnchorType
  <2>6. med.n \in Nat /\ med.d \in Nat \ {0}
    BY <2>1 DEF Quote, F!Positive
  <2>7. ASSUME NEW p \in S
        PROVE  /\ F!Worth(p) \in Quote /\ F!Worth(p).unit = "core"
               /\ F!PriceLess(F!Worth(p), cur) <=> F!PriceLess(price(p), med)
               /\ F!PriceLess(cur, F!Worth(p)) <=> F!PriceLess(med, price(p))
    <3>1. price(p) \in Quote /\ price(p).unit = "gold"
      BY <1>1, LiveIs
    <3>2. price(p).n \in Nat /\ price(p).d \in Nat \ {0}
      BY <3>1 DEF Quote, F!Positive
    <3>3. F!Worth(p) = [unit |-> "core", n |-> price(p).n * g[1], d |-> price(p).d * g[2]]
      BY DEF F!Worth, F!multiply_feed_prices
    <3>4. F!Worth(p).unit = "core" /\ F!Worth(p).n = price(p).n * g[1] /\ F!Worth(p).d = price(p).d * g[2]
      BY <3>3
    <3>5. F!Worth(p) \in Quote
      <4>1. price(p).n * g[1] \in Nat /\ price(p).d * g[2] \in Nat \ {0}
        <5> HIDE DEF price, g
        <5> QED
          BY <2>5, <3>2, MulNat, PositiveProduct
      <4> HIDE DEF price, g
      <4> QED
        BY <3>3, <4>1 DEF Quote, Units, F!Positive
    <3>6. F!PriceLess(F!Worth(p), cur) <=> (price(p).n * g[1]) * (med.d * g[2]) < (med.n * g[1]) * (price(p).d * g[2])
      BY <2>3, <3>4 DEF F!PriceLess
    <3>7. F!PriceLess(cur, F!Worth(p)) <=> (med.n * g[1]) * (price(p).d * g[2]) < (price(p).n * g[1]) * (med.d * g[2])
      BY <2>3, <3>4 DEF F!PriceLess
    <3>8. F!PriceLess(price(p), med) <=> price(p).n * med.d < med.n * price(p).d
      BY <2>1, <3>1 DEF F!PriceLess
    <3>9. F!PriceLess(med, price(p)) <=> med.n * price(p).d < price(p).n * med.d
      BY <2>1, <3>1 DEF F!PriceLess
    <3>10. /\ (price(p).n * g[1]) * (med.d * g[2]) < (med.n * g[1]) * (price(p).d * g[2])
              <=> price(p).n * med.d < med.n * price(p).d
           /\ (med.n * g[1]) * (price(p).d * g[2]) < (price(p).n * g[1]) * (med.d * g[2])
              <=> med.n * price(p).d < price(p).n * med.d
      <4> DEFINE i == price(p).n
                 j == price(p).d
                 k == med.n
                 l == med.d
                 e == g[1]
                 h == g[2]
      <4>1. i \in Nat /\ j \in Nat /\ k \in Nat /\ l \in Nat /\ e \in Nat \ {0} /\ h \in Nat \ {0}
        BY <2>5, <2>6, <3>2
      <4> HIDE DEF i, j, k, l, e, h
      <4>2. (i * e) * (l * h) < (k * e) * (j * h) <=> i * l < k * j
        BY ONLY <4>1, ScaledLess, Zenon
      <4>3. (k * e) * (j * h) < (i * e) * (l * h) <=> k * j < i * l
        BY ONLY <4>1, ScaledLess, Zenon
      <4> QED
        BY <4>2, <4>3 DEF i, j, k, l, e, h
    <3> HIDE DEF price, g, med, cur
    <3> QED
      BY ONLY <3>4, <3>5, <3>6, <3>7, <3>8, <3>9, <3>10
  <2>8. /\ {p \in S : F!PriceLess(F!Worth(p), cur)} = {p \in S : F!PriceLess(price(p), med)}
        /\ {p \in S : ~F!PriceLess(cur, F!Worth(p))} = {p \in S : ~F!PriceLess(med, price(p))}
    <3> HIDE DEF S, cur, med, price
    <3> QED
      BY <2>7
  <2>9. /\ Cardinality({p \in S : F!PriceLess(price(p), med)}) <= Cardinality(S) \div 2
        /\ Cardinality({p \in S : ~F!PriceLess(med, price(p))}) > Cardinality(S) \div 2
    BY <2>1 DEF Middle
  <2>10. /\ Cardinality({p \in S : F!PriceLess(F!Worth(p), cur)}) <= Cardinality(S) \div 2
         /\ Cardinality({p \in S : ~F!PriceLess(cur, F!Worth(p))}) > Cardinality(S) \div 2
    BY <2>8, <2>9
  <2> QED
    BY <1>2, <1>4, <2>2, <2>3, <2>4, <2>7, <2>10
<1> QED
  BY <1>3, <1>4

\* The invariant implies that the effective feed is that of the moment.
LEMMA FeedInvIs ==
  ASSUME F!SmartcoinAssumption, FeedInv
  PROVE  F!FeedOfTheMoment /\ F!TypeOK
<1>1. F!TypeOK
  <2>1. /\ fBlock \in 1..LastBlock /\ LastBlock \in Nat /\ fAsset \in Bitasset /\ fAsset.pub <= fBlock
        /\ Published(fAsset, fBlock) /\ FTypes
    BY CoinConstants DEF FeedInv, FFeeds, FInv, FTypes
  <2>2. fAsset.method \in Methods /\ fAsset.median.unit \in Units /\ fAsset.current.unit \in Units
        /\ fAsset.pub \in 0..fBlock
    BY <2>1 DEF Bitasset, Quote
  <2>3. \A p \in Producers : fAsset.feeds[p].time \in 0..fBlock
    <3>1. \A p \in Producers : fAsset.feeds[p].time \in Nat
      BY <2>1 DEF Bitasset, Feed
    <3> QED
      BY <2>1, <3>1 DEF Published
  <2>4. \A a \in Holders : /\ fCalls[a].debt \in Nat /\ fCalls[a].coll \in Nat
                          /\ fBal[a] \in Nat /\ fCore[a] \in Nat /\ fVoted[a] \in 0..fBlock
    BY <2>1 DEF FTypes, Position
  <2> QED
    BY <2>1, <2>2, <2>3, <2>4 DEF F!TypeOK, Units
<1>2. CASE IsGold
  <2>1. fAsset.current = F!Price("core", F!GoldPerCore(fBlock))
    BY <1>2, AnchorIs
  <2>2. F!PriceEq(fAsset.current, F!Price("core", F!GoldPerCore(fBlock)))
    BY <2>1 DEF F!PriceEq
  <2>3. F!FeedOfTheMoment
    BY <1>2, <2>2, Zenon DEF F!FeedOfTheMoment
  <2> QED
    BY <1>1, <2>3
<1>3. CASE ~IsGold
  <2> DEFINE S == F!Live(fAsset, fBlock)
             cur == fAsset.current
             below == {p \in S : ~F!PriceLess(cur, F!Worth(p))}
             above == {p \in S : ~F!PriceLess(F!Worth(p), cur)}
             less == {p \in S : F!PriceLess(F!Worth(p), cur)}
  <2>1. /\ IsFiniteSet(S) /\ Cardinality(S) \in Nat
        /\ cur = F!Null <=> Cardinality(S) < fAsset.min
        /\ cur # F!Null => /\ Cardinality(less) <= Cardinality(S) \div 2
                           /\ Cardinality(below) > Cardinality(S) \div 2
    BY <1>3, WorthMiddle
  <2>0. below \subseteq S /\ less \subseteq S
    OBVIOUS
  <2>3. above = S \ less /\ S \cap less = less
    OBVIOUS
  <2> HIDE DEF S, below, above, less
  <2>2. IsFiniteSet(below) /\ Cardinality(below) \in Nat
    BY <2>0, <2>1, FS_Subset, FS_CardinalityType
  <2>4. IsFiniteSet(less) /\ Cardinality(less) \in Nat
    BY <2>0, <2>1, FS_Subset, FS_CardinalityType
  <2>5. Cardinality(above) = Cardinality(S) - Cardinality(less)
    <3>1. Cardinality(S \ less) = Cardinality(S) - Cardinality(S \cap less)
      BY ONLY <2>1, FS_Difference, Zenon
    <3> QED
      BY ONLY <2>3, <3>1, Zenon
  <2>6. cur # F!Null => 2 * Cardinality(below) >= Cardinality(S) /\ 2 * Cardinality(above) >= Cardinality(S)
    BY <2>1, <2>2, <2>4, <2>5
  <2>7. F!FeedOfTheMoment
    <3>1. /\ F!Cardinality(S) = Cardinality(S) /\ F!Cardinality(below) = Cardinality(below)
          /\ F!Cardinality(above) = Cardinality(above)
      BY CoinSums
    <3>2. /\ cur = F!Null <=> F!Cardinality(S) < fAsset.min
          /\ cur # F!Null => /\ 2 * F!Cardinality(below) >= F!Cardinality(S)
                             /\ 2 * F!Cardinality(above) >= F!Cardinality(S)
      BY <2>1, <2>6, <3>1
    <3> QED
      BY <1>3, <3>2, Zenon DEF F!FeedOfTheMoment, S, below, above
  <2> QED
    BY <1>1, <2>7
<1> QED
  BY <1>2, <1>3

\* A position that is covered at one price is covered at every price that is not less.
LEMMA CoversMore ==
  ASSUME NEW c \in Position, c.coll > 0, NEW p \in Quote, NEW q \in Quote, q.unit = "core",
         F!Covers(c, 2, p), ~F!PriceLess(q, p)
  PROVE  F!Covers(c, 2, q)
<1> DEFINE x == c.coll
           y == c.debt
           n == p.n
           d == p.d
           e == q.n
           f == q.d
<1>1. x \in Nat \ {0} /\ y \in Nat /\ n \in Nat /\ d \in Nat \ {0} /\ e \in Nat /\ f \in Nat \ {0}
  BY DEF Position, Quote, F!Positive
<1>2. p.unit = "core" /\ x * n >= 2 * y * d
  BY DEF F!Covers
<1>3. ~(e * d < n * f)
  BY <1>2 DEF F!PriceLess
<1> HIDE DEF x, y, n, d, e, f
<1>4. n * f <= e * d
  <2>1. n * f \in Nat /\ e * d \in Nat
    BY <1>1, MulNat
  <2> DEFINE i == n * f
             j == e * d
  <2> HIDE DEF i, j
  <2>2. i \in Nat /\ j \in Nat /\ ~(j < i)
    BY <1>3, <2>1 DEF i, j
  <2>3. i <= j
    BY <2>2
  <2> QED
    BY <2>3 DEF i, j
<1>5. (2 * y) * d <= n * x
  <2>1. n * x = x * n /\ x * n \in Nat /\ (2 * y) * d \in Nat
    BY <1>1, SMT
  <2> QED
    BY <1>2, <2>1
<1>6. (2 * y) * f <= e * x
  <2>1. 2 * y \in Nat
    BY <1>1
  <2> QED
    BY <1>1, <1>4, <1>5, <2>1, RatioTransitive
<1>7. x * e >= 2 * y * f
  <2>1. e * x = x * e /\ x * e \in Nat /\ (2 * y) * f \in Nat
    BY <1>1, SMT
  <2> QED
    BY <1>6, <2>1
<1> QED
  BY <1>7 DEF F!Covers, x, y, e, f

\* Whoever is covered twice at the effective feed is covered twice at what half of the
\* feeds alive say.
LEMMA CoveredByHalf ==
  ASSUME F!SmartcoinAssumption, FeedInv, NEW c \in Position, c.coll > 0, F!Covers(c, 2, fAsset.current)
  PROVE  \/ /\ ~IsGold
            /\ LET S == F!Live(fAsset, fBlock) IN
               2 * F!Cardinality({p \in S : F!Covers(c, 2, F!Worth(p))}) >= F!Cardinality(S)
         \/ /\ IsGold
            /\ F!Covers(c, 2, F!Price("core", F!GoldPerCore(fBlock)))
<1>1. CASE IsGold
  BY <1>1, AnchorIs
<1>2. CASE ~IsGold
  <2> DEFINE S == F!Live(fAsset, fBlock)
             cur == fAsset.current
             above == {p \in S : ~F!PriceLess(F!Worth(p), cur)}
             cov == {p \in S : F!Covers(c, 2, F!Worth(p))}
             less == {p \in S : F!PriceLess(F!Worth(p), cur)}
  <2>1. cur.unit = "core" /\ cur # F!Null
    BY DEF F!Covers, F!Null
  <2>2. /\ IsFiniteSet(S) /\ Cardinality(S) \in Nat /\ cur \in Quote
        /\ \A p \in S : F!Worth(p) \in Quote /\ F!Worth(p).unit = "core"
        /\ Cardinality(less) <= Cardinality(S) \div 2
    BY <1>2, <2>1, WorthMiddle
  <2>3. above \subseteq cov
    <3>1. ASSUME NEW p \in S, ~F!PriceLess(F!Worth(p), cur) PROVE F!Covers(c, 2, F!Worth(p))
      BY <2>2, <3>1, CoversMore
    <3> QED
      BY <3>1
  <2>4. above = S \ less /\ S \cap less = less
    OBVIOUS
  <2>0. cov \subseteq S /\ less \subseteq S
    OBVIOUS
  <2> HIDE DEF S, above, less, cov
  <2>5. IsFiniteSet(less) /\ Cardinality(less) \in Nat
    BY <2>0, <2>2, FS_Subset, FS_CardinalityType
  <2>6. IsFiniteSet(cov) /\ Cardinality(cov) \in Nat
    BY <2>0, <2>2, FS_Subset, FS_CardinalityType
  <2>7. Cardinality(above) = Cardinality(S) - Cardinality(less)
    <3>1. Cardinality(S \ less) = Cardinality(S) - Cardinality(S \cap less)
      BY ONLY <2>2, FS_Difference, Zenon
    <3> QED
      BY ONLY <2>4, <3>1, Zenon
  <2>8. Cardinality(above) <= Cardinality(cov)
    BY <2>3, <2>6, FS_Subset
  <2>9. 2 * Cardinality(cov) >= Cardinality(S)
    BY <2>2, <2>5, <2>6, <2>7, <2>8
  <2>10. 2 * F!Cardinality(cov) >= F!Cardinality(S)
    BY <2>9, CoinSums
  <2> QED
    BY <1>2, <2>10 DEF S, cov
<1> QED
  BY <1>1, <1>2

\* No step makes a position riskier that is not covered twice afterwards.
LEMMA CoinRisk ==
  ASSUME F!SmartcoinAssumption, F!Undistorted, FeedInv, [F!Next]_F!vars
  PROVE  F!RiskyStep
<1>1. ASSUME fCalls' = fCalls PROVE F!RiskyStep
  <2>1. \A a \in Holders : fCalls[a].debt \in Nat /\ fCalls[a].coll \in Nat
    BY DEF FeedInv, FInv, FTypes, Position
  <2>2. \A a \in Holders : ~(fCalls'[a].debt > fCalls[a].debt) /\ ~(fCalls'[a].coll < fCalls[a].coll)
    BY <1>1, <2>1
  <2> QED
    BY <2>2, Zenon DEF F!RiskyStep
<1>2. ASSUME NEW a \in Holders, NEW dd \in DebtDeltas, NEW dc \in CollDeltas, F!UpdatePosition(a, dd, dc)
      PROVE  F!RiskyStep
  <2> DEFINE new == F!Changed(fCalls[a], dd, dc)
  <2>1. fCalls \in [Holders -> Position] /\ FInv
    BY DEF FeedInv, FInv, FTypes
  <2>2. F!Accepted(a, dd, dc) /\ fCalls' = [fCalls EXCEPT ![a] = new]
    BY <1>2, <2>1 DEF F!UpdatePosition
  <2>3. fCalls[a].debt \in Nat /\ fCalls[a].coll \in Nat /\ dd \in Int /\ dc \in Int
    BY <2>1, CoinConstants DEF Position
  <2>4. new.debt = fCalls[a].debt + dd /\ new.coll = fCalls[a].coll + dc
    BY DEF F!Changed
  <2>5. fCalls[a].debt + dd > 0 /\ fCalls[a].coll + dc > 0
    BY <2>2, Zenon DEF F!Accepted, F!Admissible
  <2>6. new \in Position /\ new.coll > 0
    BY <2>3, <2>5 DEF F!Changed, Position
  <2>7. fAsset.current \in Quote
    BY DEF FeedInv, FFeeds, Bitasset
  <2>8. ASSUME dd > 0 \/ dc < 0 PROVE F!Covers(new, 2, fAsset.current)
    BY <2>1, <2>2, <2>7, <2>8, UpdateCovers
  <2> HIDE DEF new
  <2>9. ASSUME NEW x \in Holders, fCalls'[x].debt > fCalls[x].debt \/ fCalls'[x].coll < fCalls[x].coll
        PROVE  x = a /\ fCalls'[x] = new /\ (dd > 0 \/ dc < 0)
    <3>1. fCalls[x].debt \in Nat /\ fCalls[x].coll \in Nat
      BY <2>1 DEF Position
    <3>2. fCalls'[x] = IF x = a THEN new ELSE fCalls[x]
      BY <2>1, <2>2
    <3>3. x = a
      BY <2>9, <3>1, <3>2
    <3> QED
      BY <2>3, <2>4, <2>9, <3>2, <3>3
  <2>10. ASSUME NEW x \in Holders, fCalls'[x].debt > fCalls[x].debt \/ fCalls'[x].coll < fCalls[x].coll
         PROVE  \/ /\ ~IsGold
                   /\ LET S == F!Live(fAsset, fBlock) IN
                      2 * F!Cardinality({p \in S : F!Covers(fCalls'[x], 2, F!Worth(p))}) >= F!Cardinality(S)
                \/ /\ IsGold
                   /\ F!Covers(fCalls'[x], 2, F!Price("core", F!GoldPerCore(fBlock)))
    <3>1. fCalls'[x] = new /\ F!Covers(new, 2, fAsset.current)
      BY <2>8, <2>9, <2>10
    <3>2. \/ /\ ~IsGold
             /\ LET S == F!Live(fAsset, fBlock) IN
                2 * F!Cardinality({p \in S : F!Covers(new, 2, F!Worth(p))}) >= F!Cardinality(S)
          \/ /\ IsGold
             /\ F!Covers(new, 2, F!Price("core", F!GoldPerCore(fBlock)))
      BY <2>6, <3>1, CoveredByHalf
    <3> QED
      BY <3>1, <3>2
  <2> QED
    BY <2>10, Zenon DEF F!RiskyStep
<1>3. ASSUME NEW a \in Holders, F!ClosePosition(a) PROVE F!RiskyStep
  <2>1. fCalls \in [Holders -> Position]
    BY DEF FeedInv, FInv, FTypes
  <2>2. fCalls' = [fCalls EXCEPT ![a] = [debt |-> 0, coll |-> 0]]
    BY <1>3 DEF F!ClosePosition
  <2>3. ASSUME NEW x \in Holders, fCalls'[x].debt > fCalls[x].debt \/ fCalls'[x].coll < fCalls[x].coll
        PROVE  fCalls'[x].debt = 0
    <3>1. fCalls[x].debt \in Nat /\ fCalls[x].coll \in Nat
      BY <2>1 DEF Position
    <3>2. fCalls'[x] = IF x = a THEN [debt |-> 0, coll |-> 0] ELSE fCalls[x]
      BY <2>1, <2>2
    <3> QED
      BY <2>3, <3>1, <3>2
  <2> QED
    BY <2>3, Zenon DEF F!RiskyStep
<1>4. CASE UNCHANGED F!vars
  BY <1>1, <1>4 DEF F!vars
<1>5. CASE F!Next
  <2>1. CASE \E a \in Holders, dd \in DebtDeltas, dc \in CollDeltas : F!UpdatePosition(a, dd, dc)
    BY <1>2, <2>1
  <2>2. CASE \E a \in Holders : F!ClosePosition(a)
    BY <1>3, <2>2
  <2>3. CASE \E a, b \in Holders : \E x \in 1..CoinSupply : F!Transfer(a, b, x)
    BY <1>1, <2>3 DEF F!Transfer
  <2>4. CASE \E a \in Holders : F!CastVote(a)
    BY <1>1, <2>4 DEF F!CastVote
  <2>5. CASE \E p \in Producers, x \in FeedPrices : F!asset_publish_feed(p, x)
    BY <1>1, <2>5 DEF F!asset_publish_feed
  <2>6. CASE \E m \in Methods, life \in Lifetimes, min \in MinFeeds : F!asset_update_bitasset(m, life, min)
    BY <1>1, <2>6 DEF F!asset_update_bitasset
  <2>7. CASE \E S \in SUBSET Producers : F!asset_update_feed_producers(S)
    BY <1>1, <2>7 DEF F!asset_update_feed_producers
  <2>8. CASE F!Block
    BY <1>1, <2>8 DEF F!Block
  <2> QED
    BY <1>5, <2>1, <2>2, <2>3, <2>4, <2>5, <2>6, <2>7, <2>8 DEF F!Next
<1> QED
  BY <1>4, <1>5

\* The effective feed fits throughout.
LEMMA FeedInvariant ==
  ASSUME F!SmartcoinAssumption, F!Undistorted
  PROVE  F!Spec => []FeedInv
<1>1. F!Init => FeedInv
  BY FeedInit
<1>2. FeedInv /\ [F!Next]_F!vars => FeedInv'
  BY FeedStep
<1> QED
  BY <1>1, <1>2, PTL DEF F!Spec

\* For any producers, lifetimes, minimums and prices: the effective feed is null exactly
\* when too few feeds are alive, and otherwise in the middle of the feeds alive now at
\* the anchor price of now; GOLD's is the anchor price (update_bitasset_current_feed,
\* update_expired_feeds, refresh_scheduled_feeds).
THEOREM FeedIsOfTheMoment ==
  ASSUME F!SmartcoinAssumption, F!Undistorted
  PROVE  F!Spec => [](F!TypeOK /\ F!FeedOfTheMoment)
<1>1. FeedInv => F!TypeOK /\ F!FeedOfTheMoment
  BY FeedInvIs
<1> QED
  BY <1>1, FeedInvariant, PTL

\* Nobody borrows or takes collateral out unless the position is closed or covered twice
\* at what half of the feeds alive now say (call_order_update_evaluator).
THEOREM DebtIsSound ==
  ASSUME F!SmartcoinAssumption, F!Undistorted
  PROVE  F!Spec => F!DebtSound
<1>1. FeedInv /\ [F!Next]_F!vars => [F!RiskyStep]_F!vars
  BY CoinRisk
<1> QED
  BY <1>1, FeedInvariant, CoinIsBacked, PTL DEF F!Spec, F!DebtSound, F!RiskOnlyAboveICR
=============================================================================
