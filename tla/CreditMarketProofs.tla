------------------------- MODULE CreditMarketProofs -------------------------
(***************************************************************************)
(* Proofs about CreditOffer, for any number of offers, deals and borrowers *)
(* and any amounts, rates and collateral terms, LiquidityPool, for any     *)
(* accounts, amounts and fees, and PredictionMarket, for any accounts,     *)
(* positions and outcomes.                                                 *)
(***************************************************************************)
EXTENDS CreditOffer, DataLemmas

-----------------------------------------------------------------------------
(* The inductive invariant.                                                *)

Positive == Nat \ {0}
Offer == [total : Nat, current : Nat, rate : Nat, enabled : BOOLEAN, disableAt : Int]
Deal == [borrower : Borrowers, offer : Nat, debt : Positive, coll : Positive, rate : Nat,
         time : Nat, auto : RepayTypes, first : [debt : Positive, coll : Positive]]
Summaries == UNION {[D -> Positive] : D \in SUBSET (Nat \X Borrowers)}
Counts == [offers : Nat, deals : Nat]

\* What Here, AutoRepaid and Expire are.
States == [debtBal : [Accounts -> Nat], collBal : [Accounts -> Nat], offers : Maps(Offer),
           deals : Maps(Deal), summary : Summaries]

\* The collateral per debt has not become less since the deal began.
Kept(d) == d.coll * d.first.debt >= d.first.coll * d.debt

\* The debt that a summary records: Borrowed, in any state.
Owing(sm, k) == IF k \in DOMAIN sm THEN sm[k] ELSE 0

\* Offers, deals and summaries agree, deals are covered, and both assets add up.
Sound(s, c) ==
  /\ DOMAIN s.offers \subseteq 1..c.offers /\ DOMAIN s.deals \subseteq 1..c.deals
  /\ \A i \in DOMAIN s.deals : s.deals[i].offer \in DOMAIN s.offers /\ Kept(s.deals[i])
  /\ \A o \in DOMAIN s.offers :
       s.offers[o].total = s.offers[o].current + SumOver(DebtOf(s.deals), DealsOf(s.deals, o))
  /\ \A o \in Nat, b \in Borrowers :
       Owing(s.summary, <<o, b>>) = SumOver(DebtOf(s.deals), DealsWith(s.deals, o, b))
  /\ SumOver(s.debtBal, Accounts) + SumOver(CurrentOf(s.offers), DOMAIN s.offers)
     = Funds + Pocket * Cardinality(Borrowers)
  /\ SumOver(s.collBal, Accounts) + SumOver(CollOf(s.deals), DOMAIN s.deals)
     = Collateral * Cardinality(Borrowers)

IInv ==
  /\ created \in Counts /\ now \in Nat /\ expiring \in BOOLEAN
  /\ Here \in States
  /\ Sound(Here, created)
  /\ ~expiring => \A i \in DOMAIN deals : deals[i].time > now

-----------------------------------------------------------------------------
(* Tables that differ in one object.                                       *)

\* Two tables agree but for z.
Differ(m, w, z) == DOMAIN m \ {z} = DOMAIN w \ {z} /\ \A x \in DOMAIN m \ {z} : m[x] = w[x]

\* If there is a deal z, it is one of offer q with borrower p.
At(ds, z, q, p) == z \in DOMAIN ds => ds[z].offer = q /\ ds[z].borrower = p

Debt(ds, z) == IF z \in DOMAIN ds THEN ds[z].debt ELSE 0
Coll(ds, z) == IF z \in DOMAIN ds THEN ds[z].coll ELSE 0
Current(os, z) == IF z \in DOMAIN os THEN os[z].current ELSE 0

\* The set of accounts and every table of objects created so far is finite.
LEMMA FiniteTables ==
  /\ CreditAssumption => IsFiniteSet(Accounts)
  /\ \A n \in Nat : \A m : m \subseteq 1..n => IsFiniteSet(m)
<1>1. ASSUME CreditAssumption PROVE IsFiniteSet(Accounts)
  BY <1>1, FS_AddElement DEF CreditAssumption, Accounts
<1>2. ASSUME NEW n \in Nat, NEW m, m \subseteq 1..n PROVE IsFiniteSet(m)
  <2>1. IsFiniteSet(1..n)
    BY FS_Interval
  <2> QED
    BY <1>2, <2>1, FS_Subset
<1> QED
  BY <1>1, <1>2

\* The members of a table of deals.
LEMMA DealType ==
  ASSUME NEW ds \in Maps(Deal), NEW i \in DOMAIN ds
  PROVE  /\ ds[i] \in Deal /\ i \in Nat
         /\ ds[i].borrower \in Borrowers /\ ds[i].offer \in Nat /\ ds[i].rate \in Nat
         /\ ds[i].debt \in Positive /\ ds[i].coll \in Positive /\ ds[i].time \in Nat
         /\ ds[i].first.debt \in Positive /\ ds[i].first.coll \in Positive
         /\ DebtOf(ds)[i] = ds[i].debt /\ CollOf(ds)[i] = ds[i].coll
<1>1. ds[i] \in Deal /\ i \in Nat
  BY MapType
<1>2. DebtOf(ds)[i] = ds[i].debt /\ CollOf(ds)[i] = ds[i].coll
  BY DEF DebtOf, CollOf
<1> QED
  BY <1>1, <1>2 DEF Deal

\* What is owed changes by the debt of the one deal that differs.
LEMMA DealsDiffer ==
  ASSUME NEW ds \in Maps(Deal), NEW es \in Maps(Deal), IsFiniteSet(DOMAIN ds), IsFiniteSet(DOMAIN es),
         NEW z, NEW q, NEW p, Differ(ds, es, z), At(ds, z, q, p), At(es, z, q, p)
  PROVE  /\ Debt(ds, z) \in Int /\ Debt(es, z) \in Int /\ Coll(ds, z) \in Int /\ Coll(es, z) \in Int
         /\ \A o : /\ SumOver(DebtOf(ds), DealsOf(ds, o)) \in Int
                   /\ SumOver(DebtOf(es), DealsOf(es, o))
                      = SumOver(DebtOf(ds), DealsOf(ds, o)) + (IF o = q THEN Debt(es, z) - Debt(ds, z) ELSE 0)
         /\ \A o, b : /\ SumOver(DebtOf(ds), DealsWith(ds, o, b)) \in Int
                      /\ SumOver(DebtOf(es), DealsWith(es, o, b))
                         = SumOver(DebtOf(ds), DealsWith(ds, o, b))
                           + (IF o = q /\ b = p THEN Debt(es, z) - Debt(ds, z) ELSE 0)
         /\ SumOver(CollOf(ds), DOMAIN ds) \in Int
         /\ SumOver(CollOf(es), DOMAIN es) = SumOver(CollOf(ds), DOMAIN ds) + Coll(es, z) - Coll(ds, z)
<1> DEFINE D == DOMAIN ds
           E == DOMAIN es
<1>1. \A x \in D : DebtOf(ds)[x] = ds[x].debt /\ ds[x].debt \in Int /\ CollOf(ds)[x] = ds[x].coll /\ ds[x].coll \in Int
  BY DealType DEF Positive
<1>2. \A x \in E : DebtOf(es)[x] = es[x].debt /\ es[x].debt \in Int /\ CollOf(es)[x] = es[x].coll /\ es[x].coll \in Int
  BY DealType DEF Positive
<1>3. D \ {z} = E \ {z} /\ \A x \in D \ {z} : ds[x] = es[x]
  BY DEF Differ
<1>4. \A x \in D \ {z} : DebtOf(ds)[x] = DebtOf(es)[x] /\ CollOf(ds)[x] = CollOf(es)[x]
  BY <1>1, <1>2, <1>3
<1>5. Debt(ds, z) \in Int /\ Debt(es, z) \in Int /\ Coll(ds, z) \in Int /\ Coll(es, z) \in Int
  BY <1>1, <1>2 DEF Debt, Coll
<1>6. ASSUME NEW S \in SUBSET D, NEW T \in SUBSET E, S \ {z} = T \ {z}
      PROVE  /\ SumOver(DebtOf(ds), S) \in Int
             /\ SumOver(DebtOf(es), T) = SumOver(DebtOf(ds), S)
                  + (IF z \in T THEN Debt(es, z) ELSE 0) - (IF z \in S THEN Debt(ds, z) ELSE 0)
  <2>1. IsFiniteSet(S) /\ IsFiniteSet(T)
    BY FS_Subset
  <2>2. (\A x \in S : DebtOf(ds)[x] \in Int) /\ (\A x \in T : DebtOf(es)[x] \in Int)
    BY <1>1, <1>2
  <2>3. \A x \in S \ {z} : DebtOf(ds)[x] = DebtOf(es)[x]
    BY <1>4
  <2>4. /\ SumOver(DebtOf(ds), S) \in Int
        /\ SumOver(DebtOf(es), T) = SumOver(DebtOf(ds), S)
             + (IF z \in T THEN DebtOf(es)[z] ELSE 0) - (IF z \in S THEN DebtOf(ds)[z] ELSE 0)
    BY <1>6, <2>1, <2>2, <2>3, SumDiffer
  <2>5. (z \in T => DebtOf(es)[z] = Debt(es, z)) /\ (z \in S => DebtOf(ds)[z] = Debt(ds, z))
    BY <1>1, <1>2 DEF Debt
  <2> QED
    BY <2>4, <2>5
<1>7. ASSUME NEW o
      PROVE  /\ SumOver(DebtOf(ds), DealsOf(ds, o)) \in Int
             /\ SumOver(DebtOf(es), DealsOf(es, o))
                = SumOver(DebtOf(ds), DealsOf(ds, o)) + (IF o = q THEN Debt(es, z) - Debt(ds, z) ELSE 0)
  <2> DEFINE S == DealsOf(ds, o)
             T == DealsOf(es, o)
  <2>1. S \in SUBSET D /\ T \in SUBSET E /\ S \ {z} = T \ {z}
    BY <1>3 DEF DealsOf
  <2>2. (z \in S <=> z \in D /\ o = q) /\ (z \in T <=> z \in E /\ o = q)
    BY DEF DealsOf, At
  <2>3. (z \notin D => Debt(ds, z) = 0) /\ (z \notin E => Debt(es, z) = 0)
    BY DEF Debt
  <2> HIDE DEF S, T
  <2>4. /\ SumOver(DebtOf(ds), S) \in Int
        /\ SumOver(DebtOf(es), T) = SumOver(DebtOf(ds), S)
             + (IF z \in T THEN Debt(es, z) ELSE 0) - (IF z \in S THEN Debt(ds, z) ELSE 0)
    BY <1>6, <2>1
  <2>5. SumOver(DebtOf(es), T) = SumOver(DebtOf(ds), S) + (IF o = q THEN Debt(es, z) - Debt(ds, z) ELSE 0)
    BY <1>5, <2>2, <2>3, <2>4
  <2> QED
    BY <2>4, <2>5 DEF S, T
<1>8. ASSUME NEW o, NEW b
      PROVE  /\ SumOver(DebtOf(ds), DealsWith(ds, o, b)) \in Int
             /\ SumOver(DebtOf(es), DealsWith(es, o, b))
                = SumOver(DebtOf(ds), DealsWith(ds, o, b))
                  + (IF o = q /\ b = p THEN Debt(es, z) - Debt(ds, z) ELSE 0)
  <2> DEFINE S == DealsWith(ds, o, b)
             T == DealsWith(es, o, b)
  <2>1. S \in SUBSET D /\ T \in SUBSET E /\ S \ {z} = T \ {z}
    BY <1>3 DEF DealsOf, DealsWith
  <2>2. (z \in S <=> z \in D /\ o = q /\ b = p) /\ (z \in T <=> z \in E /\ o = q /\ b = p)
    BY DEF DealsOf, DealsWith, At
  <2>3. (z \notin D => Debt(ds, z) = 0) /\ (z \notin E => Debt(es, z) = 0)
    BY DEF Debt
  <2> HIDE DEF S, T
  <2>4. /\ SumOver(DebtOf(ds), S) \in Int
        /\ SumOver(DebtOf(es), T) = SumOver(DebtOf(ds), S)
             + (IF z \in T THEN Debt(es, z) ELSE 0) - (IF z \in S THEN Debt(ds, z) ELSE 0)
    BY <1>6, <2>1
  <2>5. SumOver(DebtOf(es), T)
        = SumOver(DebtOf(ds), S) + (IF o = q /\ b = p THEN Debt(es, z) - Debt(ds, z) ELSE 0)
    BY <1>5, <2>2, <2>3, <2>4
  <2> QED
    BY <2>4, <2>5 DEF S, T
<1>9. /\ SumOver(CollOf(ds), D) \in Int
      /\ SumOver(CollOf(es), E) = SumOver(CollOf(ds), D) + Coll(es, z) - Coll(ds, z)
  <2>1. (\A x \in D : CollOf(ds)[x] \in Int) /\ (\A x \in E : CollOf(es)[x] \in Int)
    BY <1>1, <1>2
  <2>2. /\ SumOver(CollOf(ds), D) \in Int
        /\ SumOver(CollOf(es), E) = SumOver(CollOf(ds), D)
             + (IF z \in E THEN CollOf(es)[z] ELSE 0) - (IF z \in D THEN CollOf(ds)[z] ELSE 0)
    BY <1>3, <1>4, <2>1, SumDiffer
  <2>3. /\ (IF z \in E THEN CollOf(es)[z] ELSE 0) = Coll(es, z)
        /\ (IF z \in D THEN CollOf(ds)[z] ELSE 0) = Coll(ds, z)
    BY <1>1, <1>2 DEF Coll
  <2> QED
    BY <2>2, <2>3
<1> QED
  BY <1>5, <1>7, <1>8, <1>9

\* What can be lent changes by that of the one offer that differs.
LEMMA OffersDiffer ==
  ASSUME NEW os \in Maps(Offer), NEW ps \in Maps(Offer), IsFiniteSet(DOMAIN os), IsFiniteSet(DOMAIN ps),
         NEW q, Differ(os, ps, q)
  PROVE  /\ Current(os, q) \in Int /\ Current(ps, q) \in Int
         /\ SumOver(CurrentOf(os), DOMAIN os) \in Int
         /\ SumOver(CurrentOf(ps), DOMAIN ps)
            = SumOver(CurrentOf(os), DOMAIN os) + Current(ps, q) - Current(os, q)
<1> DEFINE D == DOMAIN os
           E == DOMAIN ps
<1>1. /\ \A x \in D : CurrentOf(os)[x] = os[x].current /\ os[x].current \in Int
      /\ \A x \in E : CurrentOf(ps)[x] = ps[x].current /\ ps[x].current \in Int
  <2>1. (\A x \in D : os[x] \in Offer) /\ (\A x \in E : ps[x] \in Offer)
    BY MapType
  <2> QED
    BY <2>1 DEF CurrentOf, Offer
<1>2. D \ {q} = E \ {q} /\ \A x \in D \ {q} : CurrentOf(os)[x] = CurrentOf(ps)[x]
  BY <1>1 DEF Differ
<1>3. (\A x \in D : CurrentOf(os)[x] \in Int) /\ (\A x \in E : CurrentOf(ps)[x] \in Int)
  BY <1>1
<1>4. /\ SumOver(CurrentOf(os), D) \in Int
      /\ SumOver(CurrentOf(ps), E) = SumOver(CurrentOf(os), D)
           + (IF q \in E THEN CurrentOf(ps)[q] ELSE 0) - (IF q \in D THEN CurrentOf(os)[q] ELSE 0)
  BY <1>2, <1>3, SumDiffer
<1>5. /\ (IF q \in E THEN CurrentOf(ps)[q] ELSE 0) = Current(ps, q)
      /\ (IF q \in D THEN CurrentOf(os)[q] ELSE 0) = Current(os, q)
      /\ Current(os, q) \in Int /\ Current(ps, q) \in Int
  BY <1>1 DEF Current
<1> QED
  BY <1>4, <1>5

\* A balance changes.
LEMMA BalanceDiffers ==
  ASSUME CreditAssumption, NEW b \in [Accounts -> Nat], NEW c \in [Accounts -> Nat],
         NEW a \in Accounts, \A x \in Accounts \ {a} : b[x] = c[x]
  PROVE  /\ SumOver(b, Accounts) \in Int
         /\ SumOver(c, Accounts) = SumOver(b, Accounts) + c[a] - b[a]
<1>1. IsFiniteSet(Accounts)
  BY FiniteTables
<1>2. \A x \in Accounts : b[x] \in Int /\ c[x] \in Int
  OBVIOUS
<1>3. SumOver(b, Accounts) \in Int
  BY <1>1, <1>2, SumType
<1> QED
  BY <1>1, <1>2, <1>3, SumChange

-----------------------------------------------------------------------------
(* Steps between sound states.                                             *)

\* The parts of a state.
LEMMA StateType ==
  ASSUME NEW s \in States
  PROVE  /\ s.debtBal \in [Accounts -> Nat] /\ s.collBal \in [Accounts -> Nat]
         /\ s.offers \in Maps(Offer) /\ s.deals \in Maps(Deal) /\ s.summary \in Summaries
BY DEF States

\* A step of one deal z between offer q and borrower p.  What of the deal is gone,
\* offer, balances and summary have gained, each in its own way.
DealStep(s, e, z, q, p, a, g) ==
  /\ Differ(s.deals, e.deals, z) /\ At(s.deals, z, q, p) /\ At(e.deals, z, q, p)
  /\ z \in DOMAIN e.deals => Kept(e.deals[z])
  /\ q \in DOMAIN s.offers /\ DOMAIN e.offers = DOMAIN s.offers
  /\ \A o \in DOMAIN s.offers \ {q} : s.offers[o] = e.offers[o]
  /\ e.offers[q].total - e.offers[q].current
     = s.offers[q].total - s.offers[q].current + Debt(e.deals, z) - Debt(s.deals, z)
  /\ \A x \in Accounts \ {a} : s.debtBal[x] = e.debtBal[x]
  /\ e.debtBal[a] - s.debtBal[a] = s.offers[q].current - e.offers[q].current
  /\ \A x \in Accounts \ {g} : s.collBal[x] = e.collBal[x]
  /\ e.collBal[g] - s.collBal[g] = Coll(s.deals, z) - Coll(e.deals, z)
  /\ \A o \in Nat, b \in Borrowers :
       Owing(e.summary, <<o, b>>) = Owing(s.summary, <<o, b>>)
         + (IF o = q /\ b = p THEN Debt(e.deals, z) - Debt(s.deals, z) ELSE 0)

\* Such a step leads from a sound state to a sound state.
LEMMA SoundStep ==
  ASSUME CreditAssumption, NEW s \in States, NEW e \in States, NEW c \in Counts, NEW cc \in Counts,
         Sound(s, c), DOMAIN e.offers \subseteq 1..cc.offers, DOMAIN e.deals \subseteq 1..cc.deals,
         NEW z, NEW q, NEW p, NEW a \in Accounts, NEW g \in Accounts, DealStep(s, e, z, q, p, a, g)
  PROVE  Sound(e, cc)
<1>0. /\ Differ(s.deals, e.deals, z) /\ At(s.deals, z, q, p) /\ At(e.deals, z, q, p)
      /\ z \in DOMAIN e.deals => Kept(e.deals[z])
      /\ q \in DOMAIN s.offers /\ DOMAIN e.offers = DOMAIN s.offers
      /\ \A o \in DOMAIN s.offers \ {q} : s.offers[o] = e.offers[o]
      /\ e.offers[q].total - e.offers[q].current
         = s.offers[q].total - s.offers[q].current + Debt(e.deals, z) - Debt(s.deals, z)
      /\ \A x \in Accounts \ {a} : s.debtBal[x] = e.debtBal[x]
      /\ e.debtBal[a] - s.debtBal[a] = s.offers[q].current - e.offers[q].current
      /\ \A x \in Accounts \ {g} : s.collBal[x] = e.collBal[x]
      /\ e.collBal[g] - s.collBal[g] = Coll(s.deals, z) - Coll(e.deals, z)
  BY DEF DealStep
<1>1. /\ s.debtBal \in [Accounts -> Nat] /\ s.collBal \in [Accounts -> Nat]
      /\ s.offers \in Maps(Offer) /\ s.deals \in Maps(Deal) /\ s.summary \in Summaries
  BY StateType
<1>2. /\ e.debtBal \in [Accounts -> Nat] /\ e.collBal \in [Accounts -> Nat]
      /\ e.offers \in Maps(Offer) /\ e.deals \in Maps(Deal) /\ e.summary \in Summaries
  BY StateType
<1>3. /\ IsFiniteSet(DOMAIN s.deals) /\ IsFiniteSet(DOMAIN e.deals)
      /\ IsFiniteSet(DOMAIN s.offers) /\ IsFiniteSet(DOMAIN e.offers)
  <2>1. c.offers \in Nat /\ c.deals \in Nat /\ cc.offers \in Nat /\ cc.deals \in Nat
    BY DEF Counts
  <2>2. DOMAIN s.offers \subseteq 1..c.offers /\ DOMAIN s.deals \subseteq 1..c.deals
    BY DEF Sound
  <2> QED
    BY <2>1, <2>2, FiniteTables
<1>4. /\ Debt(s.deals, z) \in Int /\ Debt(e.deals, z) \in Int
      /\ Coll(s.deals, z) \in Int /\ Coll(e.deals, z) \in Int
      /\ \A o : /\ SumOver(DebtOf(s.deals), DealsOf(s.deals, o)) \in Int
                /\ SumOver(DebtOf(e.deals), DealsOf(e.deals, o))
                   = SumOver(DebtOf(s.deals), DealsOf(s.deals, o))
                     + (IF o = q THEN Debt(e.deals, z) - Debt(s.deals, z) ELSE 0)
      /\ \A o, b : /\ SumOver(DebtOf(s.deals), DealsWith(s.deals, o, b)) \in Int
                   /\ SumOver(DebtOf(e.deals), DealsWith(e.deals, o, b))
                      = SumOver(DebtOf(s.deals), DealsWith(s.deals, o, b))
                        + (IF o = q /\ b = p THEN Debt(e.deals, z) - Debt(s.deals, z) ELSE 0)
      /\ SumOver(CollOf(s.deals), DOMAIN s.deals) \in Int
      /\ SumOver(CollOf(e.deals), DOMAIN e.deals)
         = SumOver(CollOf(s.deals), DOMAIN s.deals) + Coll(e.deals, z) - Coll(s.deals, z)
  BY <1>0, <1>1, <1>2, <1>3, DealsDiffer
<1>5. /\ SumOver(CurrentOf(s.offers), DOMAIN s.offers) \in Int
      /\ SumOver(CurrentOf(e.offers), DOMAIN e.offers)
         = SumOver(CurrentOf(s.offers), DOMAIN s.offers) + e.offers[q].current - s.offers[q].current
      /\ e.offers[q].current \in Int /\ s.offers[q].current \in Int
  <2>1. Differ(s.offers, e.offers, q)
    BY <1>0 DEF Differ
  <2>2. Current(s.offers, q) = s.offers[q].current /\ Current(e.offers, q) = e.offers[q].current
    BY <1>0 DEF Current
  <2>3. /\ Current(s.offers, q) \in Int /\ Current(e.offers, q) \in Int
        /\ SumOver(CurrentOf(s.offers), DOMAIN s.offers) \in Int
        /\ SumOver(CurrentOf(e.offers), DOMAIN e.offers)
           = SumOver(CurrentOf(s.offers), DOMAIN s.offers) + Current(e.offers, q) - Current(s.offers, q)
    BY <1>1, <1>2, <1>3, <2>1, OffersDiffer
  <2> QED
    BY <2>2, <2>3
<1>6. /\ SumOver(s.debtBal, Accounts) \in Int
      /\ SumOver(e.debtBal, Accounts) = SumOver(s.debtBal, Accounts) + e.debtBal[a] - s.debtBal[a]
      /\ e.debtBal[a] \in Int /\ s.debtBal[a] \in Int
  <2>1. \A x \in Accounts \ {a} : s.debtBal[x] = e.debtBal[x]
    BY <1>0
  <2>2. e.debtBal[a] \in Int /\ s.debtBal[a] \in Int
    BY <1>1, <1>2
  <2> QED
    BY <1>1, <1>2, <2>1, <2>2, BalanceDiffers
<1>7. /\ SumOver(s.collBal, Accounts) \in Int
      /\ SumOver(e.collBal, Accounts) = SumOver(s.collBal, Accounts) + e.collBal[g] - s.collBal[g]
      /\ e.collBal[g] \in Int /\ s.collBal[g] \in Int
  <2>1. \A x \in Accounts \ {g} : s.collBal[x] = e.collBal[x]
    BY <1>0
  <2>2. e.collBal[g] \in Int /\ s.collBal[g] \in Int
    BY <1>1, <1>2
  <2> QED
    BY <1>1, <1>2, <2>1, <2>2, BalanceDiffers
<1>8. ASSUME NEW i \in DOMAIN e.deals PROVE e.deals[i].offer \in DOMAIN e.offers /\ Kept(e.deals[i])
  <2>1. CASE i = z
    BY <1>0, <2>1 DEF At
  <2>2. CASE i # z
    BY <1>0, <2>2 DEF Differ, Sound
  <2> QED
    BY <2>1, <2>2
<1>9. ASSUME NEW o \in DOMAIN e.offers
      PROVE  e.offers[o].total = e.offers[o].current + SumOver(DebtOf(e.deals), DealsOf(e.deals, o))
  <2>1. /\ s.offers[o].total = s.offers[o].current + SumOver(DebtOf(s.deals), DealsOf(s.deals, o))
        /\ s.offers[o].total \in Int /\ s.offers[o].current \in Int
        /\ e.offers[o].total \in Int /\ e.offers[o].current \in Int
    <3>1. s.offers[o] \in Offer /\ e.offers[o] \in Offer
      BY <1>0, <1>1, <1>2, MapType
    <3> QED
      BY <1>0, <3>1 DEF Sound, Offer
  <2> DEFINE u == SumOver(DebtOf(s.deals), DealsOf(s.deals, o))
             v == SumOver(DebtOf(e.deals), DealsOf(e.deals, o))
  <2>2. u \in Int /\ v = u + (IF o = q THEN Debt(e.deals, z) - Debt(s.deals, z) ELSE 0)
    BY <1>4
  <2>3. s.offers[o].total = s.offers[o].current + u
    BY <2>1
  <2> HIDE DEF u, v
  <2>4. e.offers[o].total = e.offers[o].current + v
    <3>1. CASE o = q
      BY <1>0, <1>4, <2>1, <2>2, <2>3, <3>1
    <3>2. CASE o # q
      BY <1>0, <2>1, <2>2, <2>3, <3>2
    <3> QED
      BY <3>1, <3>2
  <2> QED
    BY <2>4 DEF v
<1>10. ASSUME NEW o \in Nat, NEW b \in Borrowers
       PROVE  Owing(e.summary, <<o, b>>) = SumOver(DebtOf(e.deals), DealsWith(e.deals, o, b))
  <2>1. Owing(s.summary, <<o, b>>) = SumOver(DebtOf(s.deals), DealsWith(s.deals, o, b))
    BY DEF Sound
  <2>2. Owing(e.summary, <<o, b>>) = Owing(s.summary, <<o, b>>)
             + (IF o = q /\ b = p THEN Debt(e.deals, z) - Debt(s.deals, z) ELSE 0)
    BY DEF DealStep
  <2> QED
    BY <1>4, <2>1, <2>2
<1>11. SumOver(e.debtBal, Accounts) + SumOver(CurrentOf(e.offers), DOMAIN e.offers)
       = SumOver(s.debtBal, Accounts) + SumOver(CurrentOf(s.offers), DOMAIN s.offers)
  BY <1>0, <1>5, <1>6
<1>12. SumOver(e.collBal, Accounts) + SumOver(CollOf(e.deals), DOMAIN e.deals)
       = SumOver(s.collBal, Accounts) + SumOver(CollOf(s.deals), DOMAIN s.deals)
  BY <1>0, <1>4, <1>7
<1> QED
  BY <1>8, <1>9, <1>10, <1>11, <1>12 DEF Sound

-----------------------------------------------------------------------------
(* Repayment and expiration.                                               *)

\* Cancelling the same share of debt and, rounded down, of collateral keeps the
\* collateral per debt.
LEMMA ShareKept ==
  ASSUME NEW coll \in Positive, NEW debt \in Positive, NEW fc \in Positive, NEW fd \in Positive,
         NEW n \in Nat, n < debt, NEW rel \in Nat, debt * rel <= n * coll,
         coll * fd >= fc * debt
  PROVE  rel < coll /\ (coll - rel) * fd >= fc * (debt - n)
<1>1. coll \in Nat \ {0} /\ debt \in Nat \ {0} /\ fc \in Nat \ {0} /\ fd \in Nat \ {0}
  BY DEF Positive
<1>2. rel < coll
  <2>1. SUFFICES ASSUME coll <= rel PROVE FALSE
    BY <1>1
  <2>2. coll * debt <= n * coll
    <3>1. coll * debt <= rel * debt
      BY <1>1, <2>1, MulMono
    <3>2. rel * debt = debt * rel
      BY <1>1
    <3> QED
      BY <1>1, <3>1, <3>2, MulNat
  <2>3. debt * coll <= n * coll
    BY <1>1, <2>2
  <2>4. debt <= n
    BY <1>1, <2>3, MulCancel
  <2> QED
    BY <1>1, <2>4
<1> DEFINE x == coll - rel
           y == debt - n
<1>3. x \in Nat /\ y \in Nat
  BY <1>1, <1>2
<1>4. coll * y <= x * debt
  <2>1. coll * y = coll * debt - n * coll
    BY <1>1
  <2>2. x * debt = coll * debt - debt * rel
    BY <1>1
  <2>3. coll * debt \in Nat /\ n * coll \in Nat /\ debt * rel \in Nat
    BY <1>1, MulNat
  <2> HIDE DEF x, y
  <2> QED
    BY <2>1, <2>2, <2>3
<1> HIDE DEF x, y
<1>5. (coll * y) * fd <= (x * debt) * fd
  BY <1>1, <1>3, <1>4, MulNat, MulMono
<1>6. (fc * debt) * y <= (coll * fd) * y
  BY <1>1, <1>3, MulNat, MulMono
<1>7. /\ (coll * y) * fd = (coll * fd) * y /\ (x * debt) * fd = (x * fd) * debt
      /\ (fc * debt) * y = (fc * y) * debt
  BY <1>1, <1>3, MulSwap
<1>8. fc * y \in Nat /\ x * fd \in Nat
  BY <1>1, <1>3, MulNat
<1>9. (fc * y) * debt <= (x * fd) * debt
  <2> DEFINE u == (fc * y) * debt
             v == (coll * fd) * y
             w == (x * fd) * debt
  <2>1. u \in Nat /\ w \in Nat /\ v \in Nat
    BY <1>1, <1>3, <1>8, MulNat
  <2>2. u <= v /\ v <= w
    BY <1>5, <1>6, <1>7
  <2> HIDE DEF u, v, w
  <2>3. u <= w
    BY <2>1, <2>2
  <2> QED
    BY <2>3 DEF u, w
<1>10. fc * y <= x * fd
  BY <1>1, <1>8, <1>9, MulCancel
<1> QED
  BY <1>2, <1>8, <1>10 DEF x, y

\* What a repayment releases.
LEMMA ReleasedOf ==
  ASSUME NEW d \in Deal, NEW n \in Nat, n > 0, n <= d.debt, Kept(d)
  PROVE  /\ Released(d, n) \in Nat
         /\ n = d.debt => Released(d, n) = d.coll
         /\ n < d.debt => /\ Released(d, n) < d.coll
                          /\ (d.coll - Released(d, n)) * d.first.debt >= d.first.coll * (d.debt - n)
<1>1. /\ d.debt \in Positive /\ d.coll \in Positive /\ d.first.debt \in Positive /\ d.first.coll \in Positive
      /\ d.debt \in Nat \ {0} /\ d.coll \in Nat \ {0}
  BY DEF Deal, Positive
<1> DEFINE m == n * d.coll
           r == m \div d.debt
<1>2. m \in Nat
  BY <1>1, MulNat
<1>3. Released(d, n) = r
  BY DEF Released
<1>4. r \in Nat /\ d.debt * r <= m /\ m < d.debt * r + d.debt
  <2> HIDE DEF m
  <2> QED
    BY <1>1, <1>2, DivFloor
<1>5. d.coll * d.first.debt >= d.first.coll * d.debt
  BY DEF Kept
<1> HIDE DEF r
<1>6. ASSUME n = d.debt PROVE r = d.coll
  <2>1. d.coll * d.debt = m /\ r * d.debt = d.debt * r
    BY <1>1, <1>4, <1>6
  <2>2. r * d.debt <= d.coll * d.debt
    BY <1>4, <2>1
  <2>3. r <= d.coll
    BY <1>1, <1>4, <2>2, MulCancel
  <2>4. d.coll * d.debt < (r + 1) * d.debt
    <3>1. (r + 1) * d.debt = d.debt * r + d.debt
      <4>1. \A x, y \in Nat : (x + 1) * y = y * x + y
        BY SMT
      <4>2. r \in Nat /\ d.debt \in Nat
        BY <1>1, <1>4
      <4> QED
        BY ONLY <4>1, <4>2, Zenon
    <3> QED
      BY <1>4, <2>1, <3>1
  <2>5. d.coll < r + 1
    <3>1. SUFFICES ASSUME r + 1 <= d.coll PROVE FALSE
      BY <1>1, <1>4
    <3>2. (r + 1) * d.debt <= d.coll * d.debt
      BY <1>1, <1>4, <3>1, MulMono
    <3>3. (r + 1) * d.debt \in Nat /\ d.coll * d.debt \in Nat
      BY <1>1, <1>4, MulNat
    <3> DEFINE u == (r + 1) * d.debt
               v == d.coll * d.debt
    <3>4. u \in Nat /\ v \in Nat /\ u <= v /\ v < u
      BY <2>4, <3>2, <3>3
    <3> HIDE DEF u, v
    <3> QED
      BY <3>4
  <2>6. r \in Nat /\ d.coll \in Nat
    BY <1>1, <1>4
  <2> QED
    BY ONLY <2>3, <2>5, <2>6
<1>7. ASSUME n < d.debt PROVE r < d.coll /\ (d.coll - r) * d.first.debt >= d.first.coll * (d.debt - n)
  BY <1>1, <1>4, <1>5, <1>7, ShareKept
<1> QED
  BY <1>3, <1>4, <1>6, <1>7

\* A summary without n of its debt.
LEMMA LessDebtOf ==
  ASSUME NEW sm \in Summaries, NEW d \in Deal, NEW n \in Positive,
         <<d.offer, d.borrower>> \in DOMAIN sm, n <= sm[<<d.offer, d.borrower>>]
  PROVE  /\ LessDebt(sm, d, n) \in Summaries
         /\ \A o \in Nat, b \in Borrowers :
              Owing(LessDebt(sm, d, n), <<o, b>>)
              = Owing(sm, <<o, b>>) + (IF o = d.offer /\ b = d.borrower THEN -n ELSE 0)
<1> DEFINE k == <<d.offer, d.borrower>>
           D == DOMAIN sm
           t == LessDebt(sm, d, n)
<1>1. sm \in [D -> Positive] /\ D \in SUBSET (Nat \X Borrowers)
  BY DEF Summaries
<1>2. sm[k] \in Positive /\ sm[k] \in Nat /\ n \in Nat
  BY <1>1 DEF Positive
<1>3. \A o \in Nat, b \in Borrowers : (<<o, b>> = k) <=> (o = d.offer /\ b = d.borrower)
  OBVIOUS
<1>4. k \in D
  OBVIOUS
<1>5. n <= sm[k]
  OBVIOUS
<1>6. t = IF sm[k] = n THEN Without(sm, k) ELSE [sm EXCEPT ![k] = sm[k] - n]
  BY DEF LessDebt
<1>7. \A x \in D : sm[x] \in Int
  BY <1>1 DEF Positive
<1> HIDE DEF k
<1>8. /\ t \in Summaries
      /\ \A x : Owing(t, x) = Owing(sm, x) + (IF x = k THEN -n ELSE 0)
  <2>1. CASE sm[k] = n
    <3>1. t \in [D \ {k} -> Positive] /\ \A x \in D \ {k} : t[x] = sm[x]
      BY <1>1, <1>6, <2>1 DEF Without, Restrict
    <3>2. D \ {k} \in SUBSET (Nat \X Borrowers) /\ DOMAIN t = D \ {k}
      BY <1>1, <3>1
    <3> HIDE DEF t
    <3>3. t \in Summaries
      BY <3>1, <3>2 DEF Summaries
    <3>4. ASSUME NEW x PROVE Owing(t, x) = Owing(sm, x) + (IF x = k THEN -n ELSE 0)
      BY <1>2, <1>4, <1>7, <2>1, <3>1, <3>2 DEF Owing
    <3> QED
      BY <3>3, <3>4
  <2>2. CASE sm[k] # n
    <3> DEFINE v == sm[k] - n
    <3>1. v \in Positive /\ v = sm[k] - n
      BY <1>2, <1>5, <2>2 DEF Positive
    <3>2. t = [sm EXCEPT ![k] = v]
      BY <1>6, <2>2
    <3> HIDE DEF t, v
    <3>3. t \in [D -> Positive] /\ t[k] = v /\ \A x \in D \ {k} : t[x] = sm[x]
      BY <1>1, <1>4, <3>1, <3>2
    <3>4. t \in Summaries /\ DOMAIN t = D
      BY <1>1, <3>3 DEF Summaries
    <3>5. ASSUME NEW x PROVE Owing(t, x) = Owing(sm, x) + (IF x = k THEN -n ELSE 0)
      BY <1>2, <1>4, <1>7, <3>1, <3>3, <3>4 DEF Owing
    <3> QED
      BY <3>4, <3>5
  <2> QED
    BY <2>1, <2>2
<1> HIDE DEF t
<1> QED
  BY <1>3, <1>8 DEF t

\* What a deal owes is part of what its offer has lent and of what its summary records.
LEMMA OwedByDeal ==
  ASSUME NEW s \in States, NEW c \in Counts, Sound(s, c), NEW i \in DOMAIN s.deals
  PROVE  LET d == s.deals[i]
             k == <<d.offer, d.borrower>>
         IN /\ d.offer \in DOMAIN s.offers
            /\ d.debt <= s.offers[d.offer].total - s.offers[d.offer].current
            /\ k \in DOMAIN s.summary /\ d.debt <= s.summary[k]
<1> DEFINE d == s.deals[i]
           k == <<d.offer, d.borrower>>
           f == DebtOf(s.deals)
<1>1. s.deals \in Maps(Deal) /\ s.offers \in Maps(Offer)
  BY StateType
<1>2. d \in Deal /\ d.debt \in Positive /\ d.offer \in Nat /\ d.borrower \in Borrowers
  BY <1>1, DealType
<1>3. \A x \in DOMAIN s.deals : f[x] \in Nat /\ f[x] = s.deals[x].debt
  BY <1>1, DealType DEF Positive
<1>4. c.deals \in Nat
  BY DEF Counts
<1>5. IsFiniteSet(DOMAIN s.deals)
  BY <1>4, FiniteTables DEF Sound
<1>6. ASSUME NEW S \in SUBSET DOMAIN s.deals, i \in S PROVE d.debt <= SumOver(f, S) /\ SumOver(f, S) \in Nat
  <2>1. IsFiniteSet(S)
    BY <1>5, FS_Subset
  <2>2. \A x \in S : f[x] \in Nat
    BY <1>3
  <2>3. SumOver(f, S) \in Nat /\ \A x \in S : f[x] <= SumOver(f, S)
    BY <2>1, <2>2, SumNat
  <2>4. f[i] = d.debt
    BY <1>3
  <2> HIDE DEF f, d
  <2> QED
    BY <1>6, <2>3, <2>4
<1>7. d.offer \in DOMAIN s.offers
  BY DEF Sound
<1>8. d.debt <= SumOver(f, DealsOf(s.deals, d.offer)) /\ SumOver(f, DealsOf(s.deals, d.offer)) \in Nat
  <2>1. DealsOf(s.deals, d.offer) \in SUBSET DOMAIN s.deals /\ i \in DealsOf(s.deals, d.offer)
    BY DEF DealsOf
  <2> HIDE DEF f, d
  <2> QED
    BY <1>6, <2>1
<1>9. d.debt <= SumOver(f, DealsWith(s.deals, d.offer, d.borrower)) /\ SumOver(f, DealsWith(s.deals, d.offer, d.borrower)) \in Nat
  <2>1. /\ DealsWith(s.deals, d.offer, d.borrower) \in SUBSET DOMAIN s.deals
        /\ i \in DealsWith(s.deals, d.offer, d.borrower)
    BY DEF DealsOf, DealsWith
  <2> HIDE DEF f, d
  <2> QED
    BY <1>6, <2>1
<1>10. d.debt <= s.offers[d.offer].total - s.offers[d.offer].current
  <2>1. s.offers[d.offer].total = s.offers[d.offer].current + SumOver(f, DealsOf(s.deals, d.offer))
    BY <1>7 DEF Sound
  <2>2. s.offers[d.offer] \in Offer
    BY <1>1, <1>7, MapType
  <2>3. s.offers[d.offer].total \in Nat /\ s.offers[d.offer].current \in Nat
    BY <2>2 DEF Offer
  <2> HIDE DEF f, d
  <2> QED
    BY <1>8, <2>1, <2>3
<1>11. Owing(s.summary, k) = SumOver(f, DealsWith(s.deals, d.offer, d.borrower))
  BY <1>2 DEF Sound
<1>12. k \in DOMAIN s.summary /\ d.debt <= s.summary[k]
  <2> HIDE DEF f, d, k
  <2> QED
    BY <1>2, <1>9, <1>11 DEF Owing, Positive
<1> QED
  BY <1>7, <1>10, <1>12

\* The rest of a deal expires.
LEMMA ExpireSound ==
  ASSUME CreditAssumption, NEW s \in States, NEW c \in Counts, Sound(s, c), NEW i \in DOMAIN s.deals
  PROVE  Expire(i, s) \in States /\ Sound(Expire(i, s), c)
<1> DEFINE d == s.deals[i]
           q == d.offer
           p == d.borrower
           e == Expire(i, s)
           r == s.offers[q]
<1>1. /\ s.debtBal \in [Accounts -> Nat] /\ s.collBal \in [Accounts -> Nat]
      /\ s.offers \in Maps(Offer) /\ s.deals \in Maps(Deal) /\ s.summary \in Summaries
  BY StateType
<1>2. /\ d \in Deal /\ q \in Nat /\ p \in Borrowers /\ d.debt \in Positive /\ d.coll \in Positive
      /\ d.debt \in Nat /\ d.coll \in Nat
  BY <1>1, DealType DEF Positive
<1>3. q \in DOMAIN s.offers /\ d.debt <= r.total - r.current /\ <<q, p>> \in DOMAIN s.summary /\ d.debt <= s.summary[<<q, p>>]
  BY OwedByDeal
<1>4. r \in Offer /\ r.total \in Nat /\ r.current \in Nat
  <2>1. r \in Offer
    BY <1>1, <1>3, MapType
  <2> QED
    BY <2>1 DEF Offer
<1> DEFINE t == r.total - d.debt
           w == s.collBal[Lender] + d.coll
           rr == [r EXCEPT !.total = t]
<1>5. Lender \in Accounts /\ p \in Accounts
  BY <1>2 DEF Accounts
<1>6. t \in Nat /\ w \in Nat
  <2>1. s.collBal[Lender] \in Nat
    BY <1>1, <1>5
  <2> QED
    BY <1>2, <1>3, <1>4, <2>1
<1>7. rr \in Offer /\ rr.total = t /\ rr.current = r.current
  <2> HIDE DEF t, r
  <2> QED
    BY <1>4, <1>6 DEF Offer
<1>8. /\ e.debtBal = s.debtBal /\ e.collBal = [s.collBal EXCEPT ![Lender] = w]
      /\ e.offers = [s.offers EXCEPT ![q] = rr]
      /\ e.deals = Without(s.deals, i) /\ e.summary = LessDebt(s.summary, d, d.debt)
      /\ e = [debtBal |-> e.debtBal, collBal |-> e.collBal, offers |-> e.offers,
              deals |-> e.deals, summary |-> e.summary]
  <2>1. e = [debtBal |-> s.debtBal, collBal |-> [s.collBal EXCEPT ![Lender] = w],
             offers |-> [s.offers EXCEPT ![q] = rr],
             deals |-> Without(s.deals, i), summary |-> LessDebt(s.summary, d, d.debt)]
    BY DEF Expire
  <2> HIDE DEF e, rr, w, q, d
  <2> QED
    BY <2>1
<1>9. t = r.total - d.debt /\ w = s.collBal[Lender] + d.coll
  OBVIOUS
<1> HIDE DEF e, rr, t, w
<1>10. e.collBal \in [Accounts -> Nat] /\ e.collBal[Lender] = w /\ \A x \in Accounts \ {Lender} : s.collBal[x] = e.collBal[x]
  BY <1>1, <1>5, <1>6, <1>8
<1>11. /\ e.offers \in Maps(Offer) /\ DOMAIN e.offers = DOMAIN s.offers /\ e.offers[q] = rr
       /\ \A o \in DOMAIN s.offers \ {q} : s.offers[o] = e.offers[o]
  <2>1. s.offers \in [DOMAIN s.offers -> Offer] /\ DOMAIN s.offers \in SUBSET Nat
    BY <1>1, MapType
  <2> HIDE DEF q
  <2>2. e.offers \in [DOMAIN s.offers -> Offer] /\ e.offers[q] = rr
        /\ \A o \in DOMAIN s.offers \ {q} : s.offers[o] = e.offers[o]
    BY <1>3, <1>7, <1>8, <2>1
  <2> QED
    BY <2>1, <2>2 DEF Maps
<1>12. /\ e.deals \in Maps(Deal) /\ DOMAIN e.deals = DOMAIN s.deals \ {i}
       /\ Differ(s.deals, e.deals, i)
  <2>1. s.deals \in [DOMAIN s.deals -> Deal] /\ DOMAIN s.deals \in SUBSET Nat
    BY <1>1, MapType
  <2>2. e.deals \in [DOMAIN s.deals \ {i} -> Deal] /\ \A x \in DOMAIN s.deals \ {i} : s.deals[x] = e.deals[x]
    BY <1>8, <2>1 DEF Without, Restrict
  <2>3. e.deals \in Maps(Deal)
    BY <2>1, <2>2 DEF Maps
  <2> QED
    BY <2>2, <2>3 DEF Differ
<1>13. /\ e.summary \in Summaries
       /\ \A o \in Nat, b \in Borrowers :
            Owing(e.summary, <<o, b>>) = Owing(s.summary, <<o, b>>) + (IF o = q /\ b = p THEN -d.debt ELSE 0)
  BY <1>1, <1>2, <1>3, <1>8, LessDebtOf
<1>14. e \in States
  BY <1>1, <1>8, <1>10, <1>11, <1>12, <1>13 DEF States
<1>15. /\ Debt(s.deals, i) = d.debt /\ Debt(e.deals, i) = 0
       /\ Coll(s.deals, i) = d.coll /\ Coll(e.deals, i) = 0
       /\ At(s.deals, i, q, p) /\ At(e.deals, i, q, p)
  BY <1>12 DEF Debt, Coll, At
<1>16. DOMAIN e.offers \subseteq 1..c.offers /\ DOMAIN e.deals \subseteq 1..c.deals
  BY <1>11, <1>12 DEF Sound
<1>17. e.offers[q].total - e.offers[q].current
       = r.total - r.current + Debt(e.deals, i) - Debt(s.deals, i)
  BY <1>2, <1>4, <1>7, <1>9, <1>11, <1>15
<1>18. \A x \in Accounts \ {Lender} : s.debtBal[x] = e.debtBal[x]
  BY <1>8
<1>19. e.debtBal[Lender] - s.debtBal[Lender] = r.current - e.offers[q].current
  <2>1. s.debtBal[Lender] \in Nat
    BY <1>1, <1>5
  <2> QED
    BY <1>4, <1>7, <1>8, <1>11, <2>1
<1>20. e.collBal[Lender] - s.collBal[Lender] = Coll(s.deals, i) - Coll(e.deals, i)
  <2>1. s.collBal[Lender] \in Nat
    BY <1>1, <1>5
  <2> QED
    BY <1>2, <1>9, <1>10, <1>15, <2>1
<1>21. \A o \in Nat, b \in Borrowers :
           Owing(e.summary, <<o, b>>) = Owing(s.summary, <<o, b>>)
             + (IF o = q /\ b = p THEN Debt(e.deals, i) - Debt(s.deals, i) ELSE 0)
  <2>1. Debt(e.deals, i) - Debt(s.deals, i) = -d.debt
    BY <1>2, <1>15
  <2> QED
    BY <1>13, <2>1, Zenon
<1>22. i \in DOMAIN e.deals => Kept(e.deals[i])
  BY <1>12
<1>23. DealStep(s, e, i, q, p, Lender, Lender)
  <2> HIDE DEF d, q, p
  <2> QED
    BY <1>3, <1>10, <1>11, <1>12, <1>15, <1>17, <1>18, <1>19, <1>20, <1>21, <1>22 DEF DealStep
<1> HIDE DEF d, q, p, r
<1>24. Sound(e, c)
  BY <1>5, <1>14, <1>16, <1>23, SoundStep
<1> QED
  BY <1>14, <1>24 DEF e

\* What the invariant says of the state now.
LEMMA Now ==
  ASSUME IInv
  PROVE  /\ Here \in States /\ created \in Counts /\ Sound(Here, created) /\ now \in Nat
         /\ created.offers \in Nat /\ created.deals \in Nat
         /\ Here.debtBal = debtBal /\ Here.collBal = collBal /\ Here.offers = offers
         /\ Here.deals = deals /\ Here.summary = summary
         /\ debtBal \in [Accounts -> Nat] /\ collBal \in [Accounts -> Nat]
         /\ offers \in Maps(Offer) /\ deals \in Maps(Deal) /\ summary \in Summaries
         /\ DOMAIN offers \subseteq 1..created.offers /\ DOMAIN deals \subseteq 1..created.deals
         /\ \A i \in DOMAIN deals : deals[i].offer \in DOMAIN offers /\ Kept(deals[i])
         /\ \A o \in DOMAIN offers : /\ offers[o] \in Offer /\ offers[o].total \in Nat
                                     /\ offers[o].current \in Nat /\ offers[o].rate \in Nat
<1>1. /\ Here.debtBal = debtBal /\ Here.collBal = collBal /\ Here.offers = offers
      /\ Here.deals = deals /\ Here.summary = summary
  BY DEF Here
<1>2. Here \in States /\ created \in Counts /\ Sound(Here, created) /\ now \in Nat
  BY DEF IInv
<1> HIDE DEF Here
<1>3. /\ debtBal \in [Accounts -> Nat] /\ collBal \in [Accounts -> Nat]
      /\ offers \in Maps(Offer) /\ deals \in Maps(Deal) /\ summary \in Summaries
  BY <1>1, <1>2, StateType
<1>4. created.offers \in Nat /\ created.deals \in Nat
  BY <1>2 DEF Counts
<1>5. /\ DOMAIN offers \subseteq 1..created.offers /\ DOMAIN deals \subseteq 1..created.deals
      /\ \A i \in DOMAIN deals : deals[i].offer \in DOMAIN offers /\ Kept(deals[i])
  BY <1>1, <1>2 DEF Sound
<1>6. \A o \in DOMAIN offers : offers[o] \in Offer
  BY <1>3, MapType
<1>7. \A o \in DOMAIN offers : offers[o].total \in Nat /\ offers[o].current \in Nat /\ offers[o].rate \in Nat
  BY <1>6 DEF Offer
<1> QED
  BY <1>1, <1>2, <1>3, <1>4, <1>5, <1>6, <1>7

\* A repayment, in whole or in part.
LEMMA RepaySound ==
  ASSUME CreditAssumption, IInv, NEW i \in DOMAIN deals, NEW n \in Nat, NEW fee \in Nat, CanRepay(i, n, fee)
  PROVE  /\ Repay(i, n, fee) \in States /\ Sound(Repay(i, n, fee), created)
         /\ \A j \in DOMAIN Repay(i, n, fee).deals :
              j \in DOMAIN deals /\ Repay(i, n, fee).deals[j].time = deals[j].time
<1> DEFINE d == deals[i]
           q == d.offer
           p == d.borrower
           e == Repay(i, n, fee)
           r == offers[q]
           rel == Released(d, n)
<1>1. /\ debtBal \in [Accounts -> Nat] /\ collBal \in [Accounts -> Nat]
      /\ offers \in Maps(Offer) /\ deals \in Maps(Deal) /\ summary \in Summaries
      /\ Here \in States /\ created \in Counts /\ Sound(Here, created)
      /\ Here.debtBal = debtBal /\ Here.collBal = collBal /\ Here.offers = offers
      /\ Here.deals = deals /\ Here.summary = summary
      /\ DOMAIN offers \subseteq 1..created.offers /\ DOMAIN deals \subseteq 1..created.deals
  BY Now
<1>2. /\ d \in Deal /\ q \in Nat /\ p \in Borrowers /\ d.debt \in Nat /\ d.coll \in Nat
      /\ d.debt > 0 /\ d.coll > 0 /\ p \in Accounts
  BY <1>1, DealType DEF Positive, Accounts
<1>3. n > 0 /\ n <= d.debt /\ debtBal[p] >= n + fee
  BY DEF CanRepay
<1>4. /\ rel \in Nat /\ (n = d.debt => rel = d.coll)
      /\ n < d.debt => /\ rel < d.coll
                       /\ (d.coll - rel) * d.first.debt >= d.first.coll * (d.debt - n)
  <2>1. Kept(d)
    BY Now
  <2> HIDE DEF d
  <2> QED
    BY <1>2, <1>3, <2>1, ReleasedOf
<1>5. /\ q \in DOMAIN offers /\ <<q, p>> \in DOMAIN summary /\ d.debt <= summary[<<q, p>>]
  <2> HIDE DEF Here
  <2>1. i \in DOMAIN Here.deals
    BY <1>1
  <2>2. LET dd == Here.deals[i]
            k == <<dd.offer, dd.borrower>>
        IN  dd.offer \in DOMAIN Here.offers /\ k \in DOMAIN Here.summary /\ dd.debt <= Here.summary[k]
    BY <1>1, <2>1, OwedByDeal
  <2> QED
    BY <1>1, <2>2
<1>6. r \in Offer /\ r.total \in Nat /\ r.current \in Nat
  BY <1>5, Now
<1> DEFINE t == r.total + fee
           u == r.current + n + fee
           v == debtBal[p] - (n + fee)
           w == collBal[p] + rel
           x == d.debt - n
           y == d.coll - rel
           rr == [r EXCEPT !.total = t, !.current = u]
           dd == [d EXCEPT !.debt = x, !.coll = y]
<1>7. /\ t = r.total + fee /\ u = r.current + n + fee /\ v = debtBal[p] - (n + fee) /\ w = collBal[p] + rel
      /\ x = d.debt - n /\ y = d.coll - rel
      /\ t \in Nat /\ u \in Nat /\ v \in Nat /\ w \in Nat /\ debtBal[p] \in Nat /\ collBal[p] \in Nat
      /\ x \in Nat
  <2>1. debtBal[p] \in Nat /\ collBal[p] \in Nat
    BY <1>1, <1>2
  <2> HIDE DEF r, rel, p, d
  <2> QED
    BY <1>2, <1>3, <1>4, <1>6, <2>1
<1>8. n < d.debt => x \in Positive /\ y \in Positive
  <2> HIDE DEF rel, d
  <2> QED
    BY <1>2, <1>3, <1>4 DEF Positive
<1>9. rr \in Offer /\ rr.total = t /\ rr.current = u
  <2> HIDE DEF t, u, r
  <2> QED
    BY <1>6, <1>7 DEF Offer
<1>10. n < d.debt => /\ dd \in Deal /\ dd.debt = x /\ dd.coll = y /\ dd.offer = q /\ dd.borrower = p
                     /\ dd.time = d.time /\ dd.first = d.first
  <2> HIDE DEF x, y, d
  <2> QED
    BY <1>2, <1>8 DEF Deal, q, p
<1>11. /\ e.debtBal = [debtBal EXCEPT ![p] = v] /\ e.collBal = [collBal EXCEPT ![p] = w]
       /\ e.offers = [offers EXCEPT ![q] = rr]
       /\ e.deals = IF n = d.debt THEN Without(deals, i) ELSE [deals EXCEPT ![i] = dd]
       /\ e.summary = LessDebt(summary, d, n)
       /\ e = [debtBal |-> e.debtBal, collBal |-> e.collBal, offers |-> e.offers,
               deals |-> e.deals, summary |-> e.summary]
  <2>1. e = [debtBal |-> [debtBal EXCEPT ![p] = v], collBal |-> [collBal EXCEPT ![p] = w],
             offers |-> [offers EXCEPT ![q] = rr],
             deals |-> IF n = d.debt THEN Without(deals, i) ELSE [deals EXCEPT ![i] = dd],
             summary |-> LessDebt(summary, d, n)]
    BY DEF Repay
  <2> HIDE DEF e, rr, v, w, p, q, d, dd
  <2> QED
    BY <2>1
<1>12. \/ n = d.debt /\ e.deals = Without(deals, i)
       \/ n < d.debt /\ e.deals = [deals EXCEPT ![i] = dd]
  BY <1>2, <1>3, <1>11
<1> HIDE DEF e, rr, t, u, v, w, x, y, rel, dd
<1>13. /\ e.debtBal \in [Accounts -> Nat] /\ e.debtBal[p] = v
       /\ \A z \in Accounts \ {p} : debtBal[z] = e.debtBal[z]
       /\ e.collBal \in [Accounts -> Nat] /\ e.collBal[p] = w
       /\ \A z \in Accounts \ {p} : collBal[z] = e.collBal[z]
  <2> HIDE DEF p
  <2> QED
    BY <1>1, <1>2, <1>7, <1>11
<1>14. /\ e.offers \in Maps(Offer) /\ DOMAIN e.offers = DOMAIN offers /\ e.offers[q] = rr
       /\ \A o \in DOMAIN offers \ {q} : offers[o] = e.offers[o]
  <2>1. offers \in [DOMAIN offers -> Offer] /\ DOMAIN offers \in SUBSET Nat
    BY <1>1, MapType
  <2> HIDE DEF q
  <2>2. e.offers \in [DOMAIN offers -> Offer] /\ e.offers[q] = rr
        /\ \A o \in DOMAIN offers \ {q} : offers[o] = e.offers[o]
    BY <1>5, <1>9, <1>11, <2>1
  <2> QED
    BY <2>1, <2>2 DEF Maps
<1>15. /\ e.deals \in Maps(Deal) /\ DOMAIN e.deals \subseteq DOMAIN deals
       /\ Differ(deals, e.deals, i)
       /\ i \in DOMAIN e.deals => n < d.debt /\ e.deals[i] = dd
       /\ i \notin DOMAIN e.deals => n = d.debt
  <2>1. deals \in [DOMAIN deals -> Deal] /\ DOMAIN deals \in SUBSET Nat
    BY <1>1, MapType
  <2>2. CASE n = d.debt /\ e.deals = Without(deals, i)
    <3>1. e.deals \in [DOMAIN deals \ {i} -> Deal] /\ \A z \in DOMAIN deals \ {i} : deals[z] = e.deals[z]
      BY <2>1, <2>2 DEF Without, Restrict
    <3>2. e.deals \in Maps(Deal)
      BY <2>1, <3>1 DEF Maps
    <3> QED
      BY <2>2, <3>1, <3>2 DEF Differ
  <2>3. CASE n < d.debt /\ e.deals = [deals EXCEPT ![i] = dd]
    <3>1. e.deals \in [DOMAIN deals -> Deal] /\ e.deals[i] = dd /\ \A z \in DOMAIN deals \ {i} : deals[z] = e.deals[z]
      BY <1>10, <2>1, <2>3
    <3>2. e.deals \in Maps(Deal)
      BY <2>1, <3>1 DEF Maps
    <3> QED
      BY <2>3, <3>1, <3>2 DEF Differ
  <2> QED
    BY <1>12, <2>2, <2>3
<1>16. /\ e.summary \in Summaries
       /\ \A o \in Nat, b \in Borrowers :
            Owing(e.summary, <<o, b>>) = Owing(summary, <<o, b>>) + (IF o = q /\ b = p THEN -n ELSE 0)
  <2>1. n \in Positive
    BY <1>3 DEF Positive
  <2>2. n <= summary[<<q, p>>]
    <3>1. summary[<<q, p>>] \in Nat
      BY <1>1, <1>5 DEF Summaries, Positive
    <3> HIDE DEF d, p, q
    <3> QED
      BY <1>2, <1>3, <1>5, <3>1
  <2> QED
    BY <1>1, <1>2, <1>5, <1>11, <2>1, <2>2, LessDebtOf
<1>17. e \in States
  BY <1>11, <1>13, <1>14, <1>15, <1>16 DEF States
<1>18. /\ Debt(deals, i) = d.debt /\ Debt(e.deals, i) = d.debt - n
       /\ Coll(deals, i) = d.coll /\ Coll(e.deals, i) = d.coll - rel
       /\ At(deals, i, q, p) /\ At(e.deals, i, q, p)
  <2>1. Debt(deals, i) = d.debt /\ Coll(deals, i) = d.coll /\ At(deals, i, q, p)
    BY DEF Debt, Coll, At
  <2>2. CASE i \in DOMAIN e.deals
    BY <1>7, <1>10, <1>15, <2>1, <2>2 DEF Debt, Coll, At
  <2>3. CASE i \notin DOMAIN e.deals
    BY <1>2, <1>4, <1>15, <2>1, <2>3 DEF Debt, Coll, At
  <2> QED
    BY <2>1, <2>2, <2>3
<1>19. DOMAIN e.offers \subseteq 1..created.offers /\ DOMAIN e.deals \subseteq 1..created.deals
  BY <1>1, <1>14, <1>15
<1>20. e.offers[q].total - e.offers[q].current = r.total - r.current + Debt(e.deals, i) - Debt(deals, i)
  <2> HIDE DEF d, r, q
  <2> QED
    BY <1>2, <1>6, <1>7, <1>9, <1>14, <1>18
<1>21. e.debtBal[p] - debtBal[p] = r.current - e.offers[q].current
  <2> HIDE DEF d, r, q, p
  <2> QED
    BY <1>6, <1>7, <1>9, <1>13, <1>14
<1>22. e.collBal[p] - collBal[p] = Coll(deals, i) - Coll(e.deals, i)
  <2> HIDE DEF d, r, q, p
  <2> QED
    BY <1>2, <1>4, <1>7, <1>13, <1>18
<1>23. \A o \in Nat, b \in Borrowers :
           Owing(e.summary, <<o, b>>) = Owing(summary, <<o, b>>)
             + (IF o = q /\ b = p THEN Debt(e.deals, i) - Debt(deals, i) ELSE 0)
  <2>1. Debt(e.deals, i) - Debt(deals, i) = -n
    BY <1>2, <1>18
  <2> QED
    BY <1>16, <2>1, Zenon
<1>24. i \in DOMAIN e.deals => Kept(e.deals[i])
  BY <1>4, <1>7, <1>10, <1>15 DEF Kept
<1>25. DealStep(Here, e, i, q, p, p, p)
  <2> HIDE DEF d, q, p, Here
  <2> QED
    BY <1>1, <1>5, <1>13, <1>14, <1>15, <1>18, <1>20, <1>21, <1>22, <1>23, <1>24 DEF DealStep
<1>26. Sound(e, created)
  <2> HIDE DEF d, q, p, Here
  <2> QED
    BY <1>1, <1>2, <1>17, <1>19, <1>25, SoundStep
<1>27. \A j \in DOMAIN e.deals : j \in DOMAIN deals /\ e.deals[j].time = deals[j].time
  BY <1>10, <1>15 DEF Differ
<1> QED
  BY <1>17, <1>26, <1>27 DEF e

-----------------------------------------------------------------------------
(* Steps of one offer.                                                     *)

\* A step of the lender with offer q alone.
OfferStep(s, e, q) ==
  /\ e.deals = s.deals /\ e.summary = s.summary /\ e.collBal = s.collBal
  /\ Differ(s.offers, e.offers, q)
  /\ q \in DOMAIN e.offers =>
       e.offers[q].total = e.offers[q].current + SumOver(DebtOf(s.deals), DealsOf(s.deals, q))
  /\ q \notin DOMAIN e.offers => DealsOf(s.deals, q) = {}
  /\ \A x \in Accounts \ {Lender} : s.debtBal[x] = e.debtBal[x]
  /\ e.debtBal[Lender] - s.debtBal[Lender] = Current(s.offers, q) - Current(e.offers, q)

\* Such a step leads from a sound state to a sound state.
LEMMA SoundOfferStep ==
  ASSUME CreditAssumption, NEW s \in States, NEW e \in States, NEW c \in Counts, NEW cc \in Counts,
         Sound(s, c), DOMAIN e.offers \subseteq 1..cc.offers, c.deals <= cc.deals,
         NEW q, OfferStep(s, e, q)
  PROVE  Sound(e, cc)
<1>1. /\ s.debtBal \in [Accounts -> Nat] /\ s.offers \in Maps(Offer)
      /\ e.debtBal \in [Accounts -> Nat] /\ e.offers \in Maps(Offer)
  BY StateType
<1>2. /\ e.deals = s.deals /\ e.summary = s.summary /\ e.collBal = s.collBal
      /\ Differ(s.offers, e.offers, q)
      /\ \A x \in Accounts \ {Lender} : s.debtBal[x] = e.debtBal[x]
      /\ e.debtBal[Lender] - s.debtBal[Lender] = Current(s.offers, q) - Current(e.offers, q)
  BY DEF OfferStep
<1>3. c.offers \in Nat /\ c.deals \in Nat /\ cc.offers \in Nat /\ cc.deals \in Nat
  BY DEF Counts
<1>4. DOMAIN s.offers \subseteq 1..c.offers /\ DOMAIN s.deals \subseteq 1..c.deals
  BY DEF Sound
<1>5. IsFiniteSet(DOMAIN s.offers) /\ IsFiniteSet(DOMAIN e.offers)
  BY <1>3, <1>4, FiniteTables
<1>6. /\ Current(s.offers, q) \in Int /\ Current(e.offers, q) \in Int
      /\ SumOver(CurrentOf(s.offers), DOMAIN s.offers) \in Int
      /\ SumOver(CurrentOf(e.offers), DOMAIN e.offers)
         = SumOver(CurrentOf(s.offers), DOMAIN s.offers) + Current(e.offers, q) - Current(s.offers, q)
  BY <1>1, <1>2, <1>5, OffersDiffer
<1>7. Lender \in Accounts
  BY DEF Accounts
<1>8. /\ SumOver(s.debtBal, Accounts) \in Int
      /\ SumOver(e.debtBal, Accounts) = SumOver(s.debtBal, Accounts) + e.debtBal[Lender] - s.debtBal[Lender]
      /\ e.debtBal[Lender] \in Int /\ s.debtBal[Lender] \in Int
  <2>1. \A x \in Accounts \ {Lender} : s.debtBal[x] = e.debtBal[x]
    BY <1>2
  <2>2. e.debtBal[Lender] \in Int /\ s.debtBal[Lender] \in Int
    BY <1>1, <1>7
  <2> QED
    BY <1>1, <1>7, <2>1, <2>2, BalanceDiffers
<1>9. SumOver(e.debtBal, Accounts) + SumOver(CurrentOf(e.offers), DOMAIN e.offers)
       = SumOver(s.debtBal, Accounts) + SumOver(CurrentOf(s.offers), DOMAIN s.offers)
  BY <1>2, <1>6, <1>8
<1>10. DOMAIN e.deals \subseteq 1..cc.deals
  <2>1. 1..c.deals \subseteq 1..cc.deals
    BY <1>3
  <2> QED
    BY <1>2, <1>4, <2>1
<1>11. ASSUME NEW i \in DOMAIN e.deals PROVE e.deals[i].offer \in DOMAIN e.offers /\ Kept(e.deals[i])
  <2>1. s.deals[i].offer \in DOMAIN s.offers /\ Kept(s.deals[i]) /\ i \in DOMAIN s.deals
    BY <1>2 DEF Sound
  <2>2. s.deals[i].offer = q => i \in DealsOf(s.deals, q)
    BY <2>1 DEF DealsOf
  <2>3. q \notin DOMAIN e.offers => DealsOf(s.deals, q) = {}
    BY DEF OfferStep
  <2> QED
    BY <1>2, <2>1, <2>2, <2>3 DEF Differ
<1>12. ASSUME NEW o \in DOMAIN e.offers
       PROVE  e.offers[o].total = e.offers[o].current + SumOver(DebtOf(e.deals), DealsOf(e.deals, o))
  <2>1. CASE o = q
    BY <1>2, <2>1 DEF OfferStep
  <2>2. CASE o # q
    BY <1>2, <2>2 DEF Differ, Sound
  <2> QED
    BY <2>1, <2>2
<1>13. \A o \in Nat, b \in Borrowers :
         Owing(e.summary, <<o, b>>) = SumOver(DebtOf(e.deals), DealsWith(e.deals, o, b))
  BY <1>2, Zenon DEF Sound
<1>14. SumOver(e.collBal, Accounts) + SumOver(CollOf(e.deals), DOMAIN e.deals) = Collateral * Cardinality(Borrowers)
  BY <1>2 DEF Sound
<1>15. SumOver(s.debtBal, Accounts) + SumOver(CurrentOf(s.offers), DOMAIN s.offers)
       = Funds + Pocket * Cardinality(Borrowers)
  BY DEF Sound
<1> QED
  BY <1>9, <1>10, <1>11, <1>12, <1>13, <1>14, <1>15 DEF Sound

\* An offer owes what it has lent; it has no deals if that is nothing.
LEMMA DealsOfOffer ==
  ASSUME IInv, NEW o
  PROVE  /\ o \notin DOMAIN offers => DealsOf(deals, o) = {}
         /\ DealsOf(deals, o) = {} => SumOver(DebtOf(deals), DealsOf(deals, o)) = 0
         /\ SumOver(DebtOf(deals), DealsOf(deals, o)) \in Nat
         /\ o \in DOMAIN offers =>
              /\ offers[o].total = offers[o].current + SumOver(DebtOf(deals), DealsOf(deals, o))
              /\ offers[o].total = offers[o].current => DealsOf(deals, o) = {}
<1> DEFINE S == DealsOf(deals, o)
           f == DebtOf(deals)
<1>1. o \notin DOMAIN offers => S = {}
  BY Now DEF DealsOf
<1>2. S = {} => SumOver(f, S) = 0
  BY SumEmpty
<1>3. deals \in Maps(Deal) /\ DOMAIN deals \subseteq 1..created.deals /\ created.deals \in Nat
  BY Now
<1>4. S \subseteq DOMAIN deals
  BY DEF DealsOf
<1>5. \A x \in S : f[x] \in Nat /\ f[x] > 0
  BY <1>3, <1>4, DealType DEF Positive
<1>6. IsFiniteSet(S)
  <2>1. IsFiniteSet(DOMAIN deals)
    BY <1>3, FiniteTables
  <2> QED
    BY <1>4, <2>1, FS_Subset
<1>7. SumOver(f, S) \in Nat /\ \A x \in S : f[x] <= SumOver(f, S)
  BY <1>5, <1>6, SumNat
<1>8. ASSUME o \in DOMAIN offers
      PROVE  /\ offers[o].total = offers[o].current + SumOver(f, S)
             /\ offers[o].total = offers[o].current => S = {}
  <2>1. offers[o].total = offers[o].current + SumOver(f, S)
    <3>1. Sound(Here, created) /\ Here.offers = offers /\ Here.deals = deals
      BY Now
    <3> HIDE DEF Here
    <3> QED
      BY <1>8, <3>1 DEF Sound
  <2>2. offers[o].total \in Nat /\ offers[o].current \in Nat
    BY <1>8, Now
  <2> HIDE DEF S, f
  <2>3. offers[o].total = offers[o].current => SumOver(f, S) = 0
    BY <1>7, <2>1, <2>2
  <2>4. SumOver(f, S) = 0 => S = {}
    BY <1>5, <1>7
  <2> QED
    BY <2>1, <2>3, <2>4
<1> QED
  BY <1>1, <1>2, <1>7, <1>8

\* It is enough to look at the new state.
LEMMA NewState ==
  ASSUME NEW e \in States, e.debtBal = debtBal', e.collBal = collBal', e.offers = offers',
         e.deals = deals', e.summary = summary', Sound(e, created'), created' \in Counts,
         now' \in Nat, expiring' \in BOOLEAN,
         ~expiring' => \A i \in DOMAIN deals' : deals'[i].time > now'
  PROVE  IInv'
<1>1. e = [debtBal |-> e.debtBal, collBal |-> e.collBal, offers |-> e.offers, deals |-> e.deals, summary |-> e.summary]
  BY DEF States
<1>2. e = Here'
  BY <1>1 DEF Here
<1> QED
  BY <1>2 DEF IInv

\* The state that the new values make.
Made(b, c, os, ds, sm) == [debtBal |-> b, collBal |-> c, offers |-> os, deals |-> ds, summary |-> sm]

\* Its parts.
LEMMA MadeType ==
  ASSUME NEW b \in [Accounts -> Nat], NEW c \in [Accounts -> Nat], NEW os \in Maps(Offer),
         NEW ds \in Maps(Deal), NEW sm \in Summaries
  PROVE  /\ Made(b, c, os, ds, sm) \in States
         /\ Made(b, c, os, ds, sm).debtBal = b /\ Made(b, c, os, ds, sm).collBal = c
         /\ Made(b, c, os, ds, sm).offers = os /\ Made(b, c, os, ds, sm).deals = ds
         /\ Made(b, c, os, ds, sm).summary = sm
BY DEF Made, States

\* Steps of the lender with one offer keep the invariant.
LEMMA OfferStepKeeps ==
  ASSUME CreditAssumption, IInv, ~expiring, UNCHANGED <<collBal, deals, summary, now, expiring>>,
         created' \in Counts, created'.deals = created.deals,
         debtBal' \in [Accounts -> Nat], offers' \in Maps(Offer), DOMAIN offers' \subseteq 1..created'.offers,
         NEW q, Differ(offers, offers', q),
         q \in DOMAIN offers' =>
           offers'[q].total = offers'[q].current + SumOver(DebtOf(deals), DealsOf(deals, q)),
         q \notin DOMAIN offers' => DealsOf(deals, q) = {},
         \A x \in Accounts \ {Lender} : debtBal[x] = debtBal'[x],
         debtBal'[Lender] - debtBal[Lender] = Current(offers, q) - Current(offers', q)
  PROVE  IInv'
<1> DEFINE e == Made(debtBal', collBal, offers', deals, summary)
<1>1. /\ Here \in States /\ created \in Counts /\ Sound(Here, created)
      /\ Here.debtBal = debtBal /\ Here.collBal = collBal /\ Here.offers = offers
      /\ Here.deals = deals /\ Here.summary = summary
      /\ collBal \in [Accounts -> Nat] /\ deals \in Maps(Deal) /\ summary \in Summaries /\ now \in Nat
      /\ created.deals \in Nat
  BY Now
<1>2. /\ e \in States /\ e.debtBal = debtBal' /\ e.collBal = collBal /\ e.offers = offers'
      /\ e.deals = deals /\ e.summary = summary
  BY <1>1, MadeType
<1> HIDE DEF e, Here
<1>3. OfferStep(Here, e, q)
  BY <1>1, <1>2 DEF OfferStep
<1>4. created.deals <= created'.deals
  BY <1>1
<1>5. DOMAIN e.offers \subseteq 1..created'.offers
  BY <1>2
<1>6. Sound(e, created')
  BY <1>1, <1>2, <1>3, <1>4, <1>5, SoundOfferStep
<1>7. ~expiring' => \A i \in DOMAIN deals' : deals'[i].time > now'
  BY DEF IInv
<1>8. now' \in Nat /\ expiring' \in BOOLEAN
  BY <1>1 DEF IInv
<1> QED
  BY <1>2, <1>6, <1>7, <1>8, NewState

-----------------------------------------------------------------------------
(* Every operation keeps the invariant.                                    *)

\* A changed balance of the lender.
LEMMA LenderChanges ==
  ASSUME IInv, NEW v \in Nat
  PROVE  /\ [debtBal EXCEPT ![Lender] = v] \in [Accounts -> Nat]
         /\ [debtBal EXCEPT ![Lender] = v][Lender] = v /\ debtBal[Lender] \in Nat
         /\ \A x \in Accounts \ {Lender} : debtBal[x] = [debtBal EXCEPT ![Lender] = v][x]
<1>1. debtBal \in [Accounts -> Nat] /\ Lender \in Accounts
  BY Now DEF Accounts
<1> QED
  BY <1>1

\* A changed or a new offer.
LEMMA OfferChanges ==
  ASSUME IInv, NEW o \in Nat, NEW r \in Offer, NEW os, os = [x \in DOMAIN offers \cup {o} |-> IF x = o THEN r ELSE offers[x]]
  PROVE  /\ os \in Maps(Offer) /\ DOMAIN os = DOMAIN offers \cup {o} /\ os[o] = r
         /\ Differ(offers, os, o)
<1>1. offers \in [DOMAIN offers -> Offer] /\ DOMAIN offers \in SUBSET Nat
  BY Now, MapType
<1>2. os \in [DOMAIN offers \cup {o} -> Offer] /\ os[o] = r /\ \A x \in DOMAIN offers \ {o} : offers[x] = os[x]
  BY <1>1
<1>3. os \in Maps(Offer)
  BY <1>1, <1>2 DEF Maps
<1> QED
  BY <1>2, <1>3 DEF Differ

\* A new offer takes its amount from the lender.
LEMMA CreateKeeps ==
  ASSUME CreditAssumption, IInv, NEW n \in Amounts, NEW rate \in Rates, NEW t \in Nat,
         credit_offer_create(n, rate, t)
  PROVE  IInv'
<1> DEFINE q == created.offers + 1
           r == [total |-> n, current |-> n, rate |-> rate, enabled |-> TRUE, disableAt |-> t]
           v == debtBal[Lender] - n
<1>1. n \in Nat \ {0} /\ rate \in Nat
  BY DEF CreditAssumption
<1>2. r \in Offer /\ r.total = n /\ r.current = n
  BY <1>1 DEF Offer
<1>3. created \in Counts /\ created.offers \in Nat /\ created.deals \in Nat /\ DOMAIN offers \subseteq 1..created.offers
  BY Now
<1>4. /\ ~expiring /\ UNCHANGED <<collBal, deals, summary, now, expiring>>
      /\ debtBal[Lender] >= n /\ debtBal' = [debtBal EXCEPT ![Lender] = v]
      /\ offers' = Put(offers, q, r)
      /\ created' = [created EXCEPT !.offers = created.offers + 1]
  BY DEF credit_offer_create
<1>5. debtBal[Lender] \in Nat
  <2>1. 0 \in Nat
    OBVIOUS
  <2> QED
    BY <2>1, LenderChanges
<1>6. v \in Nat /\ v = debtBal[Lender] - n
  BY <1>1, <1>4, <1>5
<1>7. q \in Nat /\ q \notin DOMAIN offers /\ q = created.offers + 1
  BY <1>3
<1>8. created' \in Counts /\ created'.offers = q /\ created'.deals = created.deals
  BY <1>3, <1>4 DEF Counts
<1> HIDE DEF q, r, v
<1>9. /\ debtBal' \in [Accounts -> Nat] /\ debtBal'[Lender] = v
      /\ \A x \in Accounts \ {Lender} : debtBal[x] = debtBal'[x]
  BY <1>4, <1>6, LenderChanges
<1>10. /\ offers' \in Maps(Offer) /\ DOMAIN offers' = DOMAIN offers \cup {q} /\ offers'[q] = r
       /\ Differ(offers, offers', q)
  <2>1. offers' = [x \in DOMAIN offers \cup {q} |-> IF x = q THEN r ELSE offers[x]]
    BY <1>4 DEF Put
  <2> QED
    BY <1>2, <1>7, <2>1, OfferChanges
<1>11. DOMAIN offers' \subseteq 1..created'.offers
  <2>1. 1..created.offers \subseteq 1..q /\ q \in 1..q
    BY <1>3, <1>7
  <2> QED
    BY <1>3, <1>8, <1>10, <2>1
<1>12. SumOver(DebtOf(deals), DealsOf(deals, q)) = 0
  BY <1>7, DealsOfOffer
<1>13. Current(offers, q) = 0 /\ Current(offers', q) = n
  BY <1>2, <1>7, <1>10 DEF Current
<1>14. debtBal'[Lender] - debtBal[Lender] = Current(offers, q) - Current(offers', q)
  BY <1>1, <1>5, <1>6, <1>9, <1>13
<1>15. q \in DOMAIN offers' /\ offers'[q].total = offers'[q].current + SumOver(DebtOf(deals), DealsOf(deals, q))
  BY <1>1, <1>2, <1>10, <1>12
<1> QED
  BY <1>4, <1>8, <1>9, <1>10, <1>11, <1>14, <1>15, OfferStepKeeps

\* An offer that has lent nothing has no deals and returns to the lender.
LEMMA DeleteKeeps ==
  ASSUME CreditAssumption, IInv, NEW q \in DOMAIN offers, credit_offer_delete(q)
  PROVE  IInv'
<1> DEFINE v == debtBal[Lender] + offers[q].current
<1>1. /\ created \in Counts /\ DOMAIN offers \subseteq 1..created.offers
      /\ offers \in Maps(Offer) /\ offers[q].current \in Nat
  BY Now
<1>2. /\ ~expiring /\ UNCHANGED <<collBal, deals, summary, now, expiring, created>>
      /\ offers[q].total = offers[q].current
      /\ debtBal' = [debtBal EXCEPT ![Lender] = v]
      /\ offers' = Without(offers, q)
  BY DEF credit_offer_delete
<1>3. debtBal[Lender] \in Nat
  <2>1. 0 \in Nat
    OBVIOUS
  <2> QED
    BY <2>1, LenderChanges
<1>4. v \in Nat /\ v = debtBal[Lender] + offers[q].current
  BY <1>1, <1>3
<1> HIDE DEF v
<1>5. /\ debtBal' \in [Accounts -> Nat] /\ debtBal'[Lender] = v
      /\ \A x \in Accounts \ {Lender} : debtBal[x] = debtBal'[x]
  BY <1>2, <1>4, LenderChanges
<1>6. /\ offers' \in Maps(Offer) /\ DOMAIN offers' = DOMAIN offers \ {q} /\ Differ(offers, offers', q)
  <2>1. offers \in [DOMAIN offers -> Offer] /\ DOMAIN offers \in SUBSET Nat
    BY <1>1, MapType
  <2>2. offers' \in [DOMAIN offers \ {q} -> Offer] /\ \A x \in DOMAIN offers \ {q} : offers[x] = offers'[x]
    BY <1>2, <2>1 DEF Without, Restrict
  <2>3. offers' \in Maps(Offer)
    BY <2>1, <2>2 DEF Maps
  <2> QED
    BY <2>2, <2>3 DEF Differ
<1>7. DealsOf(deals, q) = {}
  BY <1>2, DealsOfOffer
<1>8. Current(offers, q) = offers[q].current /\ Current(offers', q) = 0
  BY <1>6 DEF Current
<1>9. debtBal'[Lender] - debtBal[Lender] = Current(offers, q) - Current(offers', q)
  BY <1>1, <1>3, <1>4, <1>5, <1>8
<1>10. q \notin DOMAIN offers' /\ DOMAIN offers' \subseteq 1..created'.offers
  BY <1>1, <1>2, <1>6
<1>11. created' \in Counts /\ created'.deals = created.deals
  BY <1>1, <1>2
<1> QED
  BY <1>2, <1>5, <1>6, <1>7, <1>9, <1>10, <1>11, OfferStepKeeps

\* The lender pays in or takes out, and changes the terms.
LEMMA UpdateKeeps ==
  ASSUME CreditAssumption, IInv, NEW q \in DOMAIN offers, NEW delta \in Int, NEW rate \in Rates,
         NEW enabled \in BOOLEAN, NEW t \in Int, credit_offer_update(q, delta, rate, enabled, t)
  PROVE  IInv'
<1> DEFINE r == offers[q]
           u == r.current + delta
           w == r.total + delta
           v == debtBal[Lender] - delta
           rr == [total |-> w, current |-> u, rate |-> rate, enabled |-> enabled, disableAt |-> t]
<1>1. /\ created \in Counts /\ DOMAIN offers \subseteq 1..created.offers /\ created.offers \in Nat
      /\ r \in Offer /\ r.current \in Nat /\ r.total \in Nat
  BY Now
<1>2. /\ ~expiring /\ UNCHANGED <<collBal, deals, summary, now, expiring, created>>
      /\ delta > 0 => debtBal[Lender] >= delta
      /\ delta < 0 => r.total > -delta /\ r.current >= -delta
      /\ debtBal' = [debtBal EXCEPT ![Lender] = v]
      /\ offers' = [offers EXCEPT ![q] = rr]
  BY DEF credit_offer_update
<1>3. debtBal[Lender] \in Nat /\ rate \in Nat
  <2>1. 0 \in Nat /\ rate \in Nat
    BY DEF CreditAssumption
  <2> QED
    BY <2>1, LenderChanges
<1>4. /\ v \in Nat /\ v = debtBal[Lender] - delta
      /\ u \in Nat /\ u = r.current + delta /\ w \in Nat /\ w = r.total + delta
  <2> HIDE DEF r
  <2> QED
    BY <1>1, <1>2, <1>3
<1>5. rr \in Offer /\ rr.total = w /\ rr.current = u
  <2> HIDE DEF w, u
  <2> QED
    BY <1>3, <1>4 DEF Offer
<1> HIDE DEF v, u, w, rr
<1>6. /\ debtBal' \in [Accounts -> Nat] /\ debtBal'[Lender] = v
      /\ \A x \in Accounts \ {Lender} : debtBal[x] = debtBal'[x]
  BY <1>2, <1>4, LenderChanges
<1>7. /\ offers' \in Maps(Offer) /\ DOMAIN offers' = DOMAIN offers /\ offers'[q] = rr
      /\ Differ(offers, offers', q)
  <2>1. q \in Nat
    BY <1>1
  <2>2. DOMAIN offers \cup {q} = DOMAIN offers
    OBVIOUS
  <2>3. offers' = [x \in DOMAIN offers \cup {q} |-> IF x = q THEN rr ELSE offers[x]]
    BY <1>2, <2>2
  <2> QED
    BY <1>5, <2>1, <2>2, <2>3, OfferChanges
<1>8. Current(offers, q) = r.current /\ Current(offers', q) = u
  BY <1>5, <1>7 DEF Current
<1>9. debtBal'[Lender] - debtBal[Lender] = Current(offers, q) - Current(offers', q)
  <2> HIDE DEF r
  <2> QED
    BY <1>1, <1>3, <1>4, <1>6, <1>8
<1>10. q \in DOMAIN offers' /\ offers'[q].total = offers'[q].current + SumOver(DebtOf(deals), DealsOf(deals, q))
  <2> DEFINE S == SumOver(DebtOf(deals), DealsOf(deals, q))
  <2>1. r.total = r.current + S /\ S \in Nat
    BY DealsOfOffer
  <2> HIDE DEF S, r
  <2>2. offers'[q].total = offers'[q].current + S
    BY <1>1, <1>4, <1>5, <1>7, <2>1
  <2> QED
    BY <1>7, <2>2 DEF S
<1>11. created' \in Counts /\ created'.deals = created.deals /\ DOMAIN offers' \subseteq 1..created'.offers
  BY <1>1, <1>2, <1>7
<1> QED
  BY <1>2, <1>6, <1>7, <1>9, <1>10, <1>11, OfferStepKeeps

\* The collateral asked for is positive.
LEMMA CeilPositive ==
  ASSUME NEW a \in Positive, NEW b \in Positive
  PROVE  CeilDiv(a, b) \in Positive
<1> DEFINE c == (a + b - 1) \div b
<1>1. a \in Nat \ {0} /\ b \in Nat \ {0}
  BY DEF Positive
<1>2. c \in Nat /\ a <= b * c
  BY <1>1, CeilFloor
<1>3. CeilDiv(a, b) = c
  BY DEF CeilDiv
<1> HIDE DEF c
<1>4. c # 0
  <2>1. SUFFICES ASSUME c = 0 PROVE FALSE
    OBVIOUS
  <2>2. b * c = 0
    BY <1>1, <2>1
  <2> QED
    BY <1>1, <1>2, <2>2
<1> QED
  BY <1>2, <1>3, <1>4 DEF Positive

\* Steps of one deal keep the invariant.
LEMMA DealStepKeeps ==
  ASSUME CreditAssumption, IInv, ~expiring, UNCHANGED <<now, expiring>>, created' \in Counts,
         NEW e \in States, e.debtBal = debtBal', e.collBal = collBal', e.offers = offers',
         e.deals = deals', e.summary = summary',
         DOMAIN offers' \subseteq 1..created'.offers, DOMAIN deals' \subseteq 1..created'.deals,
         NEW z, NEW q, NEW p, NEW a \in Accounts, DealStep(Here, e, z, q, p, a, a),
         \A i \in DOMAIN deals' : deals'[i].time > now
  PROVE  IInv'
<1>1. Here \in States /\ created \in Counts /\ Sound(Here, created) /\ now \in Nat
  BY Now
<1>2. DOMAIN e.offers \subseteq 1..created'.offers /\ DOMAIN e.deals \subseteq 1..created'.deals
  OBVIOUS
<1>3. Sound(e, created')
  <2> HIDE DEF Here
  <2> QED
    BY <1>1, <1>2, SoundStep
<1>4. now' \in Nat /\ expiring' \in BOOLEAN /\ \A i \in DOMAIN deals' : deals'[i].time > now'
  BY <1>1 DEF IInv
<1> QED
  BY <1>3, <1>4, NewState

\* A new deal takes its collateral from the borrower and what it lends from the offer.
LEMMA AcceptKeeps ==
  ASSUME CreditAssumption, IInv, NEW q \in DOMAIN offers, NEW p \in Borrowers, NEW n \in Amounts,
         NEW x \in Extra, NEW auto \in RepayTypes,
         credit_offer_accept(q, p, n, CeilDiv(n * CollNum, CollDen) + x, auto)
  PROVE  IInv'
<1> DEFINE coll == CeilDiv(n * CollNum, CollDen) + x
           z == created.deals + 1
           r == offers[q]
           u == r.current - n
           rr == [r EXCEPT !.current = u]
           v == debtBal[p] + n
           w == collBal[p] - coll
           first == [debt |-> n, coll |-> coll]
           d == [borrower |-> p, offer |-> q, debt |-> n, coll |-> coll, rate |-> r.rate,
                 time |-> now + Duration, auto |-> auto, first |-> first]
           k == <<q, p>>
           m == Borrowed(q, p) + n
           e == Made(debtBal', collBal', offers', deals', summary')
<1>1. /\ debtBal \in [Accounts -> Nat] /\ collBal \in [Accounts -> Nat]
      /\ offers \in Maps(Offer) /\ deals \in Maps(Deal) /\ summary \in Summaries
      /\ Here.debtBal = debtBal /\ Here.collBal = collBal /\ Here.offers = offers
      /\ Here.deals = deals /\ Here.summary = summary
      /\ DOMAIN offers \subseteq 1..created.offers /\ DOMAIN deals \subseteq 1..created.deals
      /\ r \in Offer /\ r.total \in Nat /\ r.current \in Nat /\ r.rate \in Nat
      /\ created \in Counts /\ created.deals \in Nat /\ created.offers \in Nat /\ now \in Nat
  BY Now
<1>2. n \in Positive /\ n \in Nat /\ x \in Nat /\ CollNum \in Positive /\ CollDen \in Positive /\ Duration \in Nat \ {0}
  BY DEF CreditAssumption, Positive
<1>3. coll \in Positive /\ coll \in Nat
  <2>1. n * CollNum \in Positive
    <3>1. n * CollNum \in Nat /\ n * CollNum # 0
      BY <1>2, MulNat DEF Positive
    <3> QED
      BY <3>1 DEF Positive
  <2>2. CeilDiv(n * CollNum, CollDen) \in Positive
    BY <1>2, <2>1, CeilPositive
  <2> QED
    BY <1>2, <2>2 DEF Positive
<1>4. /\ ~expiring /\ UNCHANGED <<now, expiring>>
      /\ r.current >= n /\ collBal[p] >= coll
      /\ collBal' = [collBal EXCEPT ![p] = w] /\ debtBal' = [debtBal EXCEPT ![p] = v]
      /\ offers' = [offers EXCEPT ![q] = rr]
      /\ deals' = Put(deals, z, d)
      /\ summary' = Put(summary, k, m)
      /\ created' = [created EXCEPT !.deals = created.deals + 1]
  BY DEF credit_offer_accept
<1> HIDE DEF coll
<1>5. p \in Accounts /\ debtBal[p] \in Nat /\ collBal[p] \in Nat
  BY <1>1 DEF Accounts
<1>6. /\ u \in Nat /\ u = r.current - n /\ v \in Nat /\ v = debtBal[p] + n /\ w \in Nat /\ w = collBal[p] - coll
  <2> HIDE DEF r
  <2> QED
    BY <1>1, <1>2, <1>3, <1>4, <1>5
<1>7. /\ z \in Nat /\ z = created.deals + 1 /\ z \notin DOMAIN deals /\ q \in Nat
  BY <1>1
<1>8. created' \in Counts /\ created'.deals = z /\ created'.offers = created.offers
  BY <1>1, <1>4 DEF Counts
<1>9. rr \in Offer /\ rr.current = u /\ rr.total = r.total
  <2> HIDE DEF r, u
  <2> QED
    BY <1>1, <1>6 DEF Offer
<1>10. /\ d \in Deal /\ d.offer = q /\ d.borrower = p /\ d.debt = n /\ d.coll = coll /\ d.time = now + Duration
       /\ d.first = first /\ first.debt = n /\ first.coll = coll
  <2>1. now + Duration \in Nat
    BY <1>1, <1>2
  <2>2. first \in [debt : Positive, coll : Positive] /\ first.debt = n /\ first.coll = coll
    BY <1>2, <1>3
  <2> HIDE DEF r, first
  <2> QED
    BY <1>1, <1>2, <1>3, <1>7, <2>1, <2>2 DEF Deal
<1>11. Borrowed(q, p) \in Nat /\ Borrowed(q, p) = Owing(summary, k) /\ m \in Positive /\ m = Owing(summary, k) + n
  <2>1. k \in DOMAIN summary => summary[k] \in Nat
    BY <1>1 DEF Summaries, Positive
  <2>2. Borrowed(q, p) = Owing(summary, k) /\ Owing(summary, k) \in Nat
    BY <2>1 DEF Borrowed, Owing
  <2> QED
    BY <1>2, <2>2 DEF Positive
<1> HIDE DEF z, u, rr, v, w, d, m, first
<1>12. /\ debtBal' \in [Accounts -> Nat] /\ debtBal'[p] = v /\ \A y \in Accounts \ {p} : debtBal[y] = debtBal'[y]
       /\ collBal' \in [Accounts -> Nat] /\ collBal'[p] = w /\ \A y \in Accounts \ {p} : collBal[y] = collBal'[y]
  BY <1>1, <1>4, <1>5, <1>6
<1>13. /\ offers' \in Maps(Offer) /\ DOMAIN offers' = DOMAIN offers /\ offers'[q] = rr
       /\ \A o \in DOMAIN offers \ {q} : offers[o] = offers'[o]
  <2>1. DOMAIN offers \cup {q} = DOMAIN offers
    OBVIOUS
  <2>2. offers' = [y \in DOMAIN offers \cup {q} |-> IF y = q THEN rr ELSE offers[y]]
    BY <1>4, <2>1
  <2>3. /\ offers' \in Maps(Offer) /\ DOMAIN offers' = DOMAIN offers /\ offers'[q] = rr
        /\ Differ(offers, offers', q)
    BY <1>7, <1>9, <2>1, <2>2, OfferChanges
  <2> QED
    BY <2>3 DEF Differ
<1>14. /\ deals' \in Maps(Deal) /\ DOMAIN deals' = DOMAIN deals \cup {z} /\ deals'[z] = d
       /\ Differ(deals, deals', z)
  <2>1. deals \in [DOMAIN deals -> Deal] /\ DOMAIN deals \in SUBSET Nat
    BY <1>1, MapType
  <2>2. /\ deals' \in [DOMAIN deals \cup {z} -> Deal] /\ deals'[z] = d
        /\ \A y \in DOMAIN deals \ {z} : deals[y] = deals'[y]
    BY <1>4, <1>10, <2>1 DEF Put
  <2>3. deals' \in Maps(Deal)
    BY <1>7, <2>1, <2>2 DEF Maps
  <2> QED
    BY <2>2, <2>3 DEF Differ
<1>15. /\ summary' \in Summaries
       /\ \A o \in Nat, b \in Borrowers :
            Owing(summary', <<o, b>>) = Owing(summary, <<o, b>>) + (IF o = q /\ b = p THEN n ELSE 0)
  <2>1. summary \in [DOMAIN summary -> Positive] /\ DOMAIN summary \in SUBSET (Nat \X Borrowers)
    BY <1>1 DEF Summaries
  <2>2. k \in Nat \X Borrowers
    BY <1>7
  <2>3. \A o \in Nat, b \in Borrowers : (<<o, b>> = k) <=> (o = q /\ b = p)
    OBVIOUS
  <2> HIDE DEF k
  <2>4. /\ summary' \in [DOMAIN summary \cup {k} -> Positive] /\ summary'[k] = m
        /\ \A y \in DOMAIN summary \ {k} : summary[y] = summary'[y]
    BY <1>4, <1>11, <2>1 DEF Put
  <2>5. summary' \in Summaries
    BY <2>1, <2>2, <2>4 DEF Summaries
  <2>6. \A y : y \in DOMAIN summary => summary[y] \in Int
    BY <2>1 DEF Positive
  <2>7. ASSUME NEW y PROVE Owing(summary', y) = Owing(summary, y) + (IF y = k THEN n ELSE 0)
    <3>1. CASE y = k
      BY <1>11, <2>4, <3>1 DEF Owing
    <3>2. CASE y # k
      BY <2>4, <2>6, <3>2 DEF Owing
    <3> QED
      BY <3>1, <3>2
  <2> QED
    BY <2>3, <2>5, <2>7
<1>16. /\ e \in States /\ e.debtBal = debtBal' /\ e.collBal = collBal' /\ e.offers = offers'
       /\ e.deals = deals' /\ e.summary = summary'
  BY <1>12, <1>13, <1>14, <1>15, MadeType
<1>17. /\ Debt(deals, z) = 0 /\ Debt(deals', z) = n /\ Coll(deals, z) = 0 /\ Coll(deals', z) = coll
       /\ At(deals, z, q, p) /\ At(deals', z, q, p)
  BY <1>7, <1>10, <1>14 DEF Debt, Coll, At
<1>18. Kept(deals'[z])
  <2>1. coll * n >= coll * n
    BY <1>2, <1>3, MulNat
  <2> QED
    BY <1>10, <1>14, <2>1 DEF Kept
<1> HIDE DEF e, r, k
<1>19. DealStep(Here, e, z, q, p, p, p)
  <2>1. offers'[q].total - offers'[q].current = r.total - r.current + Debt(deals', z) - Debt(deals, z)
    BY <1>1, <1>2, <1>6, <1>9, <1>13, <1>17
  <2>2. debtBal'[p] - debtBal[p] = r.current - offers'[q].current
    BY <1>1, <1>2, <1>5, <1>6, <1>9, <1>12, <1>13
  <2>3. collBal'[p] - collBal[p] = Coll(deals, z) - Coll(deals', z)
    BY <1>3, <1>5, <1>6, <1>12, <1>17
  <2>4. \A o \in Nat, b \in Borrowers :
          Owing(summary', <<o, b>>) = Owing(summary, <<o, b>>)
            + (IF o = q /\ b = p THEN Debt(deals', z) - Debt(deals, z) ELSE 0)
    <3>1. Debt(deals', z) - Debt(deals, z) = n
      BY <1>2, <1>17
    <3> QED
      BY <1>15, <3>1, Zenon
  <2>5. r = offers[q]
    BY DEF r
  <2> HIDE DEF Here
  <2> QED
    BY <1>1, <1>12, <1>13, <1>14, <1>16, <1>17, <1>18, <2>1, <2>2, <2>3, <2>4, <2>5 DEF DealStep
<1>20. DOMAIN offers' \subseteq 1..created'.offers /\ DOMAIN deals' \subseteq 1..created'.deals
  <2>1. 1..created.deals \subseteq 1..z /\ z \in 1..z
    BY <1>1, <1>7
  <2> QED
    BY <1>1, <1>8, <1>13, <1>14, <2>1
<1>21. \A i \in DOMAIN deals' : deals'[i].time > now
  <2>1. deals'[z].time > now
    BY <1>1, <1>2, <1>10, <1>14
  <2>2. \A i \in DOMAIN deals : deals[i].time > now
    BY <1>4 DEF IInv
  <2> QED
    BY <1>14, <2>1, <2>2 DEF Differ
<1> QED
  BY <1>4, <1>5, <1>8, <1>16, <1>19, <1>20, <1>21, DealStepKeeps

\* A repayment by the borrower.
LEMMA RepayKeeps ==
  ASSUME CreditAssumption, IInv, NEW i \in DOMAIN deals, NEW n \in Amounts, credit_deal_repay(i, n)
  PROVE  IInv'
<1> DEFINE fee == RequiredFee(deals[i], n)
           e == Repay(i, n, fee)
<1>1. n \in Nat /\ fee \in Nat
  <2>1. n \in Nat /\ RateDenom \in Nat \ {0} /\ deals[i].rate \in Nat
    BY Now, DealType DEF CreditAssumption
  <2>2. n * deals[i].rate \in Nat
    BY <2>1, MulNat
  <2>3. fee = (n * deals[i].rate + RateDenom - 1) \div RateDenom
    BY DEF RequiredFee, CeilDiv
  <2> DEFINE y == n * deals[i].rate
  <2> HIDE DEF y
  <2>4. (y + RateDenom - 1) \div RateDenom \in Nat
    BY <2>1, <2>2, CeilFloor DEF y
  <2> QED
    BY <2>1, <2>3, <2>4 DEF y
<1>2. /\ ~expiring /\ CanRepay(i, n, fee) /\ UNCHANGED <<now, expiring, created>>
      /\ debtBal' = e.debtBal /\ collBal' = e.collBal /\ offers' = e.offers
      /\ deals' = e.deals /\ summary' = e.summary
  BY DEF credit_deal_repay
<1> HIDE DEF fee
<1>3. /\ e \in States /\ Sound(e, created)
      /\ \A j \in DOMAIN e.deals : j \in DOMAIN deals /\ e.deals[j].time = deals[j].time
  BY <1>1, <1>2, RepaySound
<1> HIDE DEF e
<1>4. now' \in Nat /\ expiring' \in BOOLEAN /\ created' \in Counts /\ created' = created
  BY <1>2 DEF IInv
<1>5. \A j \in DOMAIN deals' : deals'[j].time > now'
  BY <1>2, <1>3 DEF IInv
<1>6. Sound(e, created')
  BY <1>3, <1>4
<1> QED
  BY <1>2, <1>3, <1>4, <1>5, <1>6, NewState

\* Another kind of automatic repayment moves nothing.
LEMMA DealUpdateKeeps ==
  ASSUME CreditAssumption, IInv, NEW i \in DOMAIN deals, NEW auto \in RepayTypes, credit_deal_update(i, auto)
  PROVE  IInv'
<1> DEFINE d == deals[i]
           dd == [d EXCEPT !.auto = auto]
           q == d.offer
           p == d.borrower
           e == Made(debtBal, collBal, offers, deals', summary)
<1>1. /\ debtBal \in [Accounts -> Nat] /\ collBal \in [Accounts -> Nat]
      /\ offers \in Maps(Offer) /\ deals \in Maps(Deal) /\ summary \in Summaries
      /\ Here.debtBal = debtBal /\ Here.collBal = collBal /\ Here.offers = offers
      /\ Here.deals = deals /\ Here.summary = summary
      /\ DOMAIN offers \subseteq 1..created.offers /\ DOMAIN deals \subseteq 1..created.deals
      /\ created \in Counts /\ q \in DOMAIN offers /\ Kept(d)
  BY Now
<1>2. d \in Deal /\ p \in Borrowers /\ p \in Accounts /\ d.debt \in Nat /\ d.coll \in Nat
  BY <1>1, DealType DEF Accounts, Positive
<1>3. /\ ~expiring /\ UNCHANGED <<debtBal, collBal, offers, summary, now, expiring, created>>
      /\ deals' = [deals EXCEPT ![i] = dd]
  BY DEF credit_deal_update
<1>4. /\ dd \in Deal /\ dd.offer = q /\ dd.borrower = p /\ dd.debt = d.debt /\ dd.coll = d.coll
      /\ dd.time = d.time /\ dd.first = d.first
  <2> HIDE DEF d
  <2> QED
    BY <1>2 DEF Deal, q, p
<1> HIDE DEF dd
<1>5. /\ deals' \in Maps(Deal) /\ DOMAIN deals' = DOMAIN deals /\ deals'[i] = dd /\ Differ(deals, deals', i)
  <2>1. deals \in [DOMAIN deals -> Deal] /\ DOMAIN deals \in SUBSET Nat
    BY <1>1, MapType
  <2>2. /\ deals' \in [DOMAIN deals -> Deal] /\ deals'[i] = dd
        /\ \A y \in DOMAIN deals \ {i} : deals[y] = deals'[y]
    BY <1>3, <1>4, <2>1
  <2>3. deals' \in Maps(Deal)
    BY <2>1, <2>2 DEF Maps
  <2> QED
    BY <2>2, <2>3 DEF Differ
<1>6. /\ e \in States /\ e.debtBal = debtBal /\ e.collBal = collBal /\ e.offers = offers
      /\ e.deals = deals' /\ e.summary = summary
  BY <1>1, <1>5, MadeType
<1>7. /\ Debt(deals, i) = d.debt /\ Debt(deals', i) = d.debt /\ Coll(deals, i) = d.coll /\ Coll(deals', i) = d.coll
      /\ At(deals, i, q, p) /\ At(deals', i, q, p)
  BY <1>4, <1>5 DEF Debt, Coll, At
<1>8. Kept(deals'[i])
  BY <1>1, <1>4, <1>5 DEF Kept
<1>9. /\ offers[q].total \in Nat /\ offers[q].current \in Nat /\ debtBal[p] \in Nat /\ collBal[p] \in Nat
  BY <1>1, <1>2, Now
<1>10. \A o \in Nat, b \in Borrowers : Owing(summary, <<o, b>>) \in Int
  BY <1>1 DEF Owing, Summaries, Positive
<1> HIDE DEF e, d, q, p
<1>11. DealStep(Here, e, i, q, p, p, p)
  <2>1. /\ offers[q].total - offers[q].current = offers[q].total - offers[q].current + Debt(deals', i) - Debt(deals, i)
        /\ debtBal[p] - debtBal[p] = offers[q].current - offers[q].current
        /\ collBal[p] - collBal[p] = Coll(deals, i) - Coll(deals', i)
    BY <1>2, <1>7, <1>9
  <2>2. \A o \in Nat, b \in Borrowers :
          Owing(summary, <<o, b>>) = Owing(summary, <<o, b>>)
            + (IF o = q /\ b = p THEN Debt(deals', i) - Debt(deals, i) ELSE 0)
    <3>1. Debt(deals', i) - Debt(deals, i) = 0
      BY <1>2, <1>7
    <3>2. ASSUME NEW x \in Int, NEW c \in BOOLEAN
          PROVE  x = x + (IF c THEN Debt(deals', i) - Debt(deals, i) ELSE 0)
      BY <3>1
    <3>3. ASSUME NEW o \in Nat, NEW b \in Borrowers
          PROVE  Owing(summary, <<o, b>>) = Owing(summary, <<o, b>>)
                   + (IF o = q /\ b = p THEN Debt(deals', i) - Debt(deals, i) ELSE 0)
      <4> DEFINE x == Owing(summary, <<o, b>>)
                 c == o = q /\ b = p
      <4>1. x \in Int /\ c \in BOOLEAN
        BY <1>10
      <4> HIDE DEF x, c
      <4>2. x = x + (IF c THEN Debt(deals', i) - Debt(deals, i) ELSE 0)
        BY <3>2, <4>1
      <4> QED
        BY <4>2 DEF x, c
    <3> QED
      BY <3>3, Zenon
  <2> HIDE DEF Here
  <2> QED
    BY <1>1, <1>5, <1>6, <1>7, <1>8, <2>1, <2>2 DEF DealStep
<1>12. \A j \in DOMAIN deals' : deals'[j].time > now
  BY <1>3, <1>4, <1>5 DEF Differ, IInv, d
<1>13. created' \in Counts /\ DOMAIN offers' \subseteq 1..created'.offers /\ DOMAIN deals' \subseteq 1..created'.deals
  BY <1>1, <1>3, <1>5
<1> QED
  BY <1>2, <1>3, <1>6, <1>11, <1>12, <1>13, DealStepKeeps

\* A new block only disables offers.
LEMMA NewBlockKeeps ==
  ASSUME CreditAssumption, IInv, NewBlock
  PROVE  IInv'
<1> DEFINE on(o) == offers[o].enabled /\ offers[o].disableAt > now + 1
           e == Made(debtBal, collBal, offers', deals, summary)
<1>1. /\ debtBal \in [Accounts -> Nat] /\ collBal \in [Accounts -> Nat]
      /\ offers \in Maps(Offer) /\ deals \in Maps(Deal) /\ summary \in Summaries
      /\ Here.debtBal = debtBal /\ Here.collBal = collBal /\ Here.offers = offers
      /\ Here.deals = deals /\ Here.summary = summary
      /\ created \in Counts /\ Sound(Here, created) /\ now \in Nat
  BY Now
<1>2. /\ offers' = [o \in DOMAIN offers |-> [offers[o] EXCEPT !.enabled = on(o)]]
      /\ now' = now + 1 /\ expiring' = TRUE /\ UNCHANGED <<debtBal, collBal, deals, summary, created>>
  BY DEF NewBlock
<1>3. \A o \in DOMAIN offers : on(o) \in BOOLEAN
  OBVIOUS
<1> HIDE DEF on
<1>4. ASSUME NEW o \in DOMAIN offers
      PROVE  /\ offers'[o] \in Offer /\ offers'[o].total = offers[o].total
             /\ offers'[o].current = offers[o].current
  <2>1. offers[o] \in Offer
    BY <1>1, MapType
  <2>2. offers'[o] = [offers[o] EXCEPT !.enabled = on(o)]
    BY <1>2
  <2> QED
    BY <1>3, <2>1, <2>2 DEF Offer
<1>5. DOMAIN offers' = DOMAIN offers /\ offers' = [o \in DOMAIN offers |-> offers'[o]]
  BY <1>2
<1>6. offers' \in Maps(Offer)
  <2>1. DOMAIN offers \in SUBSET Nat
    BY <1>1, MapType
  <2>2. offers' \in [DOMAIN offers -> Offer]
    BY <1>4, <1>5
  <2> QED
    BY <2>1, <2>2 DEF Maps
<1>7. CurrentOf(offers') = CurrentOf(offers)
  BY <1>4, <1>5 DEF CurrentOf
<1>8. /\ e \in States /\ e.debtBal = debtBal /\ e.collBal = collBal /\ e.offers = offers'
      /\ e.deals = deals /\ e.summary = summary
  BY <1>1, <1>6, MadeType
<1> HIDE DEF e, Here
<1>9. \A o \in DOMAIN offers : offers[o].total = offers[o].current + SumOver(DebtOf(deals), DealsOf(deals, o))
  BY DealsOfOffer
<1>10. \A o \in DOMAIN e.offers :
         e.offers[o].total = e.offers[o].current + SumOver(DebtOf(e.deals), DealsOf(e.deals, o))
  BY <1>4, <1>5, <1>8, <1>9
<1>11. Sound(e, created)
  BY <1>1, <1>5, <1>7, <1>8, <1>10 DEF Sound
<1>12. now' \in Nat /\ expiring' \in BOOLEAN /\ created' \in Counts /\ Sound(e, created') /\ expiring'
  BY <1>1, <1>2, <1>11
<1> QED
  BY <1>2, <1>8, <1>12, NewState

\* There is a first overdue deal.
LEMMA FirstIsOverdue ==
  ASSUME IInv, Overdue # {}
  PROVE  FirstOverdue \in Overdue
<1> DEFINE Times == {deals[i].time : i \in Overdue}
<1>1. \A i \in Overdue : i \in DOMAIN deals
  BY DEF Overdue
<1>2. deals \in Maps(Deal)
  BY Now
<1>3. \A i \in Overdue : i \in Nat /\ deals[i].time \in Nat
  BY <1>1, <1>2, DealType
<1>4. Times \subseteq Nat /\ Times # {}
  BY <1>3
<1>5. PICK t \in Times : \A y \in Times : t <= y
  <2> HIDE DEF Times
  <2> QED
    BY <1>4, LeastNumber
<1> DEFINE Ids == {i \in Overdue : deals[i].time = t}
<1>6. Ids \subseteq Nat /\ Ids # {}
  BY <1>3, <1>5
<1>7. PICK k \in Ids : \A y \in Ids : k <= y
  <2> HIDE DEF Ids
  <2> QED
    BY <1>6, LeastNumber
<1>8. \A j \in Overdue : deals[k].time < deals[j].time \/ (deals[k].time = deals[j].time /\ k <= j)
  <2>1. k \in Overdue /\ deals[k].time = t
    BY <1>7
  <2>2. ASSUME NEW j \in Overdue PROVE deals[k].time < deals[j].time \/ (deals[k].time = deals[j].time /\ k <= j)
    <3>1. t <= deals[j].time /\ deals[j].time \in Nat /\ t \in Nat
      BY <1>3, <1>4, <1>5
    <3>2. deals[j].time = t => k <= j
      BY <1>7
    <3>3. t < deals[j].time \/ deals[j].time = t
      BY <3>1
    <3> QED
      BY <2>1, <3>1, <3>2, <3>3
  <2> QED
    BY <2>2
<1> QED
  BY <1>7, <1>8 DEF FirstOverdue

\* Amounts and fees are numbers.
LEMMA FeeType ==
  ASSUME CreditAssumption, NEW d \in Deal, NEW n \in Nat
  PROVE  /\ RequiredFee(d, n) \in Nat
         /\ \A q \in Nat : n * d.rate <= RateDenom * q => RequiredFee(d, n) <= q
<1> DEFINE y == n * d.rate
<1>1. RateDenom \in Nat \ {0} /\ d.rate \in Nat
  BY DEF CreditAssumption, Deal
<1>2. y \in Nat
  BY <1>1, MulNat
<1>3. RequiredFee(d, n) = (y + RateDenom - 1) \div RateDenom
  BY DEF RequiredFee, CeilDiv
<1> HIDE DEF y
<1>4. (y + RateDenom - 1) \div RateDenom \in Nat
  BY <1>1, <1>2, CeilFloor
<1>5. ASSUME NEW q \in Nat, y <= RateDenom * q PROVE RequiredFee(d, n) <= q
  BY <1>1, <1>2, <1>3, <1>5, CeilLe
<1> QED
  BY <1>3, <1>4, <1>5 DEF y

\* The part of a debt that a balance repays can be paid with its fee.
LEMMA PartialPayable ==
  ASSUME CreditAssumption, NEW d \in Deal, NEW have \in Nat
  PROVE  /\ Partial(d, have) \in Nat
         /\ Partial(d, have) + RequiredFee(d, Partial(d, have)) <= have
<1> DEFINE R == RateDenom + d.rate
           g == have * RateDenom
           most == g \div R
           h == most * d.coll
           release == h \div d.debt
           j == release * d.debt
           n == (j + d.coll - 1) \div d.coll
<1>1. RateDenom \in Nat \ {0} /\ d.rate \in Nat /\ d.coll \in Nat \ {0} /\ d.debt \in Nat \ {0} /\ R \in Nat \ {0}
  BY DEF CreditAssumption, Deal, Positive
<1>2. Partial(d, have) = n
  BY DEF Partial, CeilDiv
<1>3. most \in Nat /\ R * most <= g
  <2>1. g \in Nat
    BY <1>1, MulNat
  <2> HIDE DEF g, R
  <2> QED
    BY <1>1, <2>1, DivFloor
<1> HIDE DEF most
<1>4. release \in Nat /\ d.debt * release <= h /\ h \in Nat
  <2>1. h \in Nat
    BY <1>1, <1>3, MulNat
  <2> HIDE DEF h
  <2> QED
    BY <1>1, <2>1, DivFloor
<1> HIDE DEF release
<1>5. j \in Nat /\ j <= d.coll * most
  <2>1. j = d.debt * release /\ h = d.coll * most
    BY <1>1, <1>3, <1>4
  <2>2. j \in Nat
    BY <1>1, <1>4, MulNat
  <2> QED
    BY <1>4, <2>1, <2>2
<1> HIDE DEF j
<1>6. n \in Nat /\ n <= most
  BY <1>1, <1>3, <1>5, CeilFloor, CeilLe
<1> HIDE DEF n
<1>7. R * n <= g
  <2>1. R * n <= R * most
    BY <1>1, <1>3, <1>6, MulMono
  <2> DEFINE a == R * n
             b == R * most
  <2>2. a \in Nat /\ b \in Nat /\ g \in Nat /\ a <= b /\ b <= g
    BY <1>1, <1>3, <1>6, <2>1, MulNat
  <2> HIDE DEF a, b, g
  <2>3. a <= g
    BY <2>2
  <2> QED
    BY <2>3 DEF a
<1>8. n * RateDenom + n * d.rate <= have * RateDenom
  <2>1. R * n = n * RateDenom + n * d.rate
    BY <1>1, <1>6
  <2> QED
    BY <1>7, <2>1
<1>9. n * RateDenom \in Nat /\ n * d.rate \in Nat /\ have * RateDenom \in Nat
  BY <1>1, <1>6, MulNat
<1>10. n <= have
  <2>1. n * RateDenom <= have * RateDenom
    <3> DEFINE a == n * RateDenom
               b == n * d.rate
               c == have * RateDenom
    <3>1. a \in Nat /\ b \in Nat /\ c \in Nat /\ a + b <= c
      BY <1>8, <1>9
    <3> HIDE DEF a, b, c
    <3>2. a <= c
      BY <3>1
    <3> QED
      BY <3>2 DEF a, c
  <2> QED
    BY <1>1, <1>6, <2>1, MulCancel
<1>11. n * d.rate <= RateDenom * (have - n) /\ have - n \in Nat
  <2>1. RateDenom * (have - n) = have * RateDenom - n * RateDenom
    BY <1>1, <1>6
  <2>2. have - n \in Nat
    BY <1>6, <1>10
  <2> DEFINE a == n * RateDenom
             b == n * d.rate
             c == have * RateDenom
             f == RateDenom * (have - n)
  <2>3. a \in Nat /\ b \in Nat /\ c \in Nat /\ a + b <= c /\ f = c - a
    BY <1>8, <1>9, <2>1
  <2> HIDE DEF a, b, c, f
  <2>4. b <= f
    BY <2>3
  <2> QED
    BY <2>2, <2>4 DEF b, f
<1>12. RequiredFee(d, n) <= have - n /\ RequiredFee(d, n) \in Nat
  BY <1>6, <1>11, FeeType
<1>13. n + RequiredFee(d, n) <= have
  BY <1>6, <1>12
<1> QED
  BY <1>2, <1>6, <1>13

\* The amount of an automatic repayment is a number; it can be paid unless the deal
\* asks for the whole debt or nothing.
LEMMA AutoPayable ==
  ASSUME CreditAssumption, IInv, NEW d \in Deal
  PROVE  /\ AutoAmount(d) \in Nat
         /\ d.auto = "allow_partial_repayment" =>
              AutoAmount(d) + RequiredFee(d, AutoAmount(d)) <= debtBal[d.borrower]
<1> DEFINE have == debtBal[d.borrower]
<1>1. d.debt \in Nat /\ have \in Nat
  BY Now DEF Deal, Positive, Accounts
<1>2. AutoAmount(d) = IF d.auto = "only_full_repayment" \/ have >= d.debt + RequiredFee(d, d.debt)
                      THEN d.debt ELSE Partial(d, have)
  BY DEF AutoAmount
<1> HIDE DEF have
<1>3. /\ Partial(d, have) \in Nat
      /\ Partial(d, have) + RequiredFee(d, Partial(d, have)) <= have
  BY <1>1, PartialPayable
<1>4. AutoAmount(d) \in Nat
  BY <1>1, <1>2, <1>3
<1>5. RequiredFee(d, d.debt) \in Nat
  BY <1>1, FeeType
<1>6. ASSUME d.auto = "allow_partial_repayment" PROVE AutoAmount(d) + RequiredFee(d, AutoAmount(d)) <= have
  <2>1. CASE have >= d.debt + RequiredFee(d, d.debt)
    <3>1. AutoAmount(d) = d.debt
      BY <1>2, <2>1
    <3> QED
      BY <1>1, <1>5, <2>1, <3>1
  <2>2. CASE ~(have >= d.debt + RequiredFee(d, d.debt))
    <3>1. AutoAmount(d) = Partial(d, have)
      BY <1>2, <1>6, <2>2
    <3> QED
      BY <1>3, <3>1
  <2> QED
    BY <2>1, <2>2
<1> QED
  BY <1>4, <1>6 DEF have

\* One turn of the loop: a repayment, then the rest expires.
LEMMA ExpireDealKeeps ==
  ASSUME CreditAssumption, IInv, ExpireDeal
  PROVE  IInv'
<1> DEFINE i == FirstOverdue
           d == deals[i]
           n == AutoAmount(d)
           fee == RequiredFee(d, n)
           s == AutoRepaid(i)
           e == IF i \in DOMAIN s.deals THEN Expire(i, s) ELSE s
<1>1. /\ expiring /\ Overdue # {} /\ UNCHANGED <<now, expiring, created>>
      /\ debtBal' = e.debtBal /\ collBal' = e.collBal /\ offers' = e.offers
      /\ deals' = e.deals /\ summary' = e.summary
  BY DEF ExpireDeal
<1>2. i \in DOMAIN deals
  BY <1>1, FirstIsOverdue DEF Overdue
<1> HIDE DEF i
<1>3. d \in Deal
  BY <1>2, Now, DealType
<1>4. n \in Nat /\ fee \in Nat
  <2> HIDE DEF d
  <2>1. n \in Nat
    BY <1>3, AutoPayable
  <2> HIDE DEF n
  <2> QED
    BY <1>3, <2>1, FeeType
<1>5. s = IF d.auto # "no_auto_repayment" /\ CanRepay(i, n, fee) THEN Repay(i, n, fee) ELSE Here
  BY DEF AutoRepaid
<1> HIDE DEF s, n, fee, d
<1>6. s \in States /\ Sound(s, created)
  <2>1. CASE CanRepay(i, n, fee) /\ s = Repay(i, n, fee)
    BY <1>2, <1>4, <2>1, RepaySound
  <2>2. CASE s = Here
    BY <2>2, Now
  <2> QED
    BY <1>5, <2>1, <2>2
<1>7. created \in Counts /\ now \in Nat
  BY Now
<1>8. e \in States /\ Sound(e, created)
  BY <1>6, <1>7, ExpireSound
<1> HIDE DEF e
<1>9. created' \in Counts /\ now' \in Nat /\ expiring' \in BOOLEAN /\ expiring' /\ Sound(e, created')
  BY <1>1, <1>7, <1>8 DEF IInv
<1> QED
  BY <1>1, <1>8, <1>9, NewState

\* Steps that change neither balances nor objects.
LEMMA QuietKeeps ==
  ASSUME IInv, UNCHANGED <<debtBal, collBal, offers, deals, summary, now, created>>,
         UNCHANGED expiring \/ (expiring' = FALSE /\ Overdue = {})
  PROVE  IInv'
<1>1. Here' = Here
  BY DEF Here
<1>2. expiring' \in BOOLEAN
  BY DEF IInv
<1>3. ~expiring' => \A i \in DOMAIN deals : deals[i].time > now
  <2>1. CASE UNCHANGED expiring
    BY <2>1 DEF IInv
  <2>2. CASE Overdue = {}
    <3>1. ASSUME NEW i \in DOMAIN deals PROVE deals[i].time > now
      <4>1. ~(deals[i].time <= now)
        BY <2>2 DEF Overdue
      <4>2. deals[i].time \in Nat /\ now \in Nat
        BY Now, DealType
      <4> QED
        BY <4>1, <4>2
    <3> QED
      BY <3>1
  <2> QED
    BY <2>1, <2>2
<1> QED
  BY <1>1, <1>2, <1>3 DEF IInv

-----------------------------------------------------------------------------
(* Theorems.                                                               *)

\* The invariant holds at the start.
LEMMA InitSound ==
  ASSUME CreditAssumption, Init
  PROVE  IInv
<1>1. /\ Funds \in Nat /\ Pocket \in Nat /\ Collateral \in Nat /\ IsFiniteSet(Borrowers) /\ Lender \notin Borrowers
  BY DEF CreditAssumption
<1>2. DOMAIN Empty = {} /\ Empty \in [{} -> Offer] /\ Empty \in [{} -> Deal] /\ Empty \in [{} -> Positive]
  BY DEF Empty
<1>3. Empty \in Maps(Offer) /\ Empty \in Maps(Deal) /\ Empty \in Summaries
  BY <1>2 DEF Maps, Summaries
<1>4. /\ offers = Empty /\ deals = Empty /\ summary = Empty /\ now = 0 /\ expiring = FALSE
      /\ created = [offers |-> 0, deals |-> 0]
      /\ debtBal = [a \in Accounts |-> IF a = Lender THEN Funds ELSE Pocket]
      /\ collBal = [a \in Accounts |-> IF a = Lender THEN 0 ELSE Collateral]
  BY DEF Init
<1>5. /\ debtBal \in [Accounts -> Nat] /\ debtBal[Lender] = Funds /\ \A a \in Borrowers : debtBal[a] = Pocket
      /\ collBal \in [Accounts -> Nat] /\ collBal[Lender] = 0 /\ \A a \in Borrowers : collBal[a] = Collateral
  BY <1>1, <1>4 DEF Accounts
<1>6. ASSUME NEW b \in [Accounts -> Nat], NEW c \in Nat, \A a \in Borrowers : b[a] = c
      PROVE  SumOver(b, Accounts) = b[Lender] + c * Cardinality(Borrowers)
  <2>1. SumOver(b, Borrowers) = c * Cardinality(Borrowers)
    BY <1>1, <1>6, SumConstant
  <2>2. \A a \in Borrowers \cup {Lender} : b[a] \in Int
    BY DEF Accounts
  <2>3. SumOver(b, Borrowers \cup {Lender}) = b[Lender] + SumOver(b, Borrowers)
    BY <1>1, <2>2, SumAdd
  <2> QED
    BY <2>1, <2>3 DEF Accounts
<1>7. Pocket * Cardinality(Borrowers) \in Nat /\ Collateral * Cardinality(Borrowers) \in Nat
  BY <1>1, FS_CardinalityType, MulNat
<1>8. /\ SumOver(debtBal, Accounts) = Funds + Pocket * Cardinality(Borrowers)
      /\ SumOver(collBal, Accounts) = Collateral * Cardinality(Borrowers)
  <2>1. SumOver(debtBal, Accounts) = debtBal[Lender] + Pocket * Cardinality(Borrowers)
    BY <1>1, <1>5, <1>6
  <2>2. SumOver(collBal, Accounts) = collBal[Lender] + Collateral * Cardinality(Borrowers)
    BY <1>1, <1>5, <1>6
  <2> QED
    BY <1>5, <1>7, <2>1, <2>2
<1>9. /\ Here \in States /\ Here.debtBal = debtBal /\ Here.collBal = collBal /\ Here.offers = Empty
      /\ Here.deals = Empty /\ Here.summary = Empty
  BY <1>3, <1>4, <1>5 DEF Here, States
<1>10. created \in Counts /\ created.offers = 0 /\ created.deals = 0
  BY <1>4 DEF Counts
<1> HIDE DEF Here, Empty
<1>11. SumOver(CurrentOf(Empty), DOMAIN Empty) = 0 /\ SumOver(CollOf(Empty), DOMAIN Empty) = 0
  BY <1>2, SumEmpty
<1>12. \A o, b : SumOver(DebtOf(Empty), DealsWith(Empty, o, b)) = 0
  <2>1. \A o, b : DealsWith(Empty, o, b) = {}
    BY <1>2 DEF DealsWith, DealsOf
  <2> QED
    BY <2>1, SumEmpty
<1>13. \A k : Owing(Empty, k) = 0
  BY <1>2 DEF Owing
<1>14. /\ SumOver(Here.debtBal, Accounts) + SumOver(CurrentOf(Here.offers), DOMAIN Here.offers)
          = Funds + Pocket * Cardinality(Borrowers)
       /\ SumOver(Here.collBal, Accounts) + SumOver(CollOf(Here.deals), DOMAIN Here.deals)
          = Collateral * Cardinality(Borrowers)
  BY <1>1, <1>7, <1>8, <1>9, <1>11
<1>15. Sound(Here, created)
  BY <1>2, <1>9, <1>12, <1>13, <1>14 DEF Sound
<1> QED
  BY <1>2, <1>4, <1>9, <1>10, <1>15 DEF IInv

\* Every step keeps the invariant.
LEMMA StepKeeps ==
  ASSUME CreditAssumption, IInv, [Next]_vars
  PROVE  IInv'
<1>1. CASE \E n \in Amounts, r \in Rates, t \in 1..MaxTime : credit_offer_create(n, r, t)
  <2>1. PICK n \in Amounts, r \in Rates, t \in 1..MaxTime : credit_offer_create(n, r, t)
    BY <1>1
  <2>2. t \in Nat
    BY DEF CreditAssumption
  <2> QED
    BY <2>1, <2>2, CreateKeeps
<1>2. CASE \E o \in DOMAIN offers : credit_offer_delete(o)
  BY <1>2, DeleteKeeps
<1>3. CASE \E o \in DOMAIN offers, d \in Amounts \cup {0} \cup {-n : n \in Amounts}, r \in Rates, e \in BOOLEAN :
             credit_offer_update(o, d, r, e, now + 1)
  <2>1. PICK o \in DOMAIN offers, d \in Amounts \cup {0} \cup {-n : n \in Amounts}, r \in Rates, e \in BOOLEAN :
             credit_offer_update(o, d, r, e, now + 1)
    BY <1>3
  <2>2. d \in Int
    BY DEF CreditAssumption
  <2>3. now + 1 \in Int
    BY Now
  <2> QED
    BY <2>1, <2>2, <2>3, UpdateKeeps
<1>4. CASE \E o \in DOMAIN offers, b \in Borrowers, n \in Amounts, x \in Extra, a \in RepayTypes :
             credit_offer_accept(o, b, n, CeilDiv(n * CollNum, CollDen) + x, a)
  BY <1>4, AcceptKeeps
<1>5. CASE \E i \in DOMAIN deals, n \in Amounts : credit_deal_repay(i, n)
  BY <1>5, RepayKeeps
<1>6. CASE \E i \in DOMAIN deals, a \in RepayTypes : credit_deal_update(i, a)
  BY <1>6, DealUpdateKeeps
<1>7. CASE \E b \in Restricted : Bar(b)
  BY <1>7, QuietKeeps DEF Bar
<1>8. CASE NewBlock
  BY <1>8, NewBlockKeeps
<1>9. CASE ExpireDeal
  BY <1>9, ExpireDealKeeps
<1>10. CASE BlockDone
  BY <1>10, QuietKeeps DEF BlockDone
<1>11. CASE UNCHANGED vars
  BY <1>11, QuietKeeps DEF vars
<1> QED
  BY <1>1, <1>2, <1>3, <1>4, <1>5, <1>6, <1>7, <1>8, <1>9, <1>10, <1>11 DEF Next

\* The inductive invariant of offers, deals and summaries (credit_offer_evaluator.cpp,
\* update_credit_offers_and_deals).
THEOREM CreditInvariant ==
  ASSUME CreditAssumption
  PROVE  Spec => []IInv
<1>1. Init => IInv
  BY InitSound
<1>2. IInv /\ [Next]_vars => IInv'
  BY StepKeeps
<1> QED
  BY <1>1, <1>2, PTL DEF Spec

\* The invariant gives the types.
LEMMA InvTypes ==
  ASSUME CreditAssumption, IInv
  PROVE  TypeOK
<1>1. debtBal \in [Accounts -> Nat] /\ collBal \in [Accounts -> Nat]
  BY Now
<1>2. ASSUME NEW o \in DOMAIN offers PROVE offers[o].current \in 0..offers[o].total
  <2> DEFINE S == SumOver(DebtOf(deals), DealsOf(deals, o))
  <2>1. offers[o].total = offers[o].current + S /\ S \in Nat
    BY DealsOfOffer
  <2>2. offers[o].total \in Nat /\ offers[o].current \in Nat
    BY Now
  <2> HIDE DEF S
  <2> QED
    BY <2>1, <2>2
<1>3. \A i \in DOMAIN deals : deals[i].debt > 0 /\ deals[i].coll > 0
  <2>1. deals \in Maps(Deal)
    BY Now
  <2>2. ASSUME NEW i \in DOMAIN deals PROVE deals[i].debt > 0 /\ deals[i].coll > 0
    <3>1. deals[i].debt \in Positive /\ deals[i].coll \in Positive
      BY <2>1, DealType
    <3> QED
      BY <3>1 DEF Positive
  <2> QED
    BY <2>2
<1> QED
  BY <1>1, <1>2, <1>3 DEF TypeOK

\* No balance becomes negative, no offer lends more than it has, and no deal is left
\* without debt or without collateral.
THEOREM CreditTypeCorrect ==
  ASSUME CreditAssumption
  PROVE  Spec => []TypeOK
<1>1. IInv => TypeOK
  BY InvTypes
<1> QED
  BY <1>1, CreditInvariant, PTL

\* The invariant gives the sums.
LEMMA InvConserves ==
  ASSUME CreditAssumption, IInv
  PROVE  Conserved
<1>1. /\ Sound(Here, created) /\ Here.debtBal = debtBal /\ Here.collBal = collBal
      /\ Here.offers = offers /\ Here.deals = deals
  BY Now
<1> HIDE DEF Here
<1> QED
  BY <1>1 DEF Sound, Conserved

\* Deals, repayments with fees that are rounded, partial releases of collateral and
\* expirations create and destroy nothing of either asset.
THEOREM CreditConserves ==
  ASSUME CreditAssumption
  PROVE  Spec => []Conserved
<1>1. IInv => Conserved
  BY InvConserves
<1> QED
  BY <1>1, CreditInvariant, PTL

\* The invariant makes offers, deals and summaries agree.
LEMMA InvSound ==
  ASSUME CreditAssumption, IInv
  PROVE  CreditSound
<1>1. /\ Sound(Here, created) /\ Here.offers = offers /\ Here.deals = deals /\ Here.summary = summary
      /\ summary \in Summaries /\ deals \in Maps(Deal)
  BY Now
<1>2. OfferExact
  BY Now, DealsOfOffer DEF OfferExact
<1>3. SummaryExact
  <2>1. \A k \in DOMAIN summary : summary[k] > 0
    BY <1>1 DEF Summaries, Positive
  <2>2. ASSUME NEW b \in Borrowers, NEW o \in 1..MaxOffers
        PROVE  Borrowed(o, b) = SumOver(DebtOf(deals), DealsWith(deals, o, b))
    <3>1. o \in Nat /\ Borrowed(o, b) = Owing(summary, <<o, b>>)
      BY DEF Borrowed, Owing, CreditAssumption
    <3> HIDE DEF Here
    <3> QED
      BY <1>1, <3>1 DEF Sound
  <2> QED
    BY <2>1, <2>2 DEF SummaryExact
<1>4. CollateralKept
  BY Now DEF CollateralKept, Kept
<1>5. NoOverdueDeals
  BY DEF NoOverdueDeals, IInv
<1>6. PartialAffordable
  <2>1. \A i \in Overdue : deals[i] \in Deal
    BY <1>1, DealType DEF Overdue
  <2> QED
    BY <2>1, AutoPayable DEF PartialAffordable
<1> QED
  BY <1>2, <1>3, <1>4, <1>5, <1>6 DEF CreditSound

\* Totals of offers and summaries are those of the deals, the lender's collateral per
\* debt never falls, no deal is past its deadline between blocks, and an automatic
\* repayment in part can always be paid.
THEOREM CreditIsSound ==
  ASSUME CreditAssumption
  PROVE  Spec => []CreditSound
<1>1. IInv => CreditSound
  BY InvSound
<1> QED
  BY <1>1, CreditInvariant, PTL

-----------------------------------------------------------------------------
\* Liquidity pools, with constants and variables of their own.
CONSTANTS
  Owner, Others, WealthA, WealthB, Deposits, Sales, Shares, Hundred, TakerFees, WithdrawalFees,
  MakerFee, TakerFee, MaxMarketFee, PoolSupply, PoolOps
VARIABLES lBal, lExists, lPool, lSupply, lFees, lOps
L == INSTANCE LiquidityPool WITH
  MaxSupply <- PoolSupply, MaxOps <- PoolOps,
  bal <- lBal, exists <- lExists, pool <- lPool, supply <- lSupply, fees <- lFees, ops <- lOps

\* Prediction markets, with constants and variables of their own.
CONSTANTS Bettors, Outcomes, BetCore, Deltas, TokenSupply
VARIABLES mDebt, mBal, mCore, mSupply, mPrice, mFund
PM == INSTANCE PredictionMarket WITH
  Accounts <- Bettors, StartCore <- BetCore, MaxSupply <- TokenSupply,
  debt <- mDebt, bal <- mBal, core <- mCore, supply <- mSupply, price <- mPrice, fund <- mFund

-----------------------------------------------------------------------------
(* Liquidity pools: the inductive invariant.                               *)

Holding == [a : Nat, b : Nat, share : Nat]
PoolObject == [a : Nat, b : Nat, virtual : Nat, taker : 0..Hundred, withdrawal : 0..Hundred]

LTypes ==
  /\ lBal \in [L!Accounts -> Holding]
  /\ lExists \in BOOLEAN
  /\ lPool \in PoolObject
  /\ lSupply \in 0..PoolSupply
  /\ lFees \in [a : Nat, b : Nat]

\* Nothing is in the pool and nobody has a share of it, or something of each.
LShape ==
  /\ lPool.virtual = lPool.a * lPool.b
  /\ \/ lPool.a = 0 /\ lPool.b = 0 /\ lSupply = 0
     \/ lExists /\ lPool.a > 0 /\ lPool.b > 0 /\ lSupply > 0

\* Both assets and the shares add up.
LAdds ==
  /\ SumOver(L!AOf, L!Accounts) + lPool.a + lFees.a = WealthA * Cardinality(L!Accounts)
  /\ SumOver(L!BOf, L!Accounts) + lPool.b + lFees.b = WealthB * Cardinality(L!Accounts)
  /\ SumOver(L!SharesOf, L!Accounts) = lSupply

LInv == LTypes /\ LShape /\ LAdds

\* What the constants are.
LEMMA PoolConstants ==
  ASSUME L!PoolAssumption
  PROVE  /\ WealthA \in Nat /\ WealthB \in Nat /\ MakerFee \in Nat /\ TakerFee \in Nat
         /\ MaxMarketFee \in Nat /\ PoolSupply \in Nat /\ PoolOps \in Nat
         /\ Deposits \subseteq Nat \ {0} /\ Sales \subseteq Nat \ {0} /\ Shares \subseteq Nat \ {0}
         /\ Hundred \in Nat \ {0} /\ TakerFees \subseteq 0..Hundred /\ WithdrawalFees \subseteq 0..Hundred
         /\ IsFiniteSet(L!Accounts)
<1>1. IsFiniteSet(Others)
  BY DEF L!PoolAssumption, L!IsFiniteSet, IsFiniteSet
<1>2. IsFiniteSet(L!Accounts)
  BY <1>1, FS_AddElement DEF L!Accounts
<1> QED
  BY <1>2 DEF L!PoolAssumption

\* The sums in LiquidityPool are those of the lemmas.
LEMMA PoolAdds == L!Conserved <=> LAdds
<1>1. \A f, S : L!SumOver(f, S) = SumOver(f, S)
  BY DEF L!SumOver, SumOver, L!FoldFunctionOnSet, FoldFunctionOnSet, L!MapThenFoldSet, MapThenFoldSet
<1>2. L!Cardinality(L!Accounts) = Cardinality(L!Accounts)
  BY DEF L!Cardinality, Cardinality, L!IsFiniteSet, IsFiniteSet
<1> QED
  BY <1>1, <1>2 DEF L!Conserved, LAdds

\* What one account has changes, and the sums with it.
LEMMA AdjustAdds ==
  ASSUME L!PoolAssumption, lBal \in [L!Accounts -> Holding], NEW x \in L!Accounts,
         NEW da \in Int, NEW db \in Int, NEW ds \in Int, L!Adjust(x, da, db, ds)
  PROVE  /\ lBal' \in [L!Accounts -> Holding]
         /\ SumOver(L!AOf, L!Accounts) \in Nat /\ SumOver(L!BOf, L!Accounts) \in Nat
         /\ SumOver(L!SharesOf, L!Accounts) \in Nat
         /\ SumOver(L!AOf, L!Accounts)' = SumOver(L!AOf, L!Accounts) + da
         /\ SumOver(L!BOf, L!Accounts)' = SumOver(L!BOf, L!Accounts) + db
         /\ SumOver(L!SharesOf, L!Accounts)' = SumOver(L!SharesOf, L!Accounts) + ds
         /\ SumOver(L!SharesOf, L!Accounts)' \in Nat
<1> DEFINE S == L!Accounts
<1>1. IsFiniteSet(S)
  BY PoolConstants
<1>2. lBal[x] \in Holding /\ lBal[x].a + da \in Nat /\ lBal[x].b + db \in Nat /\ lBal[x].share + ds \in Nat
  BY DEF L!Adjust, Holding
<1>3. lBal' = [lBal EXCEPT ![x] = [a |-> lBal[x].a + da, b |-> lBal[x].b + db, share |-> lBal[x].share + ds]]
  BY DEF L!Adjust
<1>4. lBal' \in [S -> Holding]
  BY <1>2, <1>3 DEF Holding
<1>5. /\ lBal'[x].a = lBal[x].a + da /\ lBal'[x].b = lBal[x].b + db /\ lBal'[x].share = lBal[x].share + ds
      /\ \A y \in S \ {x} : lBal'[y] = lBal[y]
  BY <1>3
<1> DEFINE a0 == L!AOf
           a1 == L!AOf'
           b0 == L!BOf
           b1 == L!BOf'
           s0 == L!SharesOf
           s1 == L!SharesOf'
<1>6. /\ \A y \in S : a0[y] = lBal[y].a /\ b0[y] = lBal[y].b /\ s0[y] = lBal[y].share
      /\ \A y \in S : a1[y] = lBal'[y].a /\ b1[y] = lBal'[y].b /\ s1[y] = lBal'[y].share
  BY DEF L!AOf, L!BOf, L!SharesOf
<1>7. /\ \A y \in S : a0[y] \in Nat /\ b0[y] \in Nat /\ s0[y] \in Nat
      /\ \A y \in S : a1[y] \in Nat /\ b1[y] \in Nat /\ s1[y] \in Nat
  BY <1>4, <1>6 DEF Holding
<1>8. /\ \A y \in S \ {x} : a0[y] = a1[y]
      /\ \A y \in S \ {x} : b0[y] = b1[y]
      /\ \A y \in S \ {x} : s0[y] = s1[y]
  BY <1>5, <1>6
<1>9. a1[x] = a0[x] + da /\ b1[x] = b0[x] + db /\ s1[x] = s0[x] + ds
  BY <1>5, <1>6
<1>10. x \in S
  OBVIOUS
<1> HIDE DEF S, a0, a1, b0, b1, s0, s1
<1>11. SumOver(a0, S) \in Nat /\ SumOver(a1, S) = SumOver(a0, S) + da
  <2>1. \A y \in S : a0[y] \in Nat
    BY <1>7
  <2>2. \A y \in S : a0[y] \in Int /\ a1[y] \in Int
    BY <1>7
  <2>3. SumOver(a0, S) \in Nat
    BY ONLY <1>1, <2>1, SumNat
  <2>4. SumOver(a1, S) = SumOver(a0, S) + a1[x] - a0[x]
    BY ONLY <1>1, <1>8, <1>10, <2>2, SumChange
  <2>5. a0[x] \in Int
    BY <1>10, <2>2
  <2> QED
    BY ONLY <1>9, <2>3, <2>4, <2>5, da \in Int
<1>12. SumOver(b0, S) \in Nat /\ SumOver(b1, S) = SumOver(b0, S) + db
  <2>1. \A y \in S : b0[y] \in Nat
    BY <1>7
  <2>2. \A y \in S : b0[y] \in Int /\ b1[y] \in Int
    BY <1>7
  <2>3. SumOver(b0, S) \in Nat
    BY ONLY <1>1, <2>1, SumNat
  <2>4. SumOver(b1, S) = SumOver(b0, S) + b1[x] - b0[x]
    BY ONLY <1>1, <1>8, <1>10, <2>2, SumChange
  <2>5. b0[x] \in Int
    BY <1>10, <2>2
  <2> QED
    BY ONLY <1>9, <2>3, <2>4, <2>5, db \in Int
<1>13. SumOver(s0, S) \in Nat /\ SumOver(s1, S) = SumOver(s0, S) + ds /\ SumOver(s1, S) \in Nat
  <2>1. (\A y \in S : s0[y] \in Nat) /\ (\A y \in S : s1[y] \in Nat)
    BY <1>7
  <2>2. \A y \in S : s0[y] \in Int /\ s1[y] \in Int
    BY <1>7
  <2>3. SumOver(s0, S) \in Nat
    BY ONLY <1>1, <2>1, SumNat
  <2>4. SumOver(s1, S) = SumOver(s0, S) + s1[x] - s0[x]
    BY ONLY <1>1, <1>8, <1>10, <2>2, SumChange
  <2>5. s0[x] \in Int
    BY <1>10, <2>2
  <2>6. SumOver(s1, S) \in Nat
    BY ONLY <1>1, <2>1, SumNat
  <2> QED
    BY ONLY <1>9, <2>3, <2>4, <2>5, <2>6, ds \in Int
<1>14. /\ SumOver(L!AOf, L!Accounts)' = SumOver(a1, S) /\ SumOver(L!BOf, L!Accounts)' = SumOver(b1, S)
       /\ SumOver(L!SharesOf, L!Accounts)' = SumOver(s1, S)
  BY DEF S, a1, b1, s1
<1>15. /\ SumOver(L!AOf, L!Accounts) = SumOver(a0, S) /\ SumOver(L!BOf, L!Accounts) = SumOver(b0, S)
       /\ SumOver(L!SharesOf, L!Accounts) = SumOver(s0, S)
  BY DEF S, a0, b0, s0
<1>16. lBal' \in [L!Accounts -> Holding]
  BY <1>4 DEF S
<1> QED
  BY ONLY <1>11, <1>12, <1>13, <1>14, <1>15, <1>16

-----------------------------------------------------------------------------
(* Liquidity pools: the terms of each operation.                           *)

\* If both balances keep up with the supply, so does their product.
LEMMA ProductGrows ==
  ASSUME NEW a \in Nat, NEW b \in Nat, NEW c \in Nat, NEW d \in Nat, NEW s \in Nat, NEW t \in Nat,
         c * s >= a * t, d * s >= b * t
  PROVE  c * d * s * s >= a * b * t * t
<1>1. a * t \in Nat /\ b * t \in Nat /\ c * s \in Nat /\ d * s \in Nat
  BY MulNat
<1>2. (a * t) * (b * t) <= (c * s) * (b * t)
  BY ONLY <1>1, MulMono, c * s >= a * t
<1>3. (c * s) * (b * t) <= (c * s) * (d * s)
  BY ONLY <1>1, MulMono, d * s >= b * t
<1>4. (a * t) * (b * t) = a * b * t * t /\ (c * s) * (d * s) = c * d * s * s
  BY ONLY a \in Nat, b \in Nat, c \in Nat, d \in Nat, s \in Nat, t \in Nat
<1>5. (a * t) * (b * t) \in Nat /\ (c * s) * (b * t) \in Nat /\ (c * s) * (d * s) \in Nat
  BY ONLY <1>1, MulNat
<1> QED
  BY ONLY <1>2, <1>3, <1>4, <1>5

\* What is paid for n new shares of a balance, rounded up, keeps the balance in
\* proportion.
LEMMA PaysEnough ==
  ASSUME NEW n \in Nat, NEW balance \in Nat, NEW s \in Nat \ {0}
  PROVE  /\ L!CeilDiv(n * balance, s) \in Nat
         /\ (balance + L!CeilDiv(n * balance, s)) * s >= balance * (s + n)
<1> DEFINE p == n * balance
           t == L!CeilDiv(n * balance, s)
<1>1. p \in Nat
  BY MulNat
<1>2. t = (p + s - 1) \div s
  BY DEF L!CeilDiv
<1> HIDE DEF p, t
<1>3. t \in Nat /\ p <= s * t
  BY ONLY <1>1, <1>2, CeilFloor, s \in Nat \ {0}
<1>4. (balance + t) * s = balance * s + s * t /\ balance * (s + n) = balance * s + n * balance
  BY ONLY <1>3, n \in Nat, balance \in Nat, s \in Nat \ {0}
<1>5. p = n * balance /\ balance * s \in Nat /\ s * t \in Nat
  BY <1>3, MulNat DEF p
<1>6. (balance + t) * s >= balance * (s + n)
  BY ONLY <1>1, <1>3, <1>4, <1>5
<1> QED
  BY <1>3, <1>6 DEF t

\* What n of the shares are worth, rounded down and less a fee.
LEMMA PaysShare ==
  ASSUME L!PoolAssumption, LTypes, NEW n \in Nat \ {0}, n < lSupply, NEW balance \in Nat \ {0}
  PROVE  /\ L!Pays(n, balance) \in Nat /\ L!Pays(n, balance) < balance
         /\ (balance - L!Pays(n, balance)) * lSupply >= balance * (lSupply - n)
<1> DEFINE s == lSupply
           w == lPool.withdrawal
           p == n * balance
           x == p \div s
           q == x * w
           f == q \div Hundred
<1>1. s \in Nat \ {0} /\ n < s /\ w \in 0..Hundred /\ Hundred \in Nat \ {0}
  BY PoolConstants DEF LTypes, PoolObject
<1>2. p \in Nat
  BY MulNat
<1>3. L!Pays(n, balance) = x - f
  BY <1>1 DEF L!Pays, L!ShareOf
<1>4. p = n * balance /\ q = x * w
  OBVIOUS
<1> HIDE DEF p, q
<1>5. x \in Nat /\ s * x <= p
  BY ONLY <1>1, <1>2, DivFloor
<1> HIDE DEF x
<1>6. q \in Nat /\ q <= x * Hundred
  BY ONLY <1>1, <1>4, <1>5, MulNat, MulMono
<1>7. f \in Nat /\ Hundred * f <= q
  BY ONLY <1>1, <1>6, DivFloor
<1> HIDE DEF f
<1>8. f <= x
  <2>1. f * Hundred <= x * Hundred
    BY ONLY <1>1, <1>5, <1>6, <1>7
  <2> QED
    BY ONLY <1>1, <1>5, <1>7, <2>1, MulCancel
<1>9. x < balance
  <2>1. SUFFICES ASSUME balance <= x PROVE FALSE
    BY <1>5
  <2>2. s * balance <= s * x
    BY ONLY <1>1, <1>5, <2>1, MulMono, balance \in Nat \ {0}
  <2>3. s * balance = (s - 1 - n) * balance + n * balance + balance
    BY ONLY <1>1, balance \in Nat \ {0}, n \in Nat \ {0}
  <2>4. (s - 1 - n) * balance \in Nat
    BY ONLY <1>1, MulNat, balance \in Nat \ {0}, n \in Nat \ {0}
  <2>5. s * x \in Nat
    BY ONLY <1>1, <1>5, MulNat
  <2> QED
    BY ONLY <1>2, <1>4, <1>5, <2>2, <2>3, <2>4, <2>5, balance \in Nat \ {0}
<1>10. (balance - (x - f)) * s >= balance * (s - n)
  <2>1. (balance - (x - f)) * s = balance * s - s * x + f * s /\ balance * (s - n) = balance * s - n * balance
    BY ONLY <1>1, <1>5, <1>7, balance \in Nat \ {0}, n \in Nat \ {0}
  <2>2. f * s \in Nat /\ s * x \in Nat /\ balance * s \in Nat
    BY ONLY <1>1, <1>5, <1>7, MulNat, balance \in Nat \ {0}
  <2> QED
    BY ONLY <1>2, <1>4, <1>5, <2>1, <2>2
<1> QED
  BY <1>3, <1>5, <1>7, <1>8, <1>9, <1>10

\* The constant product: a balance grows by r, and what the other pays leaves at
\* least the product.
LEMMA ExchangeIs ==
  ASSUME L!PoolAssumption, LTypes, LShape, lPool.a > 0, lPool.b > 0, NEW n \in Nat \ {0},
         NEW in \in Nat \ {0}, NEW out \in Nat \ {0}, lPool.virtual = in * out,
         L!ExchangeTerms(n, in, out).maker < n, L!ExchangeTerms(n, in, out).gets >= 1
  PROVE  LET t == L!ExchangeTerms(n, in, out)
         IN /\ t.maker \in Nat /\ t.taker \in Nat /\ t.receives \in Nat /\ t.gets \in Nat
            /\ t.pays \in Nat /\ t.pays < out
            /\ t.receives + t.maker = n /\ t.gets + t.taker = t.pays
            /\ (in + t.receives) * (out - t.pays) >= in * out
<1> DEFINE t == L!ExchangeTerms(n, in, out)
           maker == L!MarketFee(n, MakerFee)
           new == in + (n - maker)
           v == lPool.virtual
           c == L!CeilDiv(v, new)
           delta == out - c
           k == lPool.taker
           fee == (delta * k) \div Hundred
           pays == delta - fee
           taker == L!MarketFee(pays, TakerFee)
<1>1. /\ Hundred \in Nat \ {0} /\ k \in 0..Hundred /\ v \in Nat /\ v = in * out
      /\ MakerFee \in Nat /\ TakerFee \in Nat /\ MaxMarketFee \in Nat
  BY PoolConstants DEF LTypes, PoolObject
<1>2. /\ t.maker = maker /\ t.receives = n - maker /\ t.pays = pays /\ t.taker = taker /\ t.gets = pays - taker
  BY DEF L!ExchangeTerms, L!Delta
<1>3. \A m \in Nat, p \in Nat : L!MarketFee(m, p) \in Nat
  <2> SUFFICES ASSUME NEW m \in Nat, NEW p \in Nat PROVE L!MarketFee(m, p) \in Nat
    OBVIOUS
  <2>1. (m * p) \div Hundred \in Nat
    BY <1>1, MulNat, DivFloor
  <2> QED
    BY <1>1, <2>1 DEF L!MarketFee, L!MinOf
<1>4. maker \in Nat /\ maker < n
  BY <1>1, <1>2, <1>3
<1> HIDE DEF t, maker
<1>5. new \in Nat \ {0} /\ new > in
  BY ONLY <1>4, n \in Nat \ {0}, in \in Nat \ {0} DEF new
<1>6. c = (v + new - 1) \div new
  BY DEF L!CeilDiv, c
<1> HIDE DEF c, new, v
<1>7. c \in Nat /\ v <= new * c
  BY ONLY <1>1, <1>5, <1>6, CeilFloor
<1>8. c <= out
  <2>1. v <= new * out
    BY ONLY <1>1, <1>5, MulMono, in \in Nat \ {0}, out \in Nat \ {0}
  <2> QED
    BY ONLY <1>1, <1>5, <1>6, <2>1, CeilLe, out \in Nat \ {0}
<1>9. c > 0
  <2>1. SUFFICES ASSUME c = 0 PROVE FALSE
    BY <1>7
  <2>2. v <= 0
    BY ONLY <1>5, <1>7, <2>1, <1>1
  <2>3. 1 * 1 <= 1 * out /\ 1 * out <= in * out
    BY ONLY MulMono, in \in Nat \ {0}, out \in Nat \ {0}
  <2> QED
    BY ONLY <1>1, <2>2, <2>3, out \in Nat \ {0}
<1>10. delta \in Nat /\ delta < out
  BY ONLY <1>7, <1>8, <1>9, out \in Nat \ {0} DEF delta
<1>11. delta * k \in Nat /\ delta * k <= delta * Hundred
  BY ONLY <1>1, <1>10, MulNat, MulMono
<1> HIDE DEF delta
<1>12. fee \in Nat /\ Hundred * fee <= delta * k
  BY ONLY <1>1, <1>11, DivFloor DEF fee
<1>13. fee <= delta
  <2>1. fee * Hundred <= delta * Hundred
    BY ONLY <1>1, <1>10, <1>11, <1>12
  <2> QED
    BY ONLY <1>1, <1>10, <1>12, <2>1, MulCancel
<1> HIDE DEF fee
<1>14. pays \in Nat /\ pays <= delta
  BY ONLY <1>10, <1>12, <1>13 DEF pays
<1>15. taker \in Nat
  BY <1>1, <1>3, <1>14
<1> HIDE DEF taker, pays
<1>16. pays - taker \in Nat /\ pays - taker >= 1
  BY <1>2, <1>14, <1>15 DEF t
<1>17. out - pays \in Nat /\ c <= out - pays
  BY ONLY <1>7, <1>10, <1>14, out \in Nat \ {0} DEF delta
<1>18. new * (out - pays) >= in * out
  <2>1. new * c <= new * (out - pays)
    BY ONLY <1>5, <1>7, <1>17, MulMono
  <2>2. new * c \in Nat /\ new * (out - pays) \in Nat
    BY ONLY <1>5, <1>7, <1>17, MulNat
  <2> QED
    BY ONLY <1>1, <1>7, <2>1, <2>2
<1>19. pays < out
  BY ONLY <1>10, <1>14, out \in Nat \ {0}
<1>20. /\ t.maker \in Nat /\ t.taker \in Nat /\ t.receives \in Nat /\ t.gets \in Nat
       /\ t.pays \in Nat /\ t.pays < out
       /\ t.receives + t.maker = n /\ t.gets + t.taker = t.pays
       /\ (in + t.receives) * (out - t.pays) >= in * out
  BY ONLY <1>2, <1>4, <1>14, <1>15, <1>16, <1>18, <1>19, n \in Nat \ {0} DEF new
<1> QED
  BY ONLY <1>20 DEF t

-----------------------------------------------------------------------------
(* Liquidity pools: every step keeps the invariant and what a share is worth. *)

\* The pool with new balances.
LEMMA PoolWithIs ==
  ASSUME lPool \in PoolObject, NEW a \in Nat, NEW b \in Nat, lPool' = L!PoolWith(a, b)
  PROVE  lPool' \in PoolObject /\ lPool'.a = a /\ lPool'.b = b /\ lPool'.virtual = lPool'.a * lPool'.b
<1>1. a * b \in Nat
  BY MulNat
<1> DEFINE v == a * b
<1>2. v \in Nat /\ lPool' = [lPool EXCEPT !.a = a, !.b = b, !.virtual = v]
  BY <1>1 DEF L!PoolWith
<1> HIDE DEF v
<1>3. lPool' \in PoolObject /\ lPool'.a = a /\ lPool'.b = b /\ lPool'.virtual = v
  BY ONLY <1>2, lPool \in PoolObject, a \in Nat, b \in Nat DEF PoolObject
<1> QED
  BY <1>3 DEF v

\* What an account gives goes to the pool or to the fees, and conversely.
LEMMA PoolMoves ==
  ASSUME L!PoolAssumption, LInv, NEW x \in L!Accounts, NEW da \in Int, NEW db \in Int, NEW ds \in Int,
         L!Adjust(x, da, db, ds), lPool' \in PoolObject, lFees' \in [a : Nat, b : Nat],
         lPool'.a + lFees'.a + da = lPool.a + lFees.a, lPool'.b + lFees'.b + db = lPool.b + lFees.b,
         lSupply' = lSupply + ds, lSupply' <= PoolSupply, lExists' = lExists, LShape'
  PROVE  LInv'
<1>1. LTypes /\ LAdds
  BY DEF LInv
<1>2. lBal \in [L!Accounts -> Holding]
  BY <1>1 DEF LTypes
<1> DEFINE A == SumOver(L!AOf, L!Accounts)
           B == SumOver(L!BOf, L!Accounts)
           H == SumOver(L!SharesOf, L!Accounts)
<1>3. /\ lBal' \in [L!Accounts -> Holding] /\ A \in Nat /\ B \in Nat /\ H \in Nat
      /\ A' = A + da /\ B' = B + db /\ H' = H + ds /\ H' \in Nat
  BY <1>2, AdjustAdds
<1>4. /\ A + lPool.a + lFees.a = WealthA * Cardinality(L!Accounts)
      /\ B + lPool.b + lFees.b = WealthB * Cardinality(L!Accounts)
      /\ H = lSupply
  BY <1>1 DEF LAdds
<1>5. /\ lPool.a \in Nat /\ lPool.b \in Nat /\ lFees.a \in Nat /\ lFees.b \in Nat
      /\ lPool'.a \in Nat /\ lPool'.b \in Nat /\ lFees'.a \in Nat /\ lFees'.b \in Nat
  BY <1>1 DEF LTypes, PoolObject
<1>6. A' + lPool'.a + lFees'.a = A + lPool.a + lFees.a /\ B' + lPool'.b + lFees'.b = B + lPool.b + lFees.b
  <2> HIDE DEF A, B
  <2> QED
    BY <1>3, <1>5
<1>7. H' = lSupply'
  BY <1>3, <1>4
<1>8. LAdds'
  BY <1>4, <1>6, <1>7 DEF LAdds
<1>9. lSupply' \in 0..PoolSupply
  <2>1. lSupply' \in Nat
    BY <1>3, <1>7
  <2> QED
    BY <2>1, PoolConstants
<1>10. LTypes'
  BY <1>1, <1>3, <1>9 DEF LTypes
<1> QED
  BY <1>8, <1>10 DEF LInv

\* A deposit.
LEMMA PoolDeposit ==
  ASSUME L!PoolAssumption, LInv, NEW x \in L!Accounts, NEW a \in Deposits, NEW b \in Deposits,
         L!liquidity_pool_deposit(x, a, b)
  PROVE  LInv' /\ L!WorthKept
<1> DEFINE t == L!DepositTerms(a, b)
           A == lPool.a
           B == lPool.b
           s == lSupply
<1>1. a \in Nat \ {0} /\ b \in Nat \ {0} /\ PoolSupply \in Nat
  BY PoolConstants
<1>2. LTypes /\ LShape
  BY DEF LInv
<1>3. A \in Nat /\ B \in Nat /\ s \in 0..PoolSupply /\ lPool \in PoolObject /\ lFees \in [a : Nat, b : Nat]
  BY <1>2 DEF LTypes, PoolObject
<1>4. /\ lExists /\ L!Adjust(x, -t.a, -t.b, t.new) /\ t.new > 0 /\ t.new <= PoolSupply - s
      /\ lPool' = L!PoolWith(A + t.a, B + t.b) /\ lSupply' = s + t.new /\ lExists' = lExists /\ lFees' = lFees
  BY DEF L!liquidity_pool_deposit
<1>5. /\ t.a \in Nat /\ t.b \in Nat /\ t.new \in Nat /\ A + t.a > 0 /\ B + t.b > 0
      /\ (A + t.a) * s >= A * (s + t.new) /\ (B + t.b) * s >= B * (s + t.new)
  <2>1. CASE A = 0
    <3>1. t.a = a /\ t.b = b /\ t.new = L!MaxOf(a, b) /\ s = 0 /\ B = 0
      BY <1>2, <2>1 DEF L!DepositTerms, LShape
    <3>2. t.new \in Nat
      BY <1>1, <3>1 DEF L!MaxOf
    <3> QED
      BY <1>1, <2>1, <3>1, <3>2
  <2>2. CASE A # 0
    <3>1. B > 0 /\ s > 0
      BY <1>2, <2>2 DEF LShape
    <3> DEFINE new == L!MinOf(L!MinOf((s * a) \div A, (s * b) \div B), PoolSupply - s)
    <3>2. t.a = L!CeilDiv(new * A, s) /\ t.b = L!CeilDiv(new * B, s) /\ t.new = new
      BY <2>2 DEF L!DepositTerms
    <3>3. new \in Nat
      <4>1. s * a \in Nat /\ s * b \in Nat
        BY <1>1, <1>3, MulNat
      <4>2. (s * a) \div A \in Nat /\ (s * b) \div B \in Nat
        BY <1>3, <2>2, <3>1, <4>1, DivFloor
      <4> QED
        BY <1>1, <1>3, <4>2 DEF L!MinOf
    <3> HIDE DEF new
    <3>4. s \in Nat \ {0} /\ A \in Nat \ {0} /\ B \in Nat \ {0}
      BY <1>3, <2>2, <3>1
    <3>5. L!CeilDiv(new * A, s) \in Nat /\ (A + L!CeilDiv(new * A, s)) * s >= A * (s + new)
      BY <3>3, <3>4, PaysEnough
    <3>6. L!CeilDiv(new * B, s) \in Nat /\ (B + L!CeilDiv(new * B, s)) * s >= B * (s + new)
      BY <3>3, <3>4, PaysEnough
    <3>7. A + t.a > 0 /\ B + t.b > 0
      BY <3>2, <3>4, <3>5, <3>6
    <3> QED
      BY <3>2, <3>3, <3>5, <3>6, <3>7
  <2> QED
    BY <2>1, <2>2
<1> HIDE DEF t
<1>6. A + t.a \in Nat /\ B + t.b \in Nat
  BY <1>3, <1>5
<1>7. /\ lPool' \in PoolObject /\ lPool'.a = A + t.a /\ lPool'.b = B + t.b /\ lPool'.virtual = lPool'.a * lPool'.b
  <2> DEFINE a1 == A + t.a
             b1 == B + t.b
  <2>1. a1 \in Nat /\ b1 \in Nat /\ lPool \in PoolObject /\ lPool' = L!PoolWith(a1, b1)
    BY <1>3, <1>4, <1>6
  <2> HIDE DEF a1, b1
  <2>2. lPool' \in PoolObject /\ lPool'.a = a1 /\ lPool'.b = b1 /\ lPool'.virtual = lPool'.a * lPool'.b
    BY <2>1, PoolWithIs, Zenon
  <2> QED
    BY <2>2 DEF a1, b1
<1>8. lSupply' > 0 /\ lSupply' <= PoolSupply
  BY <1>1, <1>3, <1>4, <1>5
<1>9. LShape'
  BY <1>4, <1>5, <1>7, <1>8 DEF LShape
<1>10. LInv'
  <2>1. lFees.a \in Nat /\ lFees.b \in Nat
    BY <1>3
  <2>2. lPool'.a + lFees'.a + (-t.a) = A + lFees.a /\ lPool'.b + lFees'.b + (-t.b) = B + lFees.b
    BY <1>3, <1>4, <1>5, <1>7, <2>1
  <2>3. -t.a \in Int /\ -t.b \in Int /\ t.new \in Int
    BY <1>5
  <2> QED
    BY <1>3, <1>4, <1>7, <1>8, <1>9, <2>2, <2>3, PoolMoves
<1>11. L!WorthKept
  <2>1. lSupply' \in Nat /\ s \in Nat
    BY <1>3, <1>4, <1>5
  <2>2. lPool'.a * s >= A * lSupply' /\ lPool'.b * s >= B * lSupply'
    BY <1>4, <1>5, <1>7
  <2>3. lPool'.a * lPool'.b * s * s >= A * B * lSupply' * lSupply'
    BY <1>3, <1>6, <1>7, <2>1, <2>2, ProductGrows
  <2> QED
    BY <2>3 DEF L!WorthKept
<1> QED
  BY <1>10, <1>11

\* A withdrawal.
LEMMA PoolWithdraw ==
  ASSUME L!PoolAssumption, LInv, NEW x \in L!Accounts, NEW n \in Shares, L!liquidity_pool_withdraw(x, n)
  PROVE  LInv' /\ L!WorthKept
<1> DEFINE A == lPool.a
           B == lPool.b
           s == lSupply
           pa == L!Pays(n, A)
           pb == L!Pays(n, B)
<1>1. n \in Nat \ {0} /\ PoolSupply \in Nat
  BY PoolConstants
<1>2. LTypes /\ LShape
  BY DEF LInv
<1>3. A \in Nat /\ B \in Nat /\ s \in 0..PoolSupply /\ lPool \in PoolObject /\ lFees \in [a : Nat, b : Nat]
  BY <1>2 DEF LTypes, PoolObject
<1>4. /\ lExists /\ A > 0 /\ B > 0 /\ s >= n /\ L!Adjust(x, pa, pb, -n)
      /\ lPool' = L!PoolWith(A - pa, B - pb) /\ lSupply' = s - n /\ lExists' = lExists /\ lFees' = lFees
  BY DEF L!liquidity_pool_withdraw
<1>5. /\ pa \in Nat /\ pb \in Nat /\ A - pa \in Nat /\ B - pb \in Nat
      /\ IF n = s THEN A - pa = 0 /\ B - pb = 0
         ELSE /\ A - pa > 0 /\ B - pb > 0
              /\ (A - pa) * s >= A * (s - n) /\ (B - pb) * s >= B * (s - n)
  <2>1. CASE n = s
    <3>1. pa = A /\ pb = B
      BY <2>1 DEF L!Pays
    <3> QED
      BY <1>3, <2>1, <3>1
  <2>2. CASE n # s
    <3>1. n < s
      BY <1>1, <1>3, <1>4, <2>2
    <3>2. pa \in Nat /\ pa < A /\ (A - pa) * s >= A * (s - n)
      BY <1>1, <1>2, <1>3, <1>4, <3>1, PaysShare
    <3>3. pb \in Nat /\ pb < B /\ (B - pb) * s >= B * (s - n)
      BY <1>1, <1>2, <1>3, <1>4, <3>1, PaysShare
    <3> HIDE DEF pa, pb
    <3> QED
      BY <1>3, <2>2, <3>2, <3>3
  <2> QED
    BY <2>1, <2>2
<1> HIDE DEF pa, pb
<1>6. /\ lPool' \in PoolObject /\ lPool'.a = A - pa /\ lPool'.b = B - pb /\ lPool'.virtual = lPool'.a * lPool'.b
  <2> DEFINE a1 == A - pa
             b1 == B - pb
  <2>1. a1 \in Nat /\ b1 \in Nat /\ lPool \in PoolObject /\ lPool' = L!PoolWith(a1, b1)
    BY <1>3, <1>4, <1>5
  <2> HIDE DEF a1, b1
  <2>2. lPool' \in PoolObject /\ lPool'.a = a1 /\ lPool'.b = b1 /\ lPool'.virtual = lPool'.a * lPool'.b
    BY <2>1, PoolWithIs, Zenon
  <2> QED
    BY <2>2 DEF a1, b1
<1>7. lSupply' \in Nat /\ lSupply' <= PoolSupply /\ s \in Nat /\ (lSupply' > 0 <=> n # s)
  BY <1>1, <1>3, <1>4
<1>8. LShape'
  BY <1>4, <1>5, <1>6, <1>7 DEF LShape
<1>9. LInv'
  <2>1. lFees.a \in Nat /\ lFees.b \in Nat
    BY <1>3
  <2>2. lPool'.a + lFees'.a + pa = A + lFees.a /\ lPool'.b + lFees'.b + pb = B + lFees.b
    <3>1. lPool'.a = A - pa /\ lPool'.b = B - pb /\ lFees'.a = lFees.a /\ lFees'.b = lFees.b
      BY <1>4, <1>6
    <3>2. A \in Nat /\ B \in Nat /\ pa \in Nat /\ pb \in Nat
      BY <1>3, <1>5
    <3> HIDE DEF A, B
    <3> QED
      BY ONLY <2>1, <3>1, <3>2
  <2>3. pa \in Int /\ pb \in Int /\ -n \in Int /\ lSupply' = s + (-n)
    BY <1>1, <1>3, <1>4, <1>5
  <2> QED
    BY <1>3, <1>4, <1>6, <1>7, <1>8, <2>2, <2>3, PoolMoves
<1>10. L!WorthKept
  <2>1. SUFFICES ASSUME lSupply' > 0 PROVE lPool'.a * lPool'.b * s * s >= A * B * lSupply' * lSupply'
    BY DEF L!WorthKept
  <2>2. lPool'.a * s >= A * lSupply' /\ lPool'.b * s >= B * lSupply'
    BY <1>4, <1>5, <1>6, <1>7, <2>1
  <2> QED
    BY <1>3, <1>5, <1>6, <1>7, <2>2, ProductGrows
<1> QED
  BY <1>9, <1>10

\* An exchange, of either asset.
LEMMA PoolExchange ==
  ASSUME L!PoolAssumption, LInv, NEW x \in L!Accounts, NEW n \in Sales, NEW sells \in {"a", "b"},
         L!liquidity_pool_exchange(x, n, sells)
  PROVE  LInv' /\ L!WorthKept
<1> DEFINE A == lPool.a
           B == lPool.b
           s == lSupply
<1>1. n \in Nat \ {0}
  BY PoolConstants
<1>2. LTypes /\ LShape
  BY DEF LInv
<1>3. /\ A \in Nat /\ B \in Nat /\ s \in 0..PoolSupply /\ s \in Nat /\ lPool \in PoolObject
      /\ lFees \in [a : Nat, b : Nat] /\ lFees.a \in Nat /\ lFees.b \in Nat
  BY PoolConstants, <1>2 DEF LTypes, PoolObject
<1>4. /\ lExists /\ A > 0 /\ B > 0 /\ lExists' = lExists /\ lSupply' = s
  BY DEF L!liquidity_pool_exchange
<1>5. s > 0 /\ lPool.virtual = A * B /\ lPool.virtual = B * A
  BY <1>2, <1>3, <1>4 DEF LShape
\* It is enough to look at the new balances.
<1>6. ASSUME NEW da \in Int, NEW db \in Int, NEW a1 \in Nat \ {0}, NEW b1 \in Nat \ {0}, a1 * b1 >= A * B,
             L!Adjust(x, da, db, 0), lPool' = L!PoolWith(a1, b1), lFees' \in [a : Nat, b : Nat],
             a1 + lFees'.a + da = A + lFees.a, b1 + lFees'.b + db = B + lFees.b
      PROVE  LInv' /\ L!WorthKept
  <2>1. /\ lPool' \in PoolObject /\ lPool'.a = a1 /\ lPool'.b = b1 /\ lPool'.virtual = lPool'.a * lPool'.b
    <3>1. lPool \in PoolObject /\ a1 \in Nat /\ b1 \in Nat /\ lPool' = L!PoolWith(a1, b1)
      BY <1>3, <1>6
    <3> QED
      BY <3>1, PoolWithIs, Zenon
  <2>2. LShape'
    BY <1>4, <1>5, <2>1 DEF LShape
  <2>3. lSupply' = s + 0 /\ lSupply' <= PoolSupply /\ 0 \in Int
    BY <1>3, <1>4, PoolConstants
  <2>4. LInv'
    BY <1>3, <1>4, <1>6, <2>1, <2>2, <2>3, PoolMoves
  <2>5. a1 * b1 * s * s >= A * B * s * s
    <3>1. a1 * b1 \in Nat /\ A * B \in Nat /\ s * s \in Nat
      BY <1>3, <1>6, MulNat
    <3>2. (A * B) * (s * s) <= (a1 * b1) * (s * s)
      BY ONLY <1>6, <3>1, MulMono
    <3>3. (A * B) * (s * s) = A * B * s * s /\ (a1 * b1) * (s * s) = a1 * b1 * s * s
      BY ONLY <1>3, a1 \in Nat \ {0}, b1 \in Nat \ {0}
    <3> QED
      BY <3>2, <3>3, <3>1, MulNat
  <2> QED
    BY <1>4, <2>1, <2>4, <2>5 DEF L!WorthKept
<1>7. CASE sells = "a"
  <2> DEFINE t == L!ExchangeTerms(n, A, B)
  <2>1. /\ t.maker < n /\ t.gets >= 1 /\ L!Adjust(x, -n, t.gets, 0)
        /\ lFees' = [a |-> lFees.a + t.maker, b |-> lFees.b + t.taker]
        /\ lPool' = L!PoolWith(A + t.receives, B - t.pays)
    BY <1>7 DEF L!liquidity_pool_exchange
  <2>2. A \in Nat \ {0} /\ B \in Nat \ {0}
    BY <1>3, <1>4
  <2>3. /\ t.maker \in Nat /\ t.taker \in Nat /\ t.receives \in Nat /\ t.gets \in Nat
        /\ t.pays \in Nat /\ t.pays < B
        /\ t.receives + t.maker = n /\ t.gets + t.taker = t.pays
        /\ (A + t.receives) * (B - t.pays) >= A * B
    BY <1>1, <1>2, <1>4, <1>5, <2>1, <2>2, ExchangeIs
  <2> HIDE DEF t
  <2>4. A + t.receives \in Nat \ {0} /\ B - t.pays \in Nat \ {0} /\ -n \in Int /\ t.gets \in Int
    BY <1>1, <2>2, <2>3
  <2>5. /\ lFees' \in [a : Nat, b : Nat]
        /\ (A + t.receives) + lFees'.a + (-n) = A + lFees.a /\ (B - t.pays) + lFees'.b + t.gets = B + lFees.b
    <3>1. lFees'.a = lFees.a + t.maker /\ lFees'.b = lFees.b + t.taker
      BY <2>1
    <3>2. lFees' \in [a : Nat, b : Nat]
      BY <1>3, <2>1, <2>3
    <3>3. A \in Nat /\ B \in Nat /\ lFees.a \in Nat /\ lFees.b \in Nat /\ n \in Nat
      BY <1>1, <1>3
    <3>4. /\ t.maker \in Nat /\ t.taker \in Nat /\ t.receives \in Nat /\ t.gets \in Nat /\ t.pays \in Nat
          /\ t.receives + t.maker = n /\ t.gets + t.taker = t.pays
      BY <2>3
    <3> HIDE DEF A, B
    <3>5. (A + t.receives) + lFees'.a + (-n) = A + lFees.a
      BY ONLY <3>1, <3>3, <3>4
    <3>6. (B - t.pays) + lFees'.b + t.gets = B + lFees.b
      BY ONLY <3>1, <3>3, <3>4
    <3> QED
      BY <3>2, <3>5, <3>6
  <2> QED
    BY <1>6, <2>1, <2>3, <2>4, <2>5
<1>8. CASE sells = "b"
  <2> DEFINE t == L!ExchangeTerms(n, B, A)
  <2>1. /\ t.maker < n /\ t.gets >= 1 /\ L!Adjust(x, t.gets, -n, 0)
        /\ lFees' = [a |-> lFees.a + t.taker, b |-> lFees.b + t.maker]
        /\ lPool' = L!PoolWith(A - t.pays, B + t.receives)
    BY <1>8 DEF L!liquidity_pool_exchange
  <2>2. A \in Nat \ {0} /\ B \in Nat \ {0}
    BY <1>3, <1>4
  <2>3. /\ t.maker \in Nat /\ t.taker \in Nat /\ t.receives \in Nat /\ t.gets \in Nat
        /\ t.pays \in Nat /\ t.pays < A
        /\ t.receives + t.maker = n /\ t.gets + t.taker = t.pays
        /\ (B + t.receives) * (A - t.pays) >= B * A
    BY <1>1, <1>2, <1>4, <1>5, <2>1, <2>2, ExchangeIs
  <2> HIDE DEF t
  <2>4. B + t.receives \in Nat \ {0} /\ A - t.pays \in Nat \ {0} /\ -n \in Int /\ t.gets \in Int
    BY <1>1, <2>2, <2>3
  <2>5. /\ lFees' \in [a : Nat, b : Nat]
        /\ (B + t.receives) + lFees'.b + (-n) = B + lFees.b /\ (A - t.pays) + lFees'.a + t.gets = A + lFees.a
    <3>1. lFees'.a = lFees.a + t.taker /\ lFees'.b = lFees.b + t.maker
      BY <2>1
    <3>2. lFees' \in [a : Nat, b : Nat]
      BY <1>3, <2>1, <2>3
    <3>3. A \in Nat /\ B \in Nat /\ lFees.a \in Nat /\ lFees.b \in Nat /\ n \in Nat
      BY <1>1, <1>3
    <3>4. /\ t.maker \in Nat /\ t.taker \in Nat /\ t.receives \in Nat /\ t.gets \in Nat /\ t.pays \in Nat
          /\ t.receives + t.maker = n /\ t.gets + t.taker = t.pays
      BY <2>3
    <3> HIDE DEF A, B
    <3>5. (B + t.receives) + lFees'.b + (-n) = B + lFees.b
      BY ONLY <3>1, <3>3, <3>4
    <3>6. (A - t.pays) + lFees'.a + t.gets = A + lFees.a
      BY ONLY <3>1, <3>3, <3>4
    <3> QED
      BY <3>2, <3>5, <3>6
  <2>6. (A - t.pays) * (B + t.receives) >= A * B
    <3> DEFINE u == A - t.pays
               v == B + t.receives
    <3>1. u \in Int /\ v \in Int /\ v * u >= B * A
      BY <2>3, <2>4
    <3> HIDE DEF u, v
    <3>2. u * v >= A * B
      BY ONLY <3>1, <2>2
    <3> QED
      BY <3>2 DEF u, v
  <2> QED
    BY <1>6, <2>1, <2>3, <2>4, <2>5, <2>6
<1> QED
  BY <1>7, <1>8

\* A pool with nothing in it.
LEMMA PoolIs ==
  ASSUME NEW t \in 0..Hundred, NEW w \in 0..Hundred
  PROVE  [a |-> 0, b |-> 0, virtual |-> 0, taker |-> t, withdrawal |-> w] \in PoolObject
<1>1. 0 \in Nat
  OBVIOUS
<1> QED
  BY <1>1, Zenon DEF PoolObject

\* Shares are burned.
LEMMA PoolReserve ==
  ASSUME L!PoolAssumption, LInv, NEW x \in L!Accounts, NEW n \in Shares, L!asset_reserve(x, n)
  PROVE  LInv' /\ L!WorthKept
<1> DEFINE A == lPool.a
           B == lPool.b
           s == lSupply
           t == lSupply'
<1>1. n \in Nat \ {0} /\ PoolSupply \in Nat
  BY PoolConstants
<1>2. LTypes /\ LShape
  BY DEF LInv
<1>3. /\ A \in Nat /\ B \in Nat /\ s \in 0..PoolSupply /\ lPool \in PoolObject
      /\ lFees \in [a : Nat, b : Nat] /\ lFees.a \in Nat /\ lFees.b \in Nat
  BY <1>2 DEF LTypes, PoolObject
<1>4. /\ lExists /\ s > n /\ L!Adjust(x, 0, 0, -n) /\ t = s - n
      /\ lExists' = lExists /\ lPool' = lPool /\ lFees' = lFees
  BY DEF L!asset_reserve
<1>5. t \in Nat /\ t > 0 /\ t <= s /\ t <= PoolSupply /\ t = s + (-n) /\ -n \in Int /\ s \in Nat
  BY <1>1, <1>3, <1>4
<1>6. LShape'
  BY <1>2, <1>3, <1>4, <1>5 DEF LShape
<1>7. LInv'
  <2>1. lPool'.a + lFees'.a + 0 = A + lFees.a /\ lPool'.b + lFees'.b + 0 = B + lFees.b /\ 0 \in Int
    BY <1>3, <1>4
  <2> QED
    BY <1>3, <1>4, <1>5, <1>6, <2>1, PoolMoves
<1>8. L!WorthKept
  <2>1. A * s >= A * t /\ B * s >= B * t
    BY <1>3, <1>5, MulMono
  <2>2. A * B * s * s >= A * B * t * t
    BY <1>3, <1>5, <2>1, ProductGrows
  <2> QED
    BY <1>4, <2>2 DEF L!WorthKept
<1> QED
  BY <1>7, <1>8

\* The pool of a share asset is created, deleted and given other fees.
LEMMA PoolChanges ==
  ASSUME L!PoolAssumption, LInv,
         \/ \E t \in TakerFees, w \in WithdrawalFees : L!liquidity_pool_create(t, w)
         \/ L!liquidity_pool_delete
         \/ \E t \in TakerFees, d \in BOOLEAN : L!liquidity_pool_update(t, d)
  PROVE  LInv' /\ L!WorthKept
<1>1. LTypes /\ LShape /\ LAdds
  BY DEF LInv
<1>2. TakerFees \subseteq 0..Hundred /\ WithdrawalFees \subseteq 0..Hundred /\ Hundred \in Nat \ {0}
  BY PoolConstants
<1>3. lBal' = lBal /\ lSupply' = lSupply /\ lFees' = lFees
  BY Zenon DEF L!liquidity_pool_create, L!liquidity_pool_delete, L!liquidity_pool_update
<1>4. /\ lExists' \in BOOLEAN /\ lPool' \in PoolObject
      /\ lPool'.a = lPool.a /\ lPool'.b = lPool.b /\ lPool'.virtual = lPool.virtual
      /\ lSupply > 0 => lExists'
  <2>1. CASE \E t \in TakerFees, w \in WithdrawalFees : L!liquidity_pool_create(t, w)
    <3>1. PICK t \in TakerFees, w \in WithdrawalFees : L!liquidity_pool_create(t, w)
      BY <2>1
    <3>2. /\ lSupply = 0 /\ lExists' = TRUE /\ lPool' = [a |-> 0, b |-> 0, virtual |-> 0, taker |-> t, withdrawal |-> w]
      BY <3>1, Zenon DEF L!liquidity_pool_create, L!NoPool
    <3>3. lPool.a = 0 /\ lPool.b = 0 /\ lPool.virtual = 0
      BY <1>1, <3>2 DEF LShape
    <3>4. t \in 0..Hundred /\ w \in 0..Hundred
      BY <1>2
    <3>5. lPool' \in PoolObject /\ lPool'.a = 0 /\ lPool'.b = 0 /\ lPool'.virtual = 0
      BY <3>2, <3>4, PoolIs
    <3> QED
      BY <3>2, <3>3, <3>5
  <2>2. CASE L!liquidity_pool_delete
    <3>1. /\ lPool.a = 0 /\ lPool.b = 0 /\ lExists' = FALSE
          /\ lPool' = [a |-> 0, b |-> 0, virtual |-> 0, taker |-> 0, withdrawal |-> 0]
      BY <2>2 DEF L!liquidity_pool_delete, L!NoPool
    <3>2. lSupply = 0 /\ lPool.virtual = 0
      BY <1>1, <3>1 DEF LShape
    <3>3. 0 \in 0..Hundred
      BY <1>2
    <3>4. lPool' \in PoolObject /\ lPool'.a = 0 /\ lPool'.b = 0 /\ lPool'.virtual = 0
      BY <3>1, <3>3, PoolIs
    <3>5. ~(lSupply > 0)
      BY <3>2
    <3>6. lExists' \in BOOLEAN
      BY <3>1, Zenon
    <3> QED
      BY <3>1, <3>2, <3>4, <3>5, <3>6, Zenon
  <2>3. CASE \E t \in TakerFees, d \in BOOLEAN : L!liquidity_pool_update(t, d)
    <3>1. PICK t \in TakerFees, d \in BOOLEAN : L!liquidity_pool_update(t, d)
      BY <2>3
    <3>2. /\ lExists /\ lExists' = lExists
          /\ lPool' = [lPool EXCEPT !.taker = t, !.withdrawal = IF d THEN 0 ELSE lPool.withdrawal]
      BY <3>1, Zenon DEF L!liquidity_pool_update
    <3>3. lPool \in PoolObject /\ lExists \in BOOLEAN
      BY <1>1 DEF LTypes
    <3> DEFINE w == IF d THEN 0 ELSE lPool.withdrawal
    <3>4. t \in 0..Hundred /\ w \in 0..Hundred
      BY <1>2, <3>3 DEF PoolObject
    <3> HIDE DEF w
    <3>5. lPool' = [lPool EXCEPT !.taker = t, !.withdrawal = w]
      BY <3>2 DEF w
    <3>6. lPool' \in PoolObject /\ lPool'.a = lPool.a /\ lPool'.b = lPool.b /\ lPool'.virtual = lPool.virtual
      BY ONLY <3>3, <3>4, <3>5 DEF PoolObject
    <3> QED
      BY <3>2, <3>3, <3>6
  <2> QED
    BY <2>1, <2>2, <2>3
<1>5. LShape'
  BY <1>1, <1>3, <1>4 DEF LShape, LTypes
<1>6. LTypes'
  BY <1>1, <1>3, <1>4 DEF LTypes
<1>7. LAdds'
  BY <1>1, <1>3, <1>4 DEF LAdds, L!AOf, L!BOf, L!SharesOf
<1>8. L!WorthKept
  <2>1. lPool.a \in Nat /\ lPool.b \in Nat /\ lSupply \in Nat
    BY <1>1, PoolConstants DEF LTypes, PoolObject
  <2>2. lPool.a * lPool.b * lSupply * lSupply >= lPool.a * lPool.b * lSupply * lSupply
    BY <2>1
  <2> QED
    BY <1>3, <1>4, <2>2 DEF L!WorthKept
<1> QED
  BY <1>5, <1>6, <1>7, <1>8 DEF LInv

\* Every step.
LEMMA PoolStep ==
  ASSUME L!PoolAssumption, LInv, [L!Next]_L!vars
  PROVE  LInv' /\ [L!WorthKept]_L!vars
<1>1. CASE UNCHANGED L!vars
  <2>1. LInv'
    BY <1>1 DEF L!vars, LInv, LTypes, LShape, LAdds, L!AOf, L!BOf, L!SharesOf
  <2> QED
    BY <1>1, <2>1
<1>2. CASE \E x \in L!Accounts, a \in Deposits, b \in Deposits : L!liquidity_pool_deposit(x, a, b)
  BY <1>2, PoolDeposit
<1>3. CASE \E x \in L!Accounts, n \in Shares : L!liquidity_pool_withdraw(x, n)
  BY <1>3, PoolWithdraw
<1>4. CASE \E x \in L!Accounts, n \in Sales, s \in {"a", "b"} : L!liquidity_pool_exchange(x, n, s)
  BY <1>4, PoolExchange
<1>5. CASE \E x \in L!Accounts, n \in Shares : L!asset_reserve(x, n)
  BY <1>5, PoolReserve
<1>6. CASE \/ \E t \in TakerFees, w \in WithdrawalFees : L!liquidity_pool_create(t, w)
           \/ L!liquidity_pool_delete
           \/ \E t \in TakerFees, d \in BOOLEAN : L!liquidity_pool_update(t, d)
  BY <1>6, PoolChanges
<1> QED
  BY <1>1, <1>2, <1>3, <1>4, <1>5, <1>6 DEF L!Next

\* The initial state.
LEMMA PoolInit ==
  ASSUME L!PoolAssumption, L!Init
  PROVE  LInv
<1>1. /\ WealthA \in Nat /\ WealthB \in Nat /\ PoolSupply \in Nat /\ Hundred \in Nat \ {0}
      /\ IsFiniteSet(L!Accounts)
  BY PoolConstants
<1>2. /\ lBal = [x \in L!Accounts |-> [a |-> WealthA, b |-> WealthB, share |-> 0]]
      /\ lExists = FALSE /\ lPool = [a |-> 0, b |-> 0, virtual |-> 0, taker |-> 0, withdrawal |-> 0]
      /\ lSupply = 0 /\ lFees = [a |-> 0, b |-> 0]
  BY DEF L!Init, L!NoPool
<1>3. LTypes
  <2>1. 0 \in 0..Hundred /\ 0 \in 0..PoolSupply /\ 0 \in Nat
    BY <1>1
  <2>2. lPool \in PoolObject
    BY <1>2, <2>1, PoolIs
  <2>3. lBal \in [L!Accounts -> Holding]
    BY <1>1, <1>2, <2>1, Zenon DEF Holding
  <2>4. lFees \in [a : Nat, b : Nat]
    BY <1>2, <2>1, Zenon
  <2> QED
    BY <1>2, <2>1, <2>2, <2>3, <2>4 DEF LTypes
<1>4. LShape
  BY <1>2 DEF LShape
<1>5. LAdds
  <2> DEFINE S == L!Accounts
             f == L!AOf
             g == L!BOf
             h == L!SharesOf
  <2>1. (\A x \in S : f[x] = WealthA) /\ (\A x \in S : g[x] = WealthB) /\ (\A x \in S : h[x] = 0)
    BY <1>2 DEF L!AOf, L!BOf, L!SharesOf
  <2>2. IsFiniteSet(S)
    BY <1>1
  <2> HIDE DEF S, f, g, h
  <2>3. SumOver(f, S) = WealthA * Cardinality(S)
    BY ONLY <1>1, <2>1, <2>2, SumConstant
  <2>4. SumOver(g, S) = WealthB * Cardinality(S)
    BY ONLY <1>1, <2>1, <2>2, SumConstant
  <2>5. SumOver(h, S) = 0 * Cardinality(S)
    BY ONLY <2>1, <2>2, SumConstant
  <2>6. Cardinality(S) \in Nat
    BY <2>2, FS_CardinalityType
  <2>7. WealthA * Cardinality(S) \in Nat /\ WealthB * Cardinality(S) \in Nat /\ 0 * Cardinality(S) = 0
    BY ONLY <1>1, <2>6, MulNat
  <2>8. lPool.a = 0 /\ lPool.b = 0 /\ lFees.a = 0 /\ lFees.b = 0 /\ lSupply = 0
    BY <1>2
  <2>9. /\ SumOver(f, S) + lPool.a + lFees.a = WealthA * Cardinality(S)
        /\ SumOver(g, S) + lPool.b + lFees.b = WealthB * Cardinality(S)
        /\ SumOver(h, S) = lSupply
    BY ONLY <2>3, <2>4, <2>5, <2>7, <2>8
  <2> QED
    BY <2>9 DEF LAdds, S, f, g, h
<1> QED
  BY <1>3, <1>4, <1>5 DEF LInv

\* What the invariant says of the properties.
LEMMA PoolInvIs ==
  ASSUME L!PoolAssumption, LInv
  PROVE  L!TypeOK /\ L!Conserved /\ L!EmptyTogether
<1>1. LTypes /\ LShape /\ LAdds
  BY DEF LInv
<1>2. L!TypeOK
  BY <1>1 DEF LTypes, L!TypeOK, Holding, PoolObject
<1>3. L!EmptyTogether
  <2>1. lPool.a \in Nat /\ lPool.b \in Nat /\ lSupply \in Nat
    BY <1>1, PoolConstants DEF LTypes, PoolObject
  <2> QED
    BY <1>1, <2>1 DEF LShape, L!EmptyTogether
<1> QED
  BY <1>1, <1>2, <1>3, PoolAdds

\* The inductive invariant.
LEMMA PoolInvariant ==
  ASSUME L!PoolAssumption
  PROVE  L!Spec => []LInv
<1>1. L!Init => LInv
  BY PoolInit
<1>2. LInv /\ [L!Next]_L!vars => LInv'
  BY PoolStep
<1> QED
  BY <1>1, <1>2, PTL DEF L!Spec

\* Whatever is rounded and whichever fees are taken in deposits, withdrawals and
\* exchanges, both assets and the shares add up (liquidity_pool_evaluator.cpp).
THEOREM PoolConserves ==
  ASSUME L!PoolAssumption
  PROVE  L!Spec => [](L!TypeOK /\ L!Conserved)
<1>1. LInv => L!TypeOK /\ L!Conserved
  BY PoolInvIs
<1> QED
  BY <1>1, PoolInvariant, PTL

\* For every amount, fee and number of accounts: a pool is empty exactly when nobody
\* has a share of it, and no operation of anybody makes a share worth less
\* (liquidity_pool_evaluator.cpp).
THEOREM PoolIsFair ==
  ASSUME L!PoolAssumption
  PROVE  L!Spec => L!PoolFair
<1>1. LInv => L!EmptyTogether
  BY PoolInvIs
<1>2. LInv /\ [L!Next]_L!vars => [L!WorthKept]_L!vars
  BY PoolStep
<1> QED
  BY <1>1, <1>2, PoolInvariant, PTL DEF L!Spec, L!PoolFair, L!NoDilution

-----------------------------------------------------------------------------
(* Prediction markets: the inductive invariant.                            *)

MTypes ==
  /\ mDebt \in [Bettors -> Nat] /\ mBal \in [Bettors -> Nat] /\ mCore \in [Bettors -> Nat]
  /\ mSupply \in 0..TokenSupply /\ mPrice \in Nat \X Nat /\ mFund \in Nat

\* Collateral and tokens add up.
MAdds ==
  /\ SumOver(mCore, Bettors) + SumOver(mDebt, Bettors) + mFund = Cardinality(Bettors) * BetCore
  /\ SumOver(mBal, Bettors) = mSupply
  /\ ~PM!GloballySettled => SumOver(mDebt, Bettors) = mSupply /\ mFund = 0

\* The fund is worth the tokens.
MCovers ==
  PM!GloballySettled =>
    /\ mPrice[1] > 0
    /\ mFund * mPrice[1] >= mPrice[2] * mSupply
    /\ mSupply = 0 => mFund = 0

MInv == MTypes /\ MAdds /\ MCovers

\* What the constants are.
LEMMA PredictionConstants ==
  ASSUME PM!PredictionAssumption
  PROVE  /\ IsFiniteSet(Bettors) /\ Cardinality(Bettors) \in Nat
         /\ Outcomes \subseteq (Nat \ {0}) \X Nat /\ Deltas \subseteq Int
         /\ BetCore \in Nat /\ TokenSupply \in Nat
<1>1. IsFiniteSet(Bettors)
  BY DEF PM!PredictionAssumption, PM!IsFiniteSet, IsFiniteSet
<1> QED
  BY <1>1, FS_CardinalityType DEF PM!PredictionAssumption

\* The sums in PredictionMarket are those of the lemmas.
LEMMA PredictionSums == \A f : PM!SumOf(f) = SumOver(f, Bettors)
BY DEF PM!SumOf, PM!SumOver, SumOver, PM!FoldFunctionOnSet, FoldFunctionOnSet, PM!MapThenFoldSet, MapThenFoldSet

-----------------------------------------------------------------------------
(* Prediction markets: every step.                                         *)

\* call_order_update
LEMMA PredictionBorrow ==
  ASSUME PM!PredictionAssumption, MInv, NEW a \in Bettors, NEW d \in Deltas, PM!call_order_update(a, d)
  PROVE  MInv' /\ PM!PaysForTokens
<1>1. /\ IsFiniteSet(Bettors) /\ d \in Int /\ TokenSupply \in Nat
  BY PredictionConstants
<1>2. MTypes /\ MAdds
  BY DEF MInv
<1>3. /\ ~PM!GloballySettled /\ mDebt[a] + d >= 0 /\ mSupply + d <= TokenSupply
      /\ mBal[a] + d >= 0 /\ mCore[a] - d >= 0
      /\ mDebt' = [mDebt EXCEPT ![a] = mDebt[a] + d] /\ mBal' = [mBal EXCEPT ![a] = mBal[a] + d]
      /\ mCore' = [mCore EXCEPT ![a] = mCore[a] - d] /\ mSupply' = mSupply + d
      /\ mPrice' = mPrice /\ mFund' = mFund
  BY DEF PM!call_order_update
<1>4. /\ mDebt \in [Bettors -> Nat] /\ mBal \in [Bettors -> Nat] /\ mCore \in [Bettors -> Nat]
      /\ mSupply \in Nat /\ mFund \in Nat
  BY <1>1, <1>2 DEF MTypes
<1>5. mDebt' \in [Bettors -> Nat] /\ mDebt'[a] = mDebt[a] + d /\ \A y \in Bettors \ {a} : mDebt[y] = mDebt'[y]
  BY <1>1, <1>3, <1>4
<1>6. mBal' \in [Bettors -> Nat] /\ mBal'[a] = mBal[a] + d /\ \A y \in Bettors \ {a} : mBal[y] = mBal'[y]
  BY <1>1, <1>3, <1>4
<1>7. mCore' \in [Bettors -> Nat] /\ mCore'[a] = mCore[a] + (-d) /\ \A y \in Bettors \ {a} : mCore[y] = mCore'[y]
  BY <1>1, <1>3, <1>4
<1>8. SumOver(mDebt, Bettors) \in Nat /\ SumOver(mDebt', Bettors) = SumOver(mDebt, Bettors) + d
  <2>1. /\ mDebt[a] \in Nat /\ SumOver(mDebt, Bettors) \in Nat /\ SumOver(mDebt', Bettors) \in Nat
        /\ SumOver(mDebt', Bettors) = SumOver(mDebt, Bettors) + mDebt'[a] - mDebt[a]
    BY ONLY <1>1, <1>4, <1>5, a \in Bettors, OneChanges
  <2> QED
    BY ONLY <1>1, <1>5, <2>1
<1>9. /\ SumOver(mBal, Bettors) \in Nat /\ SumOver(mBal', Bettors) = SumOver(mBal, Bettors) + d
      /\ SumOver(mBal', Bettors) \in Nat
  <2>1. /\ mBal[a] \in Nat /\ SumOver(mBal, Bettors) \in Nat /\ SumOver(mBal', Bettors) \in Nat
        /\ SumOver(mBal', Bettors) = SumOver(mBal, Bettors) + mBal'[a] - mBal[a]
    BY ONLY <1>1, <1>4, <1>6, a \in Bettors, OneChanges
  <2> QED
    BY ONLY <1>1, <1>6, <2>1
<1>10. SumOver(mCore, Bettors) \in Nat /\ SumOver(mCore', Bettors) = SumOver(mCore, Bettors) + (-d)
  <2>1. /\ mCore[a] \in Nat /\ SumOver(mCore, Bettors) \in Nat /\ SumOver(mCore', Bettors) \in Nat
        /\ SumOver(mCore', Bettors) = SumOver(mCore, Bettors) + mCore'[a] - mCore[a]
    BY ONLY <1>1, <1>4, <1>7, a \in Bettors, OneChanges
  <2> QED
    BY ONLY <1>1, <1>7, <2>1
<1>11. /\ SumOver(mCore, Bettors) + SumOver(mDebt, Bettors) + mFund = Cardinality(Bettors) * BetCore
       /\ SumOver(mBal, Bettors) = mSupply /\ SumOver(mDebt, Bettors) = mSupply /\ mFund = 0
  BY <1>2, <1>3 DEF MAdds
<1>12. /\ SumOver(mCore', Bettors) + SumOver(mDebt', Bettors) + mFund' = Cardinality(Bettors) * BetCore
       /\ SumOver(mBal', Bettors) = mSupply' /\ SumOver(mDebt', Bettors) = mSupply' /\ mFund' = 0
       /\ mSupply' \in Nat
  BY <1>1, <1>3, <1>8, <1>9, <1>10, <1>11
<1>13. MAdds'
  BY <1>12 DEF MAdds
<1>14. MTypes'
  BY <1>1, <1>2, <1>3, <1>5, <1>6, <1>7, <1>12 DEF MTypes
<1>15. MCovers' /\ PM!PaysForTokens
  BY <1>3 DEF MCovers, PM!PaysForTokens, PM!GloballySettled
<1> QED
  BY <1>13, <1>14, <1>15 DEF MInv

\* Tokens change hands.
LEMMA PredictionTransfer ==
  ASSUME PM!PredictionAssumption, MInv, NEW a \in Bettors, NEW b \in Bettors, NEW x, PM!Transfer(a, b, x)
  PROVE  MInv' /\ PM!PaysForTokens
<1>1. IsFiniteSet(Bettors) /\ TokenSupply \in Nat
  BY PredictionConstants
<1>2. MTypes /\ MAdds /\ MCovers
  BY DEF MInv
<1>3. /\ a # b /\ x \in 1..mBal[a] /\ mBal' = [mBal EXCEPT ![a] = mBal[a] - x, ![b] = mBal[b] + x]
      /\ mDebt' = mDebt /\ mCore' = mCore /\ mSupply' = mSupply /\ mPrice' = mPrice /\ mFund' = mFund
  BY DEF PM!Transfer
<1>4. mBal \in [Bettors -> Nat] /\ mSupply \in Nat
  BY <1>1, <1>2 DEF MTypes
<1>5. x \in Nat /\ mBal[a] - x \in Nat
  BY <1>3, <1>4
<1> DEFINE mid == [mBal EXCEPT ![a] = mBal[a] - x]
<1>6. mid \in [Bettors -> Nat] /\ mid[a] = mBal[a] + (-x) /\ \A y \in Bettors \ {a} : mBal[y] = mid[y]
  BY <1>4, <1>5
<1>7. mBal' \in [Bettors -> Nat] /\ mBal'[b] = mid[b] + x /\ \A y \in Bettors \ {b} : mid[y] = mBal'[y]
  BY <1>3, <1>4, <1>5, <1>6
<1> HIDE DEF mid
<1>8. SumOver(mBal, Bettors) \in Nat /\ SumOver(mid, Bettors) = SumOver(mBal, Bettors) + (-x)
  <2>1. /\ mBal[a] \in Nat /\ SumOver(mBal, Bettors) \in Nat /\ SumOver(mid, Bettors) \in Nat
        /\ SumOver(mid, Bettors) = SumOver(mBal, Bettors) + mid[a] - mBal[a]
    BY ONLY <1>1, <1>4, <1>6, a \in Bettors, OneChanges
  <2> QED
    BY ONLY <1>5, <1>6, <2>1
<1>9. SumOver(mid, Bettors) \in Nat /\ SumOver(mBal', Bettors) = SumOver(mid, Bettors) + x
  <2>1. /\ mid[b] \in Nat /\ SumOver(mid, Bettors) \in Nat /\ SumOver(mBal', Bettors) \in Nat
        /\ SumOver(mBal', Bettors) = SumOver(mid, Bettors) + mBal'[b] - mid[b]
    BY ONLY <1>1, <1>6, <1>7, b \in Bettors, OneChanges
  <2> QED
    BY ONLY <1>5, <1>7, <2>1
<1>10. SumOver(mBal', Bettors) = SumOver(mBal, Bettors)
  BY ONLY <1>5, <1>8, <1>9
<1>11. MAdds'
  BY <1>2, <1>3, <1>10 DEF MAdds, PM!GloballySettled
<1>12. MTypes'
  BY <1>2, <1>3, <1>7 DEF MTypes
<1>13. MCovers'
  BY <1>2, <1>3 DEF MCovers, PM!GloballySettled
<1>14. PM!PaysForTokens
  BY <1>3, <1>4 DEF PM!PaysForTokens
<1> QED
  BY <1>11, <1>12, <1>13, <1>14 DEF MInv

\* What a position pays at a settlement is not more than its collateral.
LEMMA PositionPays ==
  ASSUME NEW d \in Nat, NEW p \in (Nat \ {0}) \X Nat
  PROVE  PM!Pays(d, p) \in 0..d
<1> DEFINE u == d * p[2]
           m == (u + p[1] - 1) \div p[1]
<1>1. p[1] \in Nat \ {0} /\ p[2] \in Nat
  OBVIOUS
<1>2. u \in Nat
  BY <1>1, MulNat
<1>3. PM!MulUp(d, p[2], p[1]) = m
  BY DEF PM!MulUp
<1> HIDE DEF u
<1>4. m \in Nat
  BY <1>1, <1>2, CeilFloor
<1> HIDE DEF m
<1> QED
  BY <1>3, <1>4 DEF PM!Pays

\* asset_global_settle
LEMMA PredictionSettle ==
  ASSUME PM!PredictionAssumption, MInv, NEW p \in Outcomes, PM!asset_global_settle(p)
  PROVE  MInv' /\ PM!PaysForTokens
<1> DEFINE S == Bettors
           pays == [a \in S |-> PM!Pays(mDebt[a], p)]
           none == [a \in S |-> 0]
           had == [a \in S |-> mCore[a] + mDebt[a]]
<1>1. IsFiniteSet(S) /\ TokenSupply \in Nat /\ p \in (Nat \ {0}) \X Nat /\ Cardinality(S) \in Nat
  BY PredictionConstants
<1>2. MTypes /\ MAdds
  BY DEF MInv
<1>3. /\ ~PM!GloballySettled /\ mSupply > 0 /\ mFund' = PM!SumOf(pays) /\ mPrice' = <<mSupply, mFund'>>
      /\ mCore' = [a \in S |-> mCore[a] + mDebt[a] - PM!Pays(mDebt[a], p)] /\ mDebt' = none
      /\ mBal' = mBal /\ mSupply' = mSupply
  BY DEF PM!asset_global_settle
<1>4. mDebt \in [S -> Nat] /\ mCore \in [S -> Nat] /\ mSupply \in Nat
  BY <1>1, <1>2 DEF MTypes
<1>5. \A a \in S : pays[a] \in Nat /\ pays[a] <= mDebt[a]
  BY <1>1, <1>4, PositionPays
<1>6. /\ \A a \in S : mCore'[a] = mCore[a] + mDebt[a] - pays[a]
      /\ mCore' \in [S -> Nat]
  <2>1. \A a \in S : mCore'[a] = mCore[a] + mDebt[a] - pays[a]
    BY <1>3
  <2>2. \A a \in S : mCore'[a] \in Nat
    BY <1>4, <1>5, <2>1
  <2>3. mCore' = [a \in S |-> mCore'[a]]
    BY <1>3
  <2> QED
    BY <2>1, <2>2, <2>3
<1>7. /\ \A a \in S : had[a] = mCore[a] + mDebt[a]
      /\ \A a \in S : none[a] = 0
      /\ none \in [S -> Nat]
  OBVIOUS
<1> HIDE DEF pays, none, had
<1>8. SumOver(had, S) = SumOver(mCore, S) + SumOver(mDebt, S)
  <2>1. \A a \in S : mCore[a] \in Int /\ mDebt[a] \in Int /\ had[a] = mCore[a] + mDebt[a]
    BY <1>4, <1>7
  <2> QED
    BY ONLY <1>1, <2>1, SumPlus
<1>9. SumOver(had, S) = SumOver(mCore', S) + SumOver(pays, S)
  <2>1. \A a \in S : mCore'[a] \in Int /\ pays[a] \in Int /\ had[a] = mCore'[a] + pays[a]
    BY <1>4, <1>5, <1>6, <1>7
  <2> QED
    BY ONLY <1>1, <2>1, SumPlus
<1>10. SumOver(none, S) = 0
  <2>1. SumOver(none, S) = 0 * Cardinality(S)
    BY ONLY <1>1, <1>7, SumConstant
  <2> QED
    BY <1>1, <2>1
<1>11. SumOver(pays, S) \in Nat
  <2>1. \A a \in S : pays[a] \in Nat
    BY <1>5
  <2> QED
    BY ONLY <1>1, <2>1, SumNat
<1>12. mFund' = SumOver(pays, S)
  BY <1>3, PredictionSums
<1>13. SumOver(mCore', S) \in Nat /\ SumOver(mCore, S) \in Nat /\ SumOver(mDebt, S) \in Nat
  <2>1. (\A a \in S : mCore'[a] \in Nat) /\ (\A a \in S : mCore[a] \in Nat) /\ (\A a \in S : mDebt[a] \in Nat)
    BY <1>4, <1>6
  <2> QED
    BY ONLY <1>1, <2>1, SumNat
<1>14. mPrice'[1] = mSupply /\ mPrice'[2] = mFund' /\ mPrice' # <<0, 0>> /\ mPrice' \in Nat \X Nat
  BY <1>3, <1>4, <1>11, <1>12
<1>15. MTypes'
  BY <1>2, <1>3, <1>6, <1>7, <1>11, <1>12, <1>14 DEF MTypes
<1>16. MAdds'
  <2>1. SumOver(mCore, S) + SumOver(mDebt, S) + mFund = Cardinality(S) * BetCore /\ mFund = 0
        /\ SumOver(mBal, S) = mSupply
    BY <1>2, <1>3 DEF MAdds
  <2>2. SumOver(mCore', S) + SumOver(mDebt', S) + mFund' = Cardinality(S) * BetCore
    BY <1>3, <1>8, <1>9, <1>10, <1>11, <1>12, <1>13, <2>1
  <2> QED
    BY <1>3, <1>14, <2>1, <2>2 DEF MAdds, PM!GloballySettled
<1>17. MCovers'
  <2>1. mFund' * mSupply >= mFund' * mSupply
    BY <1>4, <1>11, <1>12, MulNat
  <2> QED
    BY <1>3, <1>4, <1>14, <2>1 DEF MCovers
<1>18. PM!PaysForTokens
  BY <1>3 DEF PM!PaysForTokens
<1> QED
  BY <1>15, <1>16, <1>17, <1>18 DEF MInv

\* What redeeming x tokens yields: never more than the fund, and what is left still
\* covers the other tokens.
LEMMA RedeemIs ==
  ASSUME PM!PredictionAssumption, MInv, PM!GloballySettled, NEW x \in Nat, x <= mSupply
  PROVE  LET r == PM!Redeemed(x)
             t == PM!TokensTaken(x)
         IN /\ r \in Nat /\ t \in Nat /\ r <= mFund /\ t <= x
            /\ (mFund - r) * mPrice[1] >= mPrice[2] * (mSupply - t)
            /\ mSupply = t => mFund = r
            /\ r > 0 /\ t # mSupply => (t - 1) * mPrice[2] < r * mPrice[1]
<1> DEFINE r == PM!Redeemed(x)
           t == PM!TokensTaken(x)
           s0 == mPrice[1]
           f0 == mPrice[2]
           s == mSupply
           f == mFund
<1>1. /\ s0 \in Nat \ {0} /\ f0 \in Nat /\ s \in Nat /\ f \in Nat
      /\ f * s0 >= f0 * s /\ (s = 0 => f = 0)
  BY PredictionConstants DEF MInv, MTypes, MCovers
<1>2. CASE x = s
  <2>1. r = f /\ t = x
    BY <1>2 DEF PM!Redeemed, PM!TokensTaken
  <2>2. (f - r) * s0 >= f0 * (s - t)
    BY <1>1, <1>2, <2>1
  <2> QED
    BY <1>1, <1>2, <2>1, <2>2
<1>3. CASE x # s
  <2>1. x < s
    BY <1>1, <1>3
  <2> DEFINE u == x * f0
  <2>2. u \in Nat /\ r = u \div s0
    BY <1>1, <1>3, MulNat DEF PM!Redeemed, PM!Mul
  <2>3. u = x * f0
    OBVIOUS
  <2> HIDE DEF u, r
  <2>4. r \in Nat /\ s0 * r <= u
    BY ONLY <1>1, <2>2, DivFloor
  <2>5. r <= f
    <3>1. x * f0 <= s * f0 /\ s * f0 = f0 * s
      BY ONLY <1>1, <2>1, MulMono, x \in Nat
    <3>2. s0 * r = r * s0 /\ r * s0 \in Nat /\ f * s0 \in Nat /\ f0 * s \in Nat
      BY ONLY <1>1, <2>4, MulNat
    <3>3. r * s0 <= f * s0
      BY ONLY <1>1, <2>2, <2>3, <2>4, <3>1, <3>2
    <3> QED
      BY ONLY <1>1, <2>4, <3>3, MulCancel
  <2>6. CASE r = 0
    <3>1. t = x
      BY <2>6 DEF PM!TokensTaken, r
    <3>2. f0 * (s - x) <= f0 * s
      BY ONLY <1>1, <2>1, MulMono, x \in Nat
    <3>3. f * s0 \in Nat /\ f0 * s \in Nat /\ f0 * (s - x) \in Nat
      BY ONLY <1>1, <2>1, MulNat, x \in Nat
    <3>4. (f - r) * s0 >= f0 * (s - t)
      BY ONLY <1>1, <2>6, <3>1, <3>2, <3>3
    <3> QED
      BY <1>1, <2>1, <2>4, <2>5, <2>6, <3>1, <3>4 DEF r
  <2>7. CASE r # 0
    <3>1. f0 # 0
      <4>1. SUFFICES ASSUME f0 = 0 PROVE FALSE
        OBVIOUS
      <4>2. u = 0
        BY ONLY <2>3, <4>1, x \in Nat
      <4>3. s0 * 1 <= s0 * r
        BY ONLY <1>1, <2>4, <2>7, MulMono
      <4> QED
        BY ONLY <1>1, <2>4, <4>2, <4>3, MulNat
    <3> DEFINE w == r * s0
    <3>2. t = (w + f0 - 1) \div f0
      BY <1>3, <2>7 DEF PM!TokensTaken, PM!MulUp, r
    <3>3. w \in Nat
      BY <1>1, <2>4, MulNat
    <3>4. w = r * s0 /\ s0 * r = r * s0
      BY <1>1, <2>4
    <3> HIDE DEF w, t
    <3>5. t \in Nat /\ w <= f0 * t /\ f0 * t <= w + f0 - 1
      BY ONLY <1>1, <3>1, <3>2, <3>3, CeilFloor
    <3>6. t <= x
      <4>1. w <= f0 * x
        BY ONLY <1>1, <2>2, <2>3, <2>4, <3>3, <3>4, x \in Nat
      <4> QED
        BY ONLY <1>1, <3>1, <3>2, <3>3, <4>1, CeilLe, x \in Nat
    <3>7. (f - r) * s0 >= f0 * (s - t)
      <4>1. (f - r) * s0 = f * s0 - r * s0 /\ f0 * (s - t) = f0 * s - f0 * t
        BY ONLY <1>1, <2>4, <3>5
      <4>2. f * s0 \in Nat /\ f0 * s \in Nat /\ f0 * t \in Nat
        BY ONLY <1>1, <3>5, MulNat
      <4> QED
        BY ONLY <1>1, <3>3, <3>4, <3>5, <4>1, <4>2
    <3>8. (t - 1) * f0 < r * s0
      <4>1. (t - 1) * f0 = f0 * t - f0
        BY ONLY <1>1, <3>5
      <4>2. f0 * t \in Nat
        BY ONLY <1>1, <3>5, MulNat
      <4> QED
        BY ONLY <1>1, <3>1, <3>3, <3>4, <3>5, <4>1, <4>2
    <3>9. t # s
      BY ONLY <1>1, <2>1, <3>5, <3>6, x \in Nat
    <3> QED
      BY ONLY <2>4, <2>5, <3>5, <3>6, <3>7, <3>8, <3>9 DEF r, t
  <2> QED
    BY <2>6, <2>7
<1> QED
  BY <1>2, <1>3

\* asset_settle
LEMMA PredictionRedeem ==
  ASSUME PM!PredictionAssumption, MInv, NEW a \in Bettors, NEW x, PM!asset_settle(a, x)
  PROVE  MInv' /\ PM!PaysForTokens
<1> DEFINE r == PM!Redeemed(x)
           t == PM!TokensTaken(x)
<1>1. IsFiniteSet(Bettors) /\ TokenSupply \in Nat
  BY PredictionConstants
<1>2. MTypes /\ MAdds /\ MCovers
  BY DEF MInv
<1>3. /\ PM!GloballySettled /\ x \in 0..mBal[a] /\ mBal' = [mBal EXCEPT ![a] = mBal[a] - t]
      /\ mCore' = [mCore EXCEPT ![a] = mCore[a] + r] /\ mFund' = mFund - r /\ mSupply' = mSupply - t
      /\ mDebt' = mDebt /\ mPrice' = mPrice
  BY DEF PM!asset_settle
<1>4. /\ mBal \in [Bettors -> Nat] /\ mCore \in [Bettors -> Nat] /\ mSupply \in Nat /\ mFund \in Nat
      /\ mSupply <= TokenSupply /\ SumOver(mBal, Bettors) = mSupply
  BY <1>1, <1>2 DEF MTypes, MAdds
<1>5. x \in Nat /\ x <= mSupply
  <2>1. \A y \in Bettors : mBal[y] \in Nat
    BY <1>4
  <2>2. mBal[a] <= SumOver(mBal, Bettors)
    BY ONLY <1>1, <2>1, SumNat, a \in Bettors
  <2> QED
    BY <1>3, <1>4, <2>1, <2>2
<1>6. /\ r \in Nat /\ t \in Nat /\ r <= mFund /\ t <= x
      /\ (mFund - r) * mPrice[1] >= mPrice[2] * (mSupply - t)
      /\ mSupply = t => mFund = r
      /\ r > 0 /\ t # mSupply => (t - 1) * mPrice[2] < r * mPrice[1]
  BY <1>3, <1>5, RedeemIs
<1> HIDE DEF r, t
<1>7. mBal' \in [Bettors -> Nat] /\ mBal'[a] = mBal[a] + (-t) /\ \A y \in Bettors \ {a} : mBal[y] = mBal'[y]
  BY <1>3, <1>4, <1>5, <1>6
<1>8. mCore' \in [Bettors -> Nat] /\ mCore'[a] = mCore[a] + r /\ \A y \in Bettors \ {a} : mCore[y] = mCore'[y]
  BY <1>3, <1>4, <1>6
<1>9. SumOver(mBal', Bettors) = SumOver(mBal, Bettors) + (-t)
  <2>1. /\ mBal[a] \in Nat /\ SumOver(mBal, Bettors) \in Nat /\ SumOver(mBal', Bettors) \in Nat
        /\ SumOver(mBal', Bettors) = SumOver(mBal, Bettors) + mBal'[a] - mBal[a]
    BY ONLY <1>1, <1>4, <1>7, a \in Bettors, OneChanges
  <2> QED
    BY ONLY <1>6, <1>7, <2>1
<1>10. SumOver(mCore, Bettors) \in Nat /\ SumOver(mCore', Bettors) = SumOver(mCore, Bettors) + r
  <2>1. /\ mCore[a] \in Nat /\ SumOver(mCore, Bettors) \in Nat /\ SumOver(mCore', Bettors) \in Nat
        /\ SumOver(mCore', Bettors) = SumOver(mCore, Bettors) + mCore'[a] - mCore[a]
    BY ONLY <1>1, <1>4, <1>8, a \in Bettors, OneChanges
  <2> QED
    BY ONLY <1>6, <1>8, <2>1
<1>11. mFund' \in Nat /\ mSupply' \in 0..TokenSupply
  BY <1>1, <1>3, <1>4, <1>5, <1>6
<1>12. MTypes'
  BY <1>2, <1>3, <1>7, <1>8, <1>11 DEF MTypes
<1>13. MAdds'
  <2>1. SumOver(mDebt, Bettors) \in Nat
    <3>1. \A y \in Bettors : mDebt[y] \in Nat
      BY <1>2 DEF MTypes
    <3> QED
      BY ONLY <1>1, <3>1, SumNat
  <2>2. SumOver(mCore, Bettors) + SumOver(mDebt, Bettors) + mFund = Cardinality(Bettors) * BetCore
    BY <1>2 DEF MAdds
  <2>3. SumOver(mCore', Bettors) + SumOver(mDebt, Bettors) + mFund' = Cardinality(Bettors) * BetCore
    BY <1>3, <1>4, <1>6, <1>10, <2>1, <2>2
  <2>4. SumOver(mBal', Bettors) = mSupply'
    BY <1>3, <1>4, <1>6, <1>9
  <2> QED
    BY <1>3, <2>3, <2>4 DEF MAdds, PM!GloballySettled
<1>14. MCovers'
  <2>1. mSupply' = 0 => mFund' = 0
    BY <1>3, <1>4, <1>6
  <2> QED
    BY <1>2, <1>3, <1>6, <2>1 DEF MCovers, PM!GloballySettled
<1>15. PM!PaysForTokens
  <2>1. SUFFICES ASSUME NEW y \in Bettors, mCore'[y] > mCore[y], mSupply' # 0
                 PROVE  (mBal[y] - mBal'[y] - 1) * mPrice[2] < (mCore'[y] - mCore[y]) * mPrice[1]
    BY DEF PM!PaysForTokens
  <2>2. y = a
    BY <1>4, <1>8, <2>1
  <2>3. r > 0 /\ t # mSupply
    BY <1>3, <1>4, <1>6, <1>8, <2>1, <2>2
  <2>4. mBal[y] - mBal'[y] - 1 = t - 1 /\ mCore'[y] - mCore[y] = r
    BY <1>4, <1>6, <1>7, <1>8, <2>2
  <2> QED
    BY <1>6, <2>3, <2>4
<1> QED
  BY <1>12, <1>13, <1>14, <1>15 DEF MInv

\* Every step.
LEMMA PredictionStep ==
  ASSUME PM!PredictionAssumption, MInv, [PM!Next]_PM!vars
  PROVE  MInv' /\ [PM!PaysForTokens]_PM!vars
<1>1. CASE UNCHANGED PM!vars
  <2>1. MInv'
    BY <1>1 DEF PM!vars, MInv, MTypes, MAdds, MCovers, PM!GloballySettled
  <2> QED
    BY <1>1, <2>1
<1>2. CASE \E a \in Bettors, d \in Deltas : PM!call_order_update(a, d)
  BY <1>2, PredictionBorrow
<1>3. CASE \E a, b \in Bettors : \E x \in 1..TokenSupply : PM!Transfer(a, b, x)
  BY <1>3, PredictionTransfer
<1>4. CASE \E p \in Outcomes : PM!asset_global_settle(p)
  BY <1>4, PredictionSettle
<1>5. CASE \E a \in Bettors : \E x \in 0..TokenSupply : PM!asset_settle(a, x)
  BY <1>5, PredictionRedeem
<1> QED
  BY <1>1, <1>2, <1>3, <1>4, <1>5 DEF PM!Next

\* The initial state.
LEMMA PredictionInit ==
  ASSUME PM!PredictionAssumption, PM!Init
  PROVE  MInv
<1>1. IsFiniteSet(Bettors) /\ Cardinality(Bettors) \in Nat /\ BetCore \in Nat /\ TokenSupply \in Nat
  BY PredictionConstants
<1>2. /\ mDebt = [a \in Bettors |-> 0] /\ mBal = [a \in Bettors |-> 0] /\ mCore = [a \in Bettors |-> BetCore]
      /\ mSupply = 0 /\ mPrice = <<0, 0>> /\ mFund = 0
  BY DEF PM!Init
<1>3. MTypes
  BY <1>1, <1>2 DEF MTypes
<1>4. MCovers
  BY <1>2 DEF MCovers, PM!GloballySettled
<1>5. (\A a \in Bettors : mDebt[a] = 0) /\ (\A a \in Bettors : mBal[a] = 0) /\ (\A a \in Bettors : mCore[a] = BetCore)
  BY <1>2
<1>6. SumOver(mDebt, Bettors) = 0 * Cardinality(Bettors)
  BY ONLY <1>1, <1>5, SumConstant
<1>7. SumOver(mBal, Bettors) = 0 * Cardinality(Bettors)
  BY ONLY <1>1, <1>5, SumConstant
<1>8. SumOver(mCore, Bettors) = BetCore * Cardinality(Bettors)
  BY ONLY <1>1, <1>5, SumConstant
<1>9. /\ SumOver(mCore, Bettors) + SumOver(mDebt, Bettors) + mFund = Cardinality(Bettors) * BetCore
      /\ SumOver(mBal, Bettors) = 0 /\ SumOver(mDebt, Bettors) = 0
  <2> DEFINE n == Cardinality(Bettors)
  <2>1. n \in Nat /\ mFund = 0
    BY <1>1, <1>2
  <2> HIDE DEF n
  <2>2. 0 * n = 0 /\ BetCore * n = n * BetCore /\ n * BetCore \in Nat
    BY ONLY <1>1, <2>1, MulNat
  <2>3. SumOver(mDebt, Bettors) = 0 /\ SumOver(mBal, Bettors) = 0 /\ SumOver(mCore, Bettors) = n * BetCore
    BY <1>6, <1>7, <1>8, <2>2 DEF n
  <2> QED
    BY <2>1, <2>2, <2>3 DEF n
<1>10. MAdds
  BY <1>2, <1>9 DEF MAdds
<1> QED
  BY <1>3, <1>4, <1>10 DEF MInv

\* What the invariant says of the properties.
LEMMA PredictionInvIs ==
  ASSUME PM!PredictionAssumption, MInv
  PROVE  PM!TypeOK /\ PM!Conserved /\ PM!FundCoversTokens /\ PM!NothingLeftBehind
<1>1. MTypes /\ MAdds /\ MCovers
  BY DEF MInv
<1>2. PM!TypeOK
  BY <1>1 DEF MTypes, PM!TypeOK
<1>3. PM!Conserved
  <2>1. PM!Cardinality(Bettors) = Cardinality(Bettors)
    BY DEF PM!Cardinality, Cardinality, PM!IsFiniteSet, IsFiniteSet
  <2> QED
    BY <1>1, <2>1, PredictionSums DEF PM!Conserved, MAdds
<1>4. PM!NothingLeftBehind
  BY <1>1 DEF MCovers, PM!NothingLeftBehind
<1>5. PM!FundCoversTokens
  <2>1. SUFFICES ASSUME PM!GloballySettled, NEW a \in Bettors, NEW x \in 0..mBal[a]
                 PROVE  PM!Redeemed(x) <= mFund
    BY <1>1 DEF PM!FundCoversTokens, MCovers
  <2>2. \A y \in Bettors : mBal[y] \in Nat
    BY <1>1 DEF MTypes
  <2>3. IsFiniteSet(Bettors)
    BY PredictionConstants
  <2>4. mBal[a] <= SumOver(mBal, Bettors)
    BY ONLY <2>2, <2>3, SumNat, a \in Bettors
  <2>5. x \in Nat /\ x <= mSupply
    BY <1>1, <2>2, <2>4, PredictionConstants DEF MAdds, MTypes
  <2> QED
    BY <2>1, <2>5, RedeemIs
<1> QED
  BY <1>2, <1>3, <1>4, <1>5

\* The inductive invariant.
LEMMA PredictionInvariant ==
  ASSUME PM!PredictionAssumption
  PROVE  PM!Spec => []MInv
<1>1. PM!Init => MInv
  BY PredictionInit
<1>2. MInv /\ [PM!Next]_PM!vars => MInv'
  BY PredictionStep
<1> QED
  BY <1>1, <1>2, PTL DEF PM!Spec

\* Borrowing, trading, settling and redeeming create and lose neither collateral nor
\* tokens (db_market.cpp globally_settle_asset_impl, asset_evaluator.cpp).
THEOREM PredictionConserves ==
  ASSUME PM!PredictionAssumption
  PROVE  PM!Spec => [](PM!TypeOK /\ PM!Conserved)
<1>1. MInv => PM!TypeOK /\ PM!Conserved
  BY PredictionInvIs
<1> QED
  BY <1>1, PredictionInvariant, PTL

\* For every outcome and any number of holders: redeeming early never hurts those who
\* redeem later, the fund is paid out to the last unit, and a redemption takes no token
\* it does not pay for (pay_settle_from_gs_fund).
THEOREM RedemptionIsFair ==
  ASSUME PM!PredictionAssumption
  PROVE  PM!Spec => PM!RedemptionFair
<1>1. MInv => PM!FundCoversTokens /\ PM!NothingLeftBehind
  BY PredictionInvIs
<1>2. MInv /\ [PM!Next]_PM!vars => [PM!PaysForTokens]_PM!vars
  BY PredictionStep
<1> QED
  BY <1>1, <1>2, PredictionInvariant, PTL DEF PM!Spec, PM!RedemptionFair, PM!NeverOverpays
=============================================================================
