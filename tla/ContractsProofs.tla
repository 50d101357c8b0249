--------------------------- MODULE ContractsProofs ---------------------------
(***************************************************************************)
(* What the theorems about single contracts say of their composition.      *)
(***************************************************************************)
EXTENDS MCContracts, TLAPS

-----------------------------------------------------------------------------
(* The part "credit".                                                      *)

\* The constants of the part "pool".
Owner == "owner"
Others == {"x"}
WealthA == 8
WealthB == 9
Deposits == {1, 2, 4}
Sales == {1, 2, 3}
Shares == {1, 2, 4}
Hundred == 10
TakerFees == {0, 3}
WithdrawalFees == {0, 5}
MakerFee == 5
TakerFee == 5
MaxMarketFee == 1
PoolSupply == 6
PoolOps == 5

\* The constants of the part "prediction".
Bettors == {"a", "b", "c"}
Outcomes == {<<1, 0>>, <<1, 1>>, <<3, 2>>, <<5, 2>>, <<3, 4>>}
BetCore == 3
Deltas == {-3, -1, 1, 2, 3}
TokenSupply == 7

\* The proofs about CreditOffer, LiquidityPool and PredictionMarket, for the parts
\* "credit", "pool" and "prediction".
CP == INSTANCE CreditMarketProofs WITH
  Lender <- "lender", Borrowers <- {"b1", "b2"}, Funds <- 5, Collateral <- 9, Pocket <- 1,
  Amounts <- {2, 3}, RateDenom <- 4, Rates <- {1}, CollNum <- 3, CollDen <- 2, Extra <- {0},
  Duration <- 1, MaxBorrow <- 5, Restricted <- {"b1"},
  MaxOffers <- 2, MaxDeals <- 2, MaxTime <- 2, MaxChanges <- 1,
  barred <- cBarred, now <- cNow, created <- cCreated, changes <- cChanges

\* The module of the proofs is about the same specification.
LEMMA SameCredit ==
  /\ CP!CreditAssumption
  /\ C!Init => CP!Init
  /\ C!Next => CP!Next
  /\ UNCHANGED cVars => UNCHANGED CP!vars
  /\ CP!CreditSound => C!CreditSound
<1>1. CP!CreditAssumption
  BY ContractsAssumption DEF C!CreditAssumption, CP!CreditAssumption, C!IsFiniteSet, CP!IsFiniteSet
<1>2. C!Init => CP!Init
  BY DEF C!Init, CP!Init, C!Accounts, CP!Accounts, C!Empty, CP!Empty
<1>3. C!Next => CP!Next
  <2> SUFFICES ASSUME C!Next PROVE CP!Next
    OBVIOUS
  <2>1. CASE \E n \in {2, 3}, r \in {1}, t \in 1..2 : C!credit_offer_create(n, r, t)
    BY <2>1, Zenon DEF CP!Next, C!credit_offer_create, CP!credit_offer_create, C!Put, CP!Put
  <2>2. CASE \E o \in DOMAIN offers : C!credit_offer_delete(o)
    BY <2>2, Zenon DEF CP!Next, C!credit_offer_delete, CP!credit_offer_delete, C!Without, CP!Without, C!Restrict,
           CP!Restrict
  <2>3. CASE \E o \in DOMAIN offers, d \in {2, 3} \cup {0} \cup {-n : n \in {2, 3}}, r \in {1}, e \in BOOLEAN :
             C!credit_offer_update(o, d, r, e, cNow + 1)
    BY <2>3, Zenon DEF CP!Next, C!credit_offer_update, CP!credit_offer_update
  <2>4. CASE \E o \in DOMAIN offers, b \in {"b1", "b2"}, n \in {2, 3}, x \in {0}, a \in C!RepayTypes :
             C!credit_offer_accept(o, b, n, C!CeilDiv(n * 3, 2) + x, a)
    BY <2>4, Zenon DEF CP!Next, C!credit_offer_accept, CP!credit_offer_accept, C!CeilDiv, CP!CeilDiv, C!Put, CP!Put,
           C!Borrowed, CP!Borrowed, C!RepayTypes, CP!RepayTypes
  <2>5. CASE \E i \in DOMAIN deals, n \in {2, 3} : C!credit_deal_repay(i, n)
    BY <2>5, Zenon DEF CP!Next, C!credit_deal_repay, CP!credit_deal_repay, C!RequiredFee, CP!RequiredFee, C!CeilDiv,
           CP!CeilDiv, C!CanRepay, CP!CanRepay, C!Repay, CP!Repay, C!Released, CP!Released,
           C!LessDebt, CP!LessDebt, C!Without, CP!Without, C!Restrict, CP!Restrict
  <2>6. CASE \E i \in DOMAIN deals, a \in C!RepayTypes : C!credit_deal_update(i, a)
    BY <2>6, Zenon DEF CP!Next, C!credit_deal_update, CP!credit_deal_update, C!RepayTypes, CP!RepayTypes
  <2>7. CASE \E b \in {"b1"} : C!Bar(b)
    BY <2>7 DEF CP!Next, C!Bar, CP!Bar
  <2>8. CASE C!NewBlock
    BY <2>8 DEF CP!Next, C!NewBlock, CP!NewBlock
  <2>9. CASE C!ExpireDeal
    <3>1. C!Overdue = CP!Overdue
      BY DEF C!Overdue, CP!Overdue
    <3>2. C!FirstOverdue = CP!FirstOverdue
      BY DEF C!FirstOverdue, CP!FirstOverdue, C!Overdue, CP!Overdue
    <3>3. ASSUME NEW i PROVE C!AutoRepaid(i) = CP!AutoRepaid(i)
      BY DEF C!AutoRepaid, CP!AutoRepaid, C!AutoAmount, CP!AutoAmount, C!Partial, CP!Partial,
             C!RequiredFee, CP!RequiredFee, C!CeilDiv, CP!CeilDiv, C!CanRepay, CP!CanRepay,
             C!Repay, CP!Repay, C!Released, CP!Released, C!LessDebt, CP!LessDebt, C!Without,
             CP!Without, C!Restrict, CP!Restrict, C!Here, CP!Here
    <3>4. ASSUME NEW i, NEW s PROVE C!Expire(i, s) = CP!Expire(i, s)
      BY DEF C!Expire, CP!Expire, C!LessDebt, CP!LessDebt, C!Without, CP!Without, C!Restrict,
             CP!Restrict
    <3>5. CP!ExpireDeal
      BY <2>9, <3>1, <3>2, <3>3, <3>4 DEF C!ExpireDeal, CP!ExpireDeal
    <3> QED
      BY <3>5 DEF CP!Next
  <2>10. CASE C!BlockDone
    BY <2>10 DEF CP!Next, C!BlockDone, CP!BlockDone, C!Overdue, CP!Overdue
  <2> QED
    BY <2>1, <2>2, <2>3, <2>4, <2>5, <2>6, <2>7, <2>8, <2>9, <2>10 DEF C!Next
<1>4. UNCHANGED cVars => UNCHANGED CP!vars
  BY DEF cVars, CP!vars
<1>5. CP!CreditSound => C!CreditSound
  BY Zenon DEF C!CreditSound, CP!CreditSound, C!OfferExact, CP!OfferExact, C!SummaryExact,
         CP!SummaryExact, C!CollateralKept, CP!CollateralKept, C!NoOverdueDeals,
         CP!NoOverdueDeals, C!PartialAffordable, CP!PartialAffordable, C!Borrowed,
         CP!Borrowed, C!RequiredFee, CP!RequiredFee, C!CeilDiv, CP!CeilDiv, C!AutoAmount,
         CP!AutoAmount, C!Partial, CP!Partial, C!Overdue, CP!Overdue, C!DebtOf, CP!DebtOf,
         C!DealsOf, CP!DealsOf, C!DealsWith, CP!DealsWith, C!SumOver, CP!SumOver,
         C!FoldFunctionOnSet, CP!FoldFunctionOnSet, C!MapThenFoldSet, CP!MapThenFoldSet
<1> QED
  BY <1>1, <1>2, <1>3, <1>4, <1>5

\* What each step keeps of the deals.
CreditInv == part = "credit" => CP!IInv

\* The invariant holds at the start and is kept.
LEMMA CreditInvKept ==
  /\ Init => CreditInv
  /\ CreditInv /\ [Next]_vars => CreditInv'
<1>1. Init => CreditInv
  BY SameCredit, CP!InitSound DEF Init, CreditInv
<1>2. ASSUME CreditInv, [Next]_vars, part' = "credit" PROVE CP!IInv'
  <2>1. part = "credit" /\ CP!IInv /\ (C!Next \/ UNCHANGED cVars)
    BY <1>2 DEF Next, vars, CreditInv
  <2>2. [CP!Next]_(CP!vars)
    BY <2>1, SameCredit
  <2> QED
    BY <2>1, <2>2, SameCredit, CP!StepKeeps
<1> QED
  BY <1>1, <1>2 DEF CreditInv

\* Conserved in the part "credit".
LEMMA CreditConserved ==
  ASSUME part = "credit", CreditInv
  PROVE  Conserved
<1>1. CP!TypeOK /\ CP!Conserved => C!TypeOK /\ C!Conserved
  BY Zenon DEF C!Accounts, CP!Accounts, C!TypeOK, CP!TypeOK, C!FoldFunctionOnSet, CP!FoldFunctionOnSet,
         C!MapThenFoldSet, CP!MapThenFoldSet, C!SumOver, CP!SumOver, C!CurrentOf, CP!CurrentOf,
         C!Cardinality, CP!Cardinality, C!CollOf, CP!CollOf, C!Conserved, CP!Conserved
<1> QED
  BY <1>1, SameCredit, CP!InvTypes, CP!InvConserves DEF Conserved, CreditInv

\* CreditSound of the composition, from CreditIsSound for every value of the
\* constants: totals of offers and summaries are those of the deals, partial
\* repayments keep the lender covered, no deal outlives its deadline, and an automatic
\* repayment in part is never refused (update_credit_offers_and_deals).
THEOREM CreditAlwaysSound == Spec => []CreditSound
<1>1. CreditInv => CreditSound
  BY SameCredit, CP!InvSound DEF CreditSound, CreditInv
<1> QED
  BY <1>1, CreditInvKept, PTL DEF Spec

-----------------------------------------------------------------------------
(* The part "pool".                                                        *)

\* The module of the proofs is about the same specification.
LEMMA SamePool ==
  /\ CP!L!PoolAssumption
  /\ L!Init => CP!L!Init
  /\ L!Next => CP!L!Next
  /\ UNCHANGED lVars => UNCHANGED CP!L!vars
  /\ CP!L!TypeOK /\ CP!L!Conserved => L!TypeOK /\ L!Conserved
  /\ CP!L!EmptyTogether => L!EmptyTogether
  /\ CP!L!WorthKept => L!WorthKept
<1> USE DEF Owner, Others, WealthA, WealthB, Deposits, Sales, Shares, Hundred, TakerFees, WithdrawalFees,
            MakerFee, TakerFee, MaxMarketFee, PoolSupply, PoolOps
<1>1. CP!L!PoolAssumption
  BY ContractsAssumption DEF L!IsFiniteSet, CP!L!IsFiniteSet, L!PoolAssumption, CP!L!PoolAssumption
<1>2. L!Init => CP!L!Init
  BY Zenon DEF L!Accounts, CP!L!Accounts, L!NoPool, CP!L!NoPool, L!Init, CP!L!Init
<1>3. L!Next => CP!L!Next
  <2>1. \A x, da, db, ds : L!Adjust(x, da, db, ds) = CP!L!Adjust(x, da, db, ds)
    BY Zenon DEF L!Adjust, CP!L!Adjust
  <2>2. \A a, b : L!PoolWith(a, b) = CP!L!PoolWith(a, b)
    BY DEF L!PoolWith, CP!L!PoolWith
  <2>3. \A a, b : L!DepositTerms(a, b) = CP!L!DepositTerms(a, b)
    BY DEF L!MinOf, CP!L!MinOf, L!MaxOf, CP!L!MaxOf, L!CeilDiv, CP!L!CeilDiv, L!DepositTerms,
         CP!L!DepositTerms
  <2>4. \A n, b : L!Pays(n, b) = CP!L!Pays(n, b)
    BY DEF L!ShareOf, CP!L!ShareOf, L!Pays, CP!L!Pays
  <2>5. \A n, i, o : L!ExchangeTerms(n, i, o) = CP!L!ExchangeTerms(n, i, o)
    BY DEF L!MinOf, CP!L!MinOf, L!MarketFee, CP!L!MarketFee, L!CeilDiv, CP!L!CeilDiv, L!Delta, CP!L!Delta,
         L!ExchangeTerms, CP!L!ExchangeTerms
  <2>6. L!Accounts = CP!L!Accounts /\ L!NoPool = CP!L!NoPool /\ (L!Step => CP!L!Step)
    BY DEF L!Accounts, CP!L!Accounts, L!NoPool, CP!L!NoPool, L!Step, CP!L!Step
  <2>7. \A t, w : L!liquidity_pool_create(t, w) => CP!L!liquidity_pool_create(t, w)
    BY <2>6, Zenon DEF L!liquidity_pool_create, CP!L!liquidity_pool_create
  <2>8. L!liquidity_pool_delete => CP!L!liquidity_pool_delete
    BY <2>6, Zenon DEF L!liquidity_pool_delete, CP!L!liquidity_pool_delete
  <2>9. \A t, d : L!liquidity_pool_update(t, d) => CP!L!liquidity_pool_update(t, d)
    BY <2>6, Zenon DEF L!liquidity_pool_update, CP!L!liquidity_pool_update
  <2>10. \A x, a, b : L!liquidity_pool_deposit(x, a, b) => CP!L!liquidity_pool_deposit(x, a, b)
    BY <2>1, <2>2, <2>3, <2>6, Zenon DEF L!liquidity_pool_deposit, CP!L!liquidity_pool_deposit
  <2>11. \A x, n : L!liquidity_pool_withdraw(x, n) => CP!L!liquidity_pool_withdraw(x, n)
    BY <2>1, <2>2, <2>4, <2>6, Zenon DEF L!liquidity_pool_withdraw, CP!L!liquidity_pool_withdraw
  <2>12. \A x, n, s : L!liquidity_pool_exchange(x, n, s) => CP!L!liquidity_pool_exchange(x, n, s)
    <3> SUFFICES ASSUME NEW x, NEW n, NEW s, L!liquidity_pool_exchange(x, n, s)
                 PROVE  CP!L!liquidity_pool_exchange(x, n, s)
      OBVIOUS
    <3>1. CASE s = "a"
      BY <2>1, <2>2, <2>5, <2>6, <3>1 DEF L!liquidity_pool_exchange, CP!L!liquidity_pool_exchange
    <3>2. CASE s # "a"
      BY <2>1, <2>2, <2>5, <2>6, <3>2 DEF L!liquidity_pool_exchange, CP!L!liquidity_pool_exchange
    <3> QED
      BY <3>1, <3>2
  <2>13. \A x, n : L!asset_reserve(x, n) => CP!L!asset_reserve(x, n)
    BY <2>1, <2>6, Zenon DEF L!asset_reserve, CP!L!asset_reserve
  <2> QED
    BY <2>6, <2>7, <2>8, <2>9, <2>10, <2>11, <2>12, <2>13, Zenon DEF L!Next, CP!L!Next
<1>4. UNCHANGED lVars => UNCHANGED CP!L!vars
  BY DEF lVars, CP!L!vars
<1>5. CP!L!TypeOK /\ CP!L!Conserved => L!TypeOK /\ L!Conserved
  BY Zenon DEF L!Accounts, CP!L!Accounts, L!TypeOK, CP!L!TypeOK, L!FoldFunctionOnSet, CP!L!FoldFunctionOnSet,
         L!MapThenFoldSet, CP!L!MapThenFoldSet, L!SumOver, CP!L!SumOver, L!AOf, CP!L!AOf,
         L!Cardinality, CP!L!Cardinality, L!BOf, CP!L!BOf, L!SharesOf, CP!L!SharesOf,
         L!Conserved, CP!L!Conserved
<1>6. CP!L!EmptyTogether => L!EmptyTogether
  BY Zenon DEF L!EmptyTogether, CP!L!EmptyTogether
<1>7. CP!L!WorthKept => L!WorthKept
  BY Zenon DEF L!WorthKept, CP!L!WorthKept
<1> QED
  BY <1>1, <1>2, <1>3, <1>4, <1>5, <1>6, <1>7

\* What each step keeps of the pool.
PoolInv == part = "pool" => CP!LInv

\* The invariant holds at the start and is kept, and a share keeps its worth.
LEMMA PoolInvKept ==
  /\ Init => PoolInv
  /\ PoolInv /\ [Next]_vars => PoolInv' /\ [L!WorthKept]_(L!vars)
<1>1. Init => PoolInv
  BY SamePool, CP!PoolInit DEF Init, PoolInv
<1>2. ASSUME PoolInv, [Next]_vars, part = "pool" PROVE CP!LInv' /\ [L!WorthKept]_(L!vars)
  <2>1. CP!LInv /\ (L!Next \/ UNCHANGED lVars)
    BY <1>2 DEF Next, vars, PoolInv
  <2>2. [CP!L!Next]_(CP!L!vars)
    BY <2>1, SamePool
  <2>3. CP!LInv' /\ [CP!L!WorthKept]_(CP!L!vars)
    BY <2>1, <2>2, SamePool, CP!PoolStep
  <2> QED
    BY <2>3, SamePool DEF CP!L!vars, L!vars
<1>3. ASSUME [Next]_vars, part # "pool" PROVE part' # "pool" /\ UNCHANGED L!vars
  BY <1>3 DEF Next, vars, lVars, L!vars
<1> QED
  BY <1>1, <1>2, <1>3 DEF PoolInv

\* Conserved in the part "pool".
LEMMA PoolConserved ==
  ASSUME part = "pool", PoolInv
  PROVE  Conserved
BY SamePool, CP!PoolInvIs DEF Conserved, PoolInv

\* PoolFair of the composition, from PoolIsFair for every value of the constants: the
\* balances of a pool and its shares are zero together, and no operation of anybody
\* makes a share worth less (liquidity_pool_evaluator.cpp).
THEOREM PoolAlwaysFair == Spec => PoolFair
<1> DEFINE Together == part = "pool" => L!EmptyTogether
<1>1. PoolInv => Together
  BY SamePool, CP!PoolInvIs DEF PoolInv
<1> QED
  BY <1>1, PoolInvKept, PTL DEF Spec, PoolFair, L!NoDilution

-----------------------------------------------------------------------------
(* The part "prediction".                                                  *)

\* The module of the proofs is about the same specification.
LEMMA SamePrediction ==
  /\ CP!PM!PredictionAssumption
  /\ M!Init => CP!PM!Init
  /\ M!Next => CP!PM!Next
  /\ UNCHANGED mVars => UNCHANGED CP!PM!vars
  /\ CP!PM!TypeOK /\ CP!PM!Conserved => M!TypeOK /\ M!Conserved
  /\ CP!PM!FundCoversTokens /\ CP!PM!NothingLeftBehind => M!FundCoversTokens /\ M!NothingLeftBehind
  /\ CP!PM!PaysForTokens => M!PaysForTokens
<1> USE DEF Bettors, Outcomes, BetCore, Deltas, TokenSupply
<1>1. CP!PM!PredictionAssumption
  BY ContractsAssumption DEF M!IsFiniteSet, CP!PM!IsFiniteSet, M!PredictionAssumption, CP!PM!PredictionAssumption
<1>2. M!Init => CP!PM!Init
  BY Zenon DEF M!Init, CP!PM!Init
<1>3. M!Next => CP!PM!Next
  BY Zenon DEF M!GloballySettled, CP!PM!GloballySettled, M!call_order_update, CP!PM!call_order_update,
         M!Transfer, CP!PM!Transfer, M!Mul, CP!PM!Mul, M!FoldFunctionOnSet,
         CP!PM!FoldFunctionOnSet, M!MapThenFoldSet, CP!PM!MapThenFoldSet, M!SumOver,
         CP!PM!SumOver, M!SumOf, CP!PM!SumOf, M!MulUp, CP!PM!MulUp, M!Pays, CP!PM!Pays,
         M!asset_global_settle, CP!PM!asset_global_settle, M!Redeemed, CP!PM!Redeemed,
         M!TokensTaken, CP!PM!TokensTaken, M!asset_settle, CP!PM!asset_settle, M!Next,
         CP!PM!Next
<1>4. UNCHANGED mVars => UNCHANGED CP!PM!vars
  BY DEF mVars, CP!PM!vars
<1>5. CP!PM!TypeOK /\ CP!PM!Conserved => M!TypeOK /\ M!Conserved
  BY Zenon DEF M!TypeOK, CP!PM!TypeOK, M!FoldFunctionOnSet, CP!PM!FoldFunctionOnSet, M!MapThenFoldSet,
         CP!PM!MapThenFoldSet, M!SumOver, CP!PM!SumOver, M!SumOf, CP!PM!SumOf, M!Cardinality,
         CP!PM!Cardinality, M!GloballySettled, CP!PM!GloballySettled, M!Conserved,
         CP!PM!Conserved
<1>6. CP!PM!FundCoversTokens /\ CP!PM!NothingLeftBehind => M!FundCoversTokens /\ M!NothingLeftBehind
  BY Zenon DEF M!GloballySettled, CP!PM!GloballySettled, M!Mul, CP!PM!Mul, M!Redeemed, CP!PM!Redeemed,
         M!FundCoversTokens, CP!PM!FundCoversTokens, M!NothingLeftBehind,
         CP!PM!NothingLeftBehind
<1>7. CP!PM!PaysForTokens => M!PaysForTokens
  BY Zenon DEF M!GloballySettled, CP!PM!GloballySettled, M!PaysForTokens, CP!PM!PaysForTokens
<1> QED
  BY <1>1, <1>2, <1>3, <1>4, <1>5, <1>6, <1>7

\* What each step keeps of the prediction market.
PredictionInv == part = "prediction" => CP!MInv

\* The invariant holds at the start and is kept, and redemptions pay for tokens.
LEMMA PredictionInvKept ==
  /\ Init => PredictionInv
  /\ PredictionInv /\ [Next]_vars => PredictionInv' /\ [M!PaysForTokens]_(M!vars)
<1>1. Init => PredictionInv
  BY SamePrediction, CP!PredictionInit DEF Init, PredictionInv
<1>2. ASSUME PredictionInv, [Next]_vars, part = "prediction" PROVE CP!MInv' /\ [M!PaysForTokens]_(M!vars)
  <2>1. CP!MInv /\ (M!Next \/ UNCHANGED mVars)
    BY <1>2 DEF Next, vars, PredictionInv
  <2>2. [CP!PM!Next]_(CP!PM!vars)
    BY <2>1, SamePrediction
  <2>3. CP!MInv' /\ [CP!PM!PaysForTokens]_(CP!PM!vars)
    BY <2>1, <2>2, SamePrediction, CP!PredictionStep
  <2> QED
    BY <2>3, SamePrediction DEF CP!PM!vars, M!vars
<1>3. ASSUME [Next]_vars, part # "prediction" PROVE part' # "prediction" /\ UNCHANGED M!vars
  BY <1>3 DEF Next, vars, mVars, M!vars
<1> QED
  BY <1>1, <1>2, <1>3 DEF PredictionInv

\* Conserved in the part "prediction".
LEMMA PredictionConserved ==
  ASSUME part = "prediction", PredictionInv
  PROVE  Conserved
BY SamePrediction, CP!PredictionInvIs DEF Conserved, PredictionInv

\* RedemptionFair of the composition, from RedemptionIsFair for every value of the
\* constants: redeeming early never hurts those who redeem later, the fund is paid out
\* to the last unit, and no redemption takes a token it does not pay for
\* (pay_settle_from_gs_fund).
THEOREM RedemptionAlwaysFair == Spec => RedemptionFair
<1> DEFINE Covered == part = "prediction" => M!FundCoversTokens /\ M!NothingLeftBehind
<1>1. PredictionInv => Covered
  BY SamePrediction, CP!PredictionInvIs DEF PredictionInv
<1> QED
  BY <1>1, PredictionInvKept, PTL DEF Spec, RedemptionFair, M!NeverOverpays

-----------------------------------------------------------------------------
(* The part "htlc".                                                        *)

\* The constants of the part "htlc".
HtlcSupply == 2
HtlcAmounts == {1, 2}
Preimages == {"short", "long"}
SizeOf == [p \in {"short", "long"} |-> IF p = "short" THEN 1 ELSE 2]
Timeouts == {1, 2}
Options == {1, 2}
MaxPreimageSize == 1
Restricted == {"b"}
MaxContracts == 2
HtlcTime == 3
HtlcChanges == 2

\* The constants of the part "withdraw".
Assets == {"s"}
WithdrawSupply == 3
Limits == {2}
WithdrawAmounts == {1, 2}
Periods == {1, 2}
Counts == {1, 2}
Width == 32
MaxPermits == 2
WithdrawTime == 3
WithdrawUpdates == 1

\* The proofs about Proposals, Htlc and WithdrawPermission, for the parts
\* "proposals", "htlc" and "withdraw".
PP == INSTANCE AgreementProofs WITH
  Accounts <- {"a", "b"},
  Bodies <- {<<Op("act", "a", 0)>>, <<Op("act_owner", "b", 0)>>,
             <<Op("update", "a", 1), Op("act", "b", 0)>>, <<Op("update", "a", 2)>>,
             <<Op("update", "a", 1), Op("delete", "a", 1)>>, <<Op("delete", "a", 1)>>},
  Reviews <- {0, 1}, MaxLifetime <- 2, MaxNesting <- 2,
  MaxProposals <- 2, MaxTime <- 2, MaxOps <- 3, MaxToggles <- 1,
  now <- pNow, ops <- pOps

\* The module of the proofs is about the same specification.
LEMMA SameHtlc ==
  /\ PP!H!HtlcAssumption /\ PP!H!NoOptions \notin Options
  /\ H!Init => PP!H!Init
  /\ H!Next => PP!H!Next
  /\ UNCHANGED hVars => UNCHANGED PP!H!vars
<1> USE DEF HtlcSupply, HtlcAmounts, Preimages, SizeOf, Timeouts, Options, MaxPreimageSize, Restricted,
            MaxContracts, HtlcTime, HtlcChanges
<1>1. PP!H!HtlcAssumption
  BY ContractsAssumption DEF H!HtlcAssumption, PP!H!HtlcAssumption, H!IsFiniteSet, PP!H!IsFiniteSet
<1>2. PP!H!NoOptions \notin Options
  BY DEF PP!H!NoOptions
<1>3. H!Init => PP!H!Init
  BY DEF H!Init, PP!H!Init, H!NoOptions, PP!H!NoOptions
<1>4. H!Next => PP!H!Next
  BY Zenon DEF H!Next, PP!H!Next, H!Live, PP!H!Live, H!htlc_create, PP!H!htlc_create, H!NoOptions, PP!H!NoOptions,
         H!Opens, PP!H!Opens, H!htlc_redeem, PP!H!htlc_redeem, H!Restrict, PP!H!Restrict,
         H!ReadMaxTimeout, PP!H!ReadMaxTimeout, H!htlc_extend, PP!H!htlc_extend,
         H!Expired, PP!H!Expired, H!NewBlock, PP!H!NewBlock, H!Held, PP!H!Held, H!SumOver, PP!H!SumOver,
         H!FoldFunctionOnSet, PP!H!FoldFunctionOnSet, H!MapThenFoldSet, PP!H!MapThenFoldSet,
         H!UpdateOptions, PP!H!UpdateOptions, H!Bar, PP!H!Bar
<1>5. UNCHANGED hVars => UNCHANGED PP!H!vars
  BY DEF hVars, PP!H!vars
<1> QED
  BY <1>1, <1>2, <1>3, <1>4, <1>5

\* What each step keeps of the hash time-locked contracts.
HtlcInv == part = "htlc" => PP!HInv

\* The invariant holds at the start and is kept.
LEMMA HtlcKept ==
  /\ Init => HtlcInv
  /\ HtlcInv /\ [Next]_vars => HtlcInv'
<1>1. Init => HtlcInv
  BY SameHtlc, PP!HtlcInit DEF Init, HtlcInv
<1>2. ASSUME HtlcInv, [Next]_vars, part' = "htlc" PROVE PP!HInv'
  <2>1. part = "htlc" /\ PP!HInv /\ (H!Next \/ UNCHANGED hVars)
    BY <1>2 DEF Next, vars, HtlcInv
  <2>2. PP!H!Next \/ UNCHANGED PP!H!vars
    BY <2>1, SameHtlc
  <2> QED
    BY <2>1, <2>2, SameHtlc, PP!HtlcStep
<1> QED
  BY <1>1, <1>2 DEF HtlcInv

\* Conserved in the part "htlc".
LEMMA HtlcConserved ==
  ASSUME part = "htlc", HtlcInv
  PROVE  Conserved
<1> USE DEF HtlcSupply, HtlcAmounts, Preimages, SizeOf, Timeouts, Options, MaxPreimageSize, Restricted,
            MaxContracts, HtlcTime, HtlcChanges
<1>1. PP!H!TypeOK /\ PP!H!Conserved => H!TypeOK /\ H!Conserved
  BY Zenon DEF H!Live, PP!H!Live, H!TypeOK, PP!H!TypeOK, H!FoldFunctionOnSet, PP!H!FoldFunctionOnSet,
         H!MapThenFoldSet, PP!H!MapThenFoldSet, H!SumOver, PP!H!SumOver, H!Held, PP!H!Held,
         H!Cardinality, PP!H!Cardinality, H!Conserved, PP!H!Conserved
<1> QED
  BY <1>1, SameHtlc, PP!InvHtlc DEF Conserved, HtlcInv

\* TimeLocksHold of the composition, from HtlcTimeLocks for every value of the
\* constants: no amount is locked further ahead than the committee allowed
\* (htlc_extend_evaluator), and no sender is refunded before the time agreed
\* (clear_expired_htlcs).
THEOREM TimeLocksAlwaysHold == Spec => TimeLocksHold
<1> DEFINE Bounded == part = "htlc" => H!LocksBounded
<1>1. HtlcInv => Bounded
  <2>1. PP!H!LocksBounded => H!LocksBounded
    BY DEF PP!H!LocksBounded, H!LocksBounded, PP!H!Live, H!Live, PP!H!Max, H!Max, Options
  <2> QED
    BY <2>1, SameHtlc, PP!InvHtlc DEF HtlcInv
<1>2. HtlcInv /\ [Next]_vars => [\A i \in H!Live : H!RefundInTime(i)]_(H!vars)
  <2> SUFFICES ASSUME HtlcInv, [Next]_vars, ~UNCHANGED H!vars, NEW i \in H!Live
               PROVE  H!RefundInTime(i)
    OBVIOUS
  <2>1. part = "htlc" /\ H!Next /\ i \in DOMAIN htlcs
    BY DEF Next, vars, hVars, H!vars, H!Live
  <2> QED
    BY <2>1, SameHtlc, PP!HtlcNotEarly DEF HtlcInv, H!RefundInTime
<1> QED
  BY <1>1, <1>2, HtlcKept, PTL DEF Spec, TimeLocksHold, H!NoEarlyRefund

-----------------------------------------------------------------------------
(* The part "withdraw".                                                    *)

\* The module of the proofs is about the same specification.
LEMMA SameWithdraw ==
  /\ PP!W!WithdrawAssumption /\ PP!NoWrap
  /\ W!Init => PP!W!Init
  /\ W!Next => PP!W!Next
  /\ UNCHANGED wVars => UNCHANGED PP!W!vars
  /\ PP!W!WithinLimits => W!WithinLimits
<1> USE DEF Assets, WithdrawSupply, Limits, WithdrawAmounts, Periods, Counts, Width, Restricted, MaxPermits,
            WithdrawTime, WithdrawUpdates
<1>1. PP!W!WithdrawAssumption
  BY ContractsAssumption DEF W!WithdrawAssumption, PP!W!WithdrawAssumption
<1>2. PP!NoWrap
  BY DEF PP!NoWrap
<1>3. W!Init => PP!W!Init
  BY DEF W!Init, PP!W!Init
<1>4. W!Next => PP!W!Next
  BY Zenon DEF W!Next, PP!W!Next, W!Live, PP!W!Live, W!After, PP!W!After, W!Expiration, PP!W!Expiration,
         W!TermsOK, PP!W!TermsOK, W!Terms, PP!W!Terms, W!Available, PP!W!Available,
         W!CurrentPeriod, PP!W!CurrentPeriod, W!Claimed, PP!W!Claimed, W!Paid, PP!W!Paid,
         W!withdraw_permission_create, PP!W!withdraw_permission_create,
         W!withdraw_permission_update, PP!W!withdraw_permission_update,
         W!withdraw_permission_delete, PP!W!withdraw_permission_delete,
         W!withdraw_permission_claim, PP!W!withdraw_permission_claim,
         W!NewBlock, PP!W!NewBlock, W!Restrict, PP!W!Restrict, W!Bar, PP!W!Bar
<1>5. UNCHANGED wVars => UNCHANGED PP!W!vars
  BY DEF wVars, PP!W!vars
<1>6. PP!W!WithinLimits => W!WithinLimits
  BY Zenon DEF W!WithinLimits, PP!W!WithinLimits, W!LimitPerPeriod, PP!W!LimitPerPeriod, W!TotalBounded, PP!W!TotalBounded,
         W!AvailableExact, PP!W!AvailableExact, W!Live, PP!W!Live, W!Available, PP!W!Available,
         W!CurrentPeriod, PP!W!CurrentPeriod, W!After, PP!W!After, W!SumOver, PP!W!SumOver,
         W!FoldFunctionOnSet, PP!W!FoldFunctionOnSet, W!MapThenFoldSet, PP!W!MapThenFoldSet
<1> QED
  BY <1>1, <1>2, <1>3, <1>4, <1>5, <1>6

\* What each step keeps of the permissions.
WithdrawInv == part = "withdraw" => PP!WInv

\* The invariant holds at the start and is kept.
LEMMA WithdrawInvKept ==
  /\ Init => WithdrawInv
  /\ WithdrawInv /\ [Next]_vars => WithdrawInv'
<1>1. Init => WithdrawInv
  BY SameWithdraw, PP!WithdrawInit DEF Init, WithdrawInv
<1>2. ASSUME WithdrawInv, [Next]_vars, part' = "withdraw" PROVE PP!WInv'
  <2>1. part = "withdraw" /\ PP!WInv /\ (W!Next \/ UNCHANGED wVars)
    BY <1>2 DEF Next, vars, WithdrawInv
  <2>2. PP!W!Next \/ UNCHANGED PP!W!vars
    BY <2>1, SameWithdraw
  <2> QED
    BY <2>1, <2>2, SameWithdraw, PP!WithdrawStep
<1> QED
  BY <1>1, <1>2 DEF WithdrawInv

\* Conserved in the part "withdraw".
LEMMA WithdrawConserved ==
  ASSUME part = "withdraw", WithdrawInv
  PROVE  Conserved
<1> USE DEF Assets, WithdrawSupply, Limits, WithdrawAmounts, Periods, Counts, Width, Restricted, MaxPermits,
            WithdrawTime, WithdrawUpdates
<1>1. PP!W!TypeOK => W!TypeOK
  BY Zenon DEF W!Live, PP!W!Live, W!TypeOK, PP!W!TypeOK
<1> QED
  BY <1>1, SameWithdraw, PP!InvWithdraw DEF Conserved, WithdrawInv

\* WithinLimits of the composition, from WithdrawWithinLimits for every value of
\* the constants under which no time wraps: however periods drift between claims, no
\* more than the limit is taken in any period, nothing after the last one, and
\* nothing is withheld either (withdraw_permission_claim_evaluator).
THEOREM AlwaysWithinLimits == Spec => []WithinLimits
<1>1. WithdrawInv => WithinLimits
  BY SameWithdraw, PP!InvWithdraw DEF WithinLimits, WithdrawInv
<1> QED
  BY <1>1, WithdrawInvKept, PTL DEF Spec

-----------------------------------------------------------------------------
(* The parts "proposals" and "proposal_chain".                             *)

\* The module of the proofs is about the same specification: part "proposals".
LEMMA SameProposals ==
  /\ PP!ProposalsAssumption
  /\ P!Init => PP!Init
  /\ P!Next => PP!Next
  /\ UNCHANGED pVars => UNCHANGED PP!vars
<1>1. PP!ProposalsAssumption
  BY ContractsAssumption DEF P!ProposalsAssumption, PP!ProposalsAssumption, P!Operation, PP!Operation,
         P!Acts, PP!Acts
<1>2. P!Init => PP!Init
  BY DEF P!Init, PP!Init, P!EmptyFun, PP!EmptyFun
<1>3. P!Next => PP!Next
  <2> SUFFICES ASSUME P!Next PROVE PP!Next
    OBVIOUS
  <2>1. P!Saved = PP!Saved /\ P!Top = PP!Top /\ P!Advanced = PP!Advanced /\ P!Fields = PP!Fields
        /\ P!Rest = PP!Rest /\ P!Acts = PP!Acts
    BY DEF P!Saved, PP!Saved, P!Top, PP!Top, P!Last, PP!Last, P!Advanced, PP!Advanced,
           P!Fields, PP!Fields, P!Rest, PP!Rest, P!Acts, PP!Acts
  <2>2. ASSUME NEW m PROVE P!SetProposals(m) = PP!SetProposals(m)
    BY DEF P!SetProposals, PP!SetProposals, P!IndexMove, PP!IndexMove, P!Parties, PP!Parties
  <2>3. ASSUME NEW m, NEW k PROVE P!Without(m, k) = PP!Without(m, k)
    BY DEF P!Without, PP!Without, P!Restrict, PP!Restrict
  <2>4. P!Front(frames) = PP!Front(frames)
    BY DEF P!Front, PP!Front
  <2>5. P!NestingDepth = PP!NestingDepth
    BY DEF P!NestingDepth, PP!NestingDepth, P!Cardinality, PP!Cardinality
  <2>6. ASSUME NEW q, NEW f, NEW add, NEW remove
        PROVE  /\ P!UpdateAllowed(q, f, add, remove) = PP!UpdateAllowed(q, f, add, remove)
               /\ P!Update(q, f, add, remove) = PP!Update(q, f, add, remove)
    BY <2>1, <2>2, <2>5 DEF P!UpdateAllowed, PP!UpdateAllowed, P!InReview, PP!InReview, P!Update, PP!Update,
           P!Approved, PP!Approved, P!Frame, PP!Frame,
           P!is_authorized_to_execute, PP!is_authorized_to_execute
  <2>7. ASSUME NEW q, NEW a
        PROVE  P!DeleteAllowed(q, a) = PP!DeleteAllowed(q, a) /\ P!Delete(q) = PP!Delete(q)
    BY <2>1, <2>2, <2>3 DEF P!DeleteAllowed, PP!DeleteAllowed, P!Delete, PP!Delete
  <2>8. P!Throw => PP!Throw
    BY <2>1, <2>2, <2>3, <2>4, Zenon DEF P!Throw, PP!Throw
  <2>9. P!Op = PP!Op /\ P!Body = PP!Body /\ P!Executing = PP!Executing
    BY <2>1 DEF P!Op, PP!Op, P!Body, PP!Body, P!Executing, PP!Executing
  <2>10. ASSUME NEW k PROVE P!Running(k) = PP!Running(k)
    BY <2>1 DEF P!Running, PP!Running
  <2>11. P!CanDo = PP!CanDo
    BY <2>1, <2>6, <2>7, <2>9 DEF P!CanDo, PP!CanDo
  <2>12. P!Expired = PP!Expired /\ P!FirstExpired = PP!FirstExpired
    BY DEF P!Expired, PP!Expired, P!FirstExpired, PP!FirstExpired
  <2>13. CASE P!TxBegin \/ P!TxCommit \/ P!TxFail
    BY <2>1, <2>8, <2>10, <2>13 DEF PP!Next, P!TxBegin, PP!TxBegin, P!TxCommit, PP!TxCommit, P!TxFail, PP!TxFail,
           P!Frame, PP!Frame
  <2>14. CASE \E b \in {<<Op("act", "a", 0)>>, <<Op("act_owner", "b", 0)>>,
                  <<Op("update", "a", 1), Op("act", "b", 0)>>, <<Op("update", "a", 2)>>,
                  <<Op("update", "a", 1), Op("delete", "a", 1)>>, <<Op("delete", "a", 1)>>}, t \in 1..2, r \in {0, 1} : P!proposal_create(b, t, r)
    BY <2>1, <2>2, <2>10, <2>14, Zenon DEF PP!Next, P!proposal_create, PP!proposal_create, P!Put, PP!Put,
           P!RefersBack, PP!RefersBack, P!Required, PP!Required
  <2>15. CASE \E q \in DOMAIN proposals, f \in P!Fields, a \in {"a", "b"} :
              P!proposal_update(q, f, {a}, {}) \/ P!proposal_update(q, f, {}, {a})
    <3>1. ASSUME NEW q, NEW f, NEW add, NEW remove, P!proposal_update(q, f, add, remove)
          PROVE  PP!proposal_update(q, f, add, remove)
      BY <2>1, <2>6, <2>10, <3>1 DEF P!proposal_update, PP!proposal_update
    <3> QED
      BY <2>1, <2>15, <3>1, Zenon DEF PP!Next
  <2>16. CASE \E q \in DOMAIN proposals, a \in {"a", "b"} : P!proposal_delete(q, a)
    BY <2>1, <2>7, <2>10, <2>16 DEF PP!Next, P!proposal_delete, PP!proposal_delete
  <2>17. CASE P!apply_operation
    <3> DEFINE Does(acts, op, update, delete) ==
                 CASE op.kind \in acts ->
                        /\ done' = [done EXCEPT ![P!Top.p] = @ + 1]
                        /\ frames' = P!Advanced
                        /\ UNCHANGED <<proposals, index, vetoed, nextId>>
                   [] op.kind = "update" -> update
                   [] op.kind = "delete" -> delete
    <3>1. /\ P!Executing /\ P!Top.pc <= Len(P!Body) /\ P!CanDo /\ UNCHANGED pOps /\ P!Rest
          /\ Does(P!Acts, P!Op, P!Update(P!Op.target, "active", {P!Op.by}, {}), P!Delete(P!Op.target))
      BY <2>17, Zenon DEF P!apply_operation
    <3>2. Does(P!Acts, P!Op, PP!Update(P!Op.target, "active", {P!Op.by}, {}), PP!Delete(P!Op.target))
      <4>1. /\ P!Update(P!Op.target, "active", {P!Op.by}, {})
                = PP!Update(P!Op.target, "active", {P!Op.by}, {})
            /\ P!Delete(P!Op.target) = PP!Delete(P!Op.target)
        BY <2>6, <2>7
      <4> HIDE DEF Does
      <4> QED
        BY <3>1, <4>1
    <3>3. PP!apply_operation
      BY <2>1, <2>9, <2>11, <3>1, <3>2, Zenon DEF PP!apply_operation
    <3> QED
      BY <3>3 DEF PP!Next
  <2>18. CASE P!OperationThrows
    BY <2>1, <2>8, <2>9, <2>11, <2>18 DEF PP!Next, P!OperationThrows, PP!OperationThrows
  <2>19. CASE P!Finished
    BY <2>1, <2>2, <2>3, <2>4, <2>9, <2>19 DEF PP!Next, P!Finished, PP!Finished
  <2>20. CASE P!ExpireProposal
    BY <2>1, <2>2, <2>3, <2>12, <2>20 DEF PP!Next, P!ExpireProposal, PP!ExpireProposal, P!Frame, PP!Frame,
           P!is_authorized_to_execute, PP!is_authorized_to_execute
  <2>21. CASE P!NewBlock \/ P!BlockDone \/ P!Toggle
    BY <2>12, <2>21 DEF PP!Next, P!NewBlock, PP!NewBlock, P!BlockDone, PP!BlockDone, P!Toggle, PP!Toggle
  <2> QED
    BY <2>13, <2>14, <2>15, <2>16, <2>17, <2>18, <2>19, <2>20, <2>21 DEF P!Next
<1>4. UNCHANGED pVars => UNCHANGED PP!vars
  BY DEF pVars, PP!vars
<1> QED
  BY <1>1, <1>2, <1>3, <1>4

\* The proofs about Proposals, for the part "proposal_chain".
QP == INSTANCE AgreementProofs WITH
  Accounts <- {"a", "b"},
  Bodies <- {<<Op("act", "a", 0)>>, <<Op("update", "a", 1), Op("act", "b", 0)>>, <<Op("update", "b", 2)>>},
  Reviews <- {0}, MaxLifetime <- 1, MaxNesting <- 2,
  MaxProposals <- 3, MaxTime <- 1, MaxOps <- 5, MaxToggles <- 0,
  now <- pNow, ops <- pOps

\* The module of the proofs is about the same specification: part "proposal_chain".
LEMMA SameChain ==
  /\ QP!ProposalsAssumption
  /\ Q!Init => QP!Init
  /\ Q!Next => QP!Next
  /\ UNCHANGED pVars => UNCHANGED QP!vars
<1>1. QP!ProposalsAssumption
  BY ContractsAssumption DEF Q!ProposalsAssumption, QP!ProposalsAssumption, Q!Operation, QP!Operation,
         Q!Acts, QP!Acts
<1>2. Q!Init => QP!Init
  BY DEF Q!Init, QP!Init, Q!EmptyFun, QP!EmptyFun
<1>3. Q!Next => QP!Next
  <2> SUFFICES ASSUME Q!Next PROVE QP!Next
    OBVIOUS
  <2>1. Q!Saved = QP!Saved /\ Q!Top = QP!Top /\ Q!Advanced = QP!Advanced /\ Q!Fields = QP!Fields
        /\ Q!Rest = QP!Rest /\ Q!Acts = QP!Acts
    BY DEF Q!Saved, QP!Saved, Q!Top, QP!Top, Q!Last, QP!Last, Q!Advanced, QP!Advanced,
           Q!Fields, QP!Fields, Q!Rest, QP!Rest, Q!Acts, QP!Acts
  <2>2. ASSUME NEW m PROVE Q!SetProposals(m) = QP!SetProposals(m)
    BY DEF Q!SetProposals, QP!SetProposals, Q!IndexMove, QP!IndexMove, Q!Parties, QP!Parties
  <2>3. ASSUME NEW m, NEW k PROVE Q!Without(m, k) = QP!Without(m, k)
    BY DEF Q!Without, QP!Without, Q!Restrict, QP!Restrict
  <2>4. Q!Front(frames) = QP!Front(frames)
    BY DEF Q!Front, QP!Front
  <2>5. Q!NestingDepth = QP!NestingDepth
    BY DEF Q!NestingDepth, QP!NestingDepth, Q!Cardinality, QP!Cardinality
  <2>6. ASSUME NEW q, NEW f, NEW add, NEW remove
        PROVE  /\ Q!UpdateAllowed(q, f, add, remove) = QP!UpdateAllowed(q, f, add, remove)
               /\ Q!Update(q, f, add, remove) = QP!Update(q, f, add, remove)
    BY <2>1, <2>2, <2>5 DEF Q!UpdateAllowed, QP!UpdateAllowed, Q!InReview, QP!InReview, Q!Update, QP!Update,
           Q!Approved, QP!Approved, Q!Frame, QP!Frame,
           Q!is_authorized_to_execute, QP!is_authorized_to_execute
  <2>7. ASSUME NEW q, NEW a
        PROVE  Q!DeleteAllowed(q, a) = QP!DeleteAllowed(q, a) /\ Q!Delete(q) = QP!Delete(q)
    BY <2>1, <2>2, <2>3 DEF Q!DeleteAllowed, QP!DeleteAllowed, Q!Delete, QP!Delete
  <2>8. Q!Throw => QP!Throw
    BY <2>1, <2>2, <2>3, <2>4, Zenon DEF Q!Throw, QP!Throw
  <2>9. Q!Op = QP!Op /\ Q!Body = QP!Body /\ Q!Executing = QP!Executing
    BY <2>1 DEF Q!Op, QP!Op, Q!Body, QP!Body, Q!Executing, QP!Executing
  <2>10. ASSUME NEW k PROVE Q!Running(k) = QP!Running(k)
    BY <2>1 DEF Q!Running, QP!Running
  <2>11. Q!CanDo = QP!CanDo
    BY <2>1, <2>6, <2>7, <2>9 DEF Q!CanDo, QP!CanDo
  <2>12. Q!Expired = QP!Expired /\ Q!FirstExpired = QP!FirstExpired
    BY DEF Q!Expired, QP!Expired, Q!FirstExpired, QP!FirstExpired
  <2>13. CASE Q!TxBegin \/ Q!TxCommit \/ Q!TxFail
    BY <2>1, <2>8, <2>10, <2>13 DEF QP!Next, Q!TxBegin, QP!TxBegin, Q!TxCommit, QP!TxCommit, Q!TxFail, QP!TxFail,
           Q!Frame, QP!Frame
  <2>14. CASE \E b \in {<<Op("act", "a", 0)>>, <<Op("update", "a", 1), Op("act", "b", 0)>>,
                  <<Op("update", "b", 2)>>}, t \in 1..1, r \in {0} : Q!proposal_create(b, t, r)
    BY <2>1, <2>2, <2>10, <2>14, Zenon DEF QP!Next, Q!proposal_create, QP!proposal_create, Q!Put, QP!Put,
           Q!RefersBack, QP!RefersBack, Q!Required, QP!Required
  <2>15. CASE \E q \in DOMAIN proposals, f \in Q!Fields, a \in {"a", "b"} :
              Q!proposal_update(q, f, {a}, {}) \/ Q!proposal_update(q, f, {}, {a})
    <3>1. ASSUME NEW q, NEW f, NEW add, NEW remove, Q!proposal_update(q, f, add, remove)
          PROVE  QP!proposal_update(q, f, add, remove)
      BY <2>1, <2>6, <2>10, <3>1 DEF Q!proposal_update, QP!proposal_update
    <3> QED
      BY <2>1, <2>15, <3>1 DEF QP!Next
  <2>16. CASE \E q \in DOMAIN proposals, a \in {"a", "b"} : Q!proposal_delete(q, a)
    BY <2>1, <2>7, <2>10, <2>16 DEF QP!Next, Q!proposal_delete, QP!proposal_delete
  <2>17. CASE Q!apply_operation
    <3> DEFINE Does(acts, op, update, delete) ==
                 CASE op.kind \in acts ->
                        /\ done' = [done EXCEPT ![Q!Top.p] = @ + 1]
                        /\ frames' = Q!Advanced
                        /\ UNCHANGED <<proposals, index, vetoed, nextId>>
                   [] op.kind = "update" -> update
                   [] op.kind = "delete" -> delete
    <3>1. /\ Q!Executing /\ Q!Top.pc <= Len(Q!Body) /\ Q!CanDo /\ UNCHANGED pOps /\ Q!Rest
          /\ Does(Q!Acts, Q!Op, Q!Update(Q!Op.target, "active", {Q!Op.by}, {}), Q!Delete(Q!Op.target))
      BY <2>17, Zenon DEF Q!apply_operation
    <3>2. Does(Q!Acts, Q!Op, QP!Update(Q!Op.target, "active", {Q!Op.by}, {}), QP!Delete(Q!Op.target))
      <4>1. /\ Q!Update(Q!Op.target, "active", {Q!Op.by}, {})
                = QP!Update(Q!Op.target, "active", {Q!Op.by}, {})
            /\ Q!Delete(Q!Op.target) = QP!Delete(Q!Op.target)
        BY <2>6, <2>7
      <4> HIDE DEF Does
      <4> QED
        BY <3>1, <4>1
    <3>3. QP!apply_operation
      BY <2>1, <2>9, <2>11, <3>1, <3>2, Zenon DEF QP!apply_operation
    <3> QED
      BY <3>3 DEF QP!Next
  <2>18. CASE Q!OperationThrows
    BY <2>1, <2>8, <2>9, <2>11, <2>18 DEF QP!Next, Q!OperationThrows, QP!OperationThrows
  <2>19. CASE Q!Finished
    BY <2>1, <2>2, <2>3, <2>4, <2>9, <2>19 DEF QP!Next, Q!Finished, QP!Finished
  <2>20. CASE Q!ExpireProposal
    BY <2>1, <2>2, <2>3, <2>12, <2>20 DEF QP!Next, Q!ExpireProposal, QP!ExpireProposal, Q!Frame, QP!Frame,
           Q!is_authorized_to_execute, QP!is_authorized_to_execute
  <2>21. CASE Q!NewBlock \/ Q!BlockDone \/ Q!Toggle
    BY <2>12, <2>21 DEF QP!Next, Q!NewBlock, QP!NewBlock, Q!BlockDone, QP!BlockDone, Q!Toggle, QP!Toggle
  <2> QED
    BY <2>13, <2>14, <2>15, <2>16, <2>17, <2>18, <2>19, <2>20, <2>21 DEF Q!Next
<1>4. UNCHANGED pVars => UNCHANGED QP!vars
  BY DEF pVars, QP!vars
<1> QED
  BY <1>1, <1>2, <1>3, <1>4

\* The properties of the composition are those of either part.
LEMMA SameGuards ==
  /\ PP!ProposalsGuarded => P!ProposalsGuarded
  /\ QP!ProposalsGuarded => P!ProposalsGuarded
<1> USE DEF P!ProposalsGuarded, P!FramesAlive, P!NestingDescends, P!ReviewHonoured, P!ReviewFrozen, P!InReview,
            P!IndexSound, P!Parties
<1>1. PP!ProposalsGuarded => P!ProposalsGuarded
  BY DEF PP!ProposalsGuarded, PP!FramesAlive, PP!NestingDescends, PP!ReviewHonoured, PP!ReviewFrozen,
         PP!InReview, PP!IndexSound, PP!Parties
<1>2. QP!ProposalsGuarded => P!ProposalsGuarded
  BY DEF QP!ProposalsGuarded, QP!FramesAlive, QP!NestingDescends, QP!ReviewHonoured, QP!ReviewFrozen,
         QP!InReview, QP!IndexSound, QP!Parties
<1> QED
  BY <1>1, <1>2

\* What each step of the composition keeps.
PartsInv ==
  /\ part = "proposals" => PP!PInv
  /\ part = "proposal_chain" => QP!PInv

\* The invariant of either part holds at the start and is kept.
LEMMA PartsKept ==
  /\ Init => PartsInv
  /\ PartsInv /\ [Next]_vars => PartsInv'
<1>1. Init => PartsInv
  BY SameProposals, SameChain, PP!ProposalsInit, QP!ProposalsInit DEF Init, PartsInv
<1>2. ASSUME PartsInv, [Next]_vars, part' = "proposals" PROVE PP!PInv'
  <2>1. part = "proposals" /\ PP!PInv /\ (P!Next \/ UNCHANGED pVars)
    BY <1>2 DEF Next, vars, PartsInv
  <2>2. [PP!Next]_(PP!vars)
    BY <2>1, SameProposals
  <2> QED
    BY <2>1, <2>2, SameProposals, PP!ProposalsStep
<1>3. ASSUME PartsInv, [Next]_vars, part' = "proposal_chain" PROVE QP!PInv'
  <2>1. part = "proposal_chain" /\ QP!PInv /\ (Q!Next \/ UNCHANGED pVars)
    BY <1>3 DEF Next, vars, PartsInv
  <2>2. [QP!Next]_(QP!vars)
    BY <2>1, SameChain
  <2> QED
    BY <2>1, <2>2, SameChain, QP!ProposalsStep
<1> QED
  BY <1>1, <1>2, <1>3 DEF PartsInv

\* Conserved in the part "proposals".
LEMMA ProposalsConserved ==
  ASSUME part = "proposals", PartsInv
  PROVE  Conserved
<1>1. PP!TypeOK => P!TypeOK
  BY Zenon DEF P!TypeOK, PP!TypeOK
<1> QED
  BY <1>1, SameProposals, PP!InvGuards DEF Conserved, PartsInv

\* Conserved in the part "proposal_chain".
LEMMA ChainConserved ==
  ASSUME part = "proposal_chain", PartsInv
  PROVE  Conserved
<1>1. QP!TypeOK => Q!TypeOK
  BY Zenon DEF Q!TypeOK, QP!TypeOK
<1> QED
  BY <1>1, SameChain, QP!InvGuards DEF Conserved, PartsInv

\* ProposalsGuarded of the composition, from ProposalsAreGuarded for every value of
\* the constants: no proposal is gone while it executes, nested executions go to
\* older proposals, the review period holds also against other proposals, and the
\* index tracks nothing that is gone (proposal_evaluator.cpp).
THEOREM ProposalsAlwaysGuarded == Spec => []ProposalsGuarded
<1>1. PartsInv => ProposalsGuarded
  BY SameProposals, SameChain, SameGuards, PP!InvGuards, QP!InvGuards DEF PartsInv, ProposalsGuarded
<1> QED
  BY <1>1, PartsKept, PTL DEF Spec

\* ProposalsResolve of the composition, from ProposalsAllResolve for every value of
\* the constants: the operations of a proposal take effect at most once, a proposal
\* that fails is kept for another try, and none is left when it has expired
\* (push_proposal, clear_expired_proposals).
THEOREM ProposalsAlwaysResolve == Spec => ProposalsResolve
<1> DEFINE Resolved == part \in {"proposals", "proposal_chain"} => P!ExecutedOnce /\ P!NoneExpired
<1>1. PartsInv => Resolved
  <2>1. (PP!ExecutedOnce => P!ExecutedOnce) /\ (QP!ExecutedOnce => P!ExecutedOnce)
    BY DEF P!ExecutedOnce, PP!ExecutedOnce, QP!ExecutedOnce
  <2>2. (PP!NoneExpired => P!NoneExpired) /\ (QP!NoneExpired => P!NoneExpired)
    BY DEF P!NoneExpired, PP!NoneExpired, QP!NoneExpired
  <2> QED
    BY <2>1, <2>2, SameProposals, SameChain, PP!InvResolves, QP!InvResolves DEF PartsInv
<1>2. PartsInv /\ [Next]_vars => [\A i \in DOMAIN proposals : P!Kept(i)]_(P!vars)
  <2> SUFFICES ASSUME PartsInv, [Next]_vars, ~UNCHANGED P!vars, NEW i \in DOMAIN proposals
               PROVE  P!Kept(i)
    OBVIOUS
  <2>1. \/ part = "proposals" /\ P!Next
        \/ part = "proposal_chain" /\ Q!Next
    BY DEF Next, vars, pVars, P!vars
  <2>2. CASE part = "proposals" /\ P!Next
    <3>1. PP!Kept(i)
      BY <2>2, SameProposals, PP!StepResolves DEF PartsInv
    <3> QED
      BY <3>1 DEF P!Kept, PP!Kept, P!Top, PP!Top, P!Last, PP!Last
  <2>3. CASE part = "proposal_chain" /\ Q!Next
    <3>1. QP!Kept(i)
      BY <2>3, SameChain, QP!StepResolves DEF PartsInv
    <3> QED
      BY <3>1 DEF P!Kept, QP!Kept, P!Top, QP!Top, P!Last, QP!Last
  <2> QED
    BY <2>1, <2>2, <2>3
<1> QED
  BY <1>1, <1>2, PartsKept, PTL DEF Spec, ProposalsResolve, P!KeptUntilResolved

-----------------------------------------------------------------------------
(* The part "samet".                                                       *)

\* The proofs about SametFund, Ticket and Vesting, for the parts "samet", "tickets"
\* and "vesting".
SP == INSTANCE LockupProofs WITH
  Accounts <- {"a", "b"}, Wealth <- 3, Amounts <- {1, 2}, RateDenom <- 3, Rates <- {1, 2},
  MaxFunds <- 2, MaxNesting <- 2, MaxOps <- 4,
  bal <- sBal, ops <- sOps, created <- sCreated,
  Holders <- {"a"}, TicketSupply <- 2, TicketAmounts <- {1, 2}, Steps <- {1, 5},
  ChargingStep <- 2, CancelTime <- 1, DowngradeTime <- [k \in 0..2 |-> IF k = 2 THEN 4 ELSE 3],
  ForeverStep <- 2, MaxTickets <- 2, TicketTime <- 8, TicketUpdates <- 2,
  Members <- {"payer", "ref"}, VestingSupply <- 3, Reserved <- {}, Payer <- "payer",
  Referrer <- "ref", LifetimeReferrer <- "ref", Registrar <- "ref", MemberUntil <- 2,
  NetworkCut <- 20, LifetimeCut <- 30, ReferrerCut <- 75, Fees <- {2, 3}, Threshold <- 2,
  VestingAmounts <- {1, 2}, Cliff <- 1, VestingDuration <- 3, VestingPeriods <- {1, 2},
  GenesisVesting <- 3, Day <- 2, VestingTime <- 3, MaxFees <- 0, MaxCreated <- 2, VestingChanges <- 0

\* The module of the proofs is about the same specification.
LEMMA SameSamet ==
  /\ SP!SametAssumption
  /\ S!Init => SP!Init
  /\ S!Next => SP!Next
  /\ UNCHANGED sVars => UNCHANGED SP!vars
  /\ SP!FundsRepaid => S!FundsRepaid
<1>1. SP!SametAssumption
  BY ContractsAssumption DEF S!SametAssumption, SP!SametAssumption, S!IsFiniteSet, SP!IsFiniteSet
<1>2. S!Init => SP!Init
  BY DEF S!Init, SP!Init, S!Empty, SP!Empty
<1>3. S!Next => SP!Next
  BY Zenon DEF S!Put, SP!Put, S!Without, SP!Without, S!CeilDiv, SP!CeilDiv, S!State, SP!State,
         S!Begin, SP!Begin, S!BeginNested, SP!BeginNested, S!AllPaid, SP!AllPaid, S!End,
         SP!End, S!Fail, SP!Fail, S!Operates, SP!Operates, S!samet_fund_create,
         SP!samet_fund_create, S!samet_fund_delete, SP!samet_fund_delete, S!samet_fund_update,
         SP!samet_fund_update, S!samet_fund_update_rate, SP!samet_fund_update_rate,
         S!samet_fund_borrow, SP!samet_fund_borrow, S!RequiredFee, SP!RequiredFee,
         S!samet_fund_repay, SP!samet_fund_repay, S!Next, SP!Next, S!Front, SP!Front, S!Last,
         SP!Last, S!Restrict, SP!Restrict
<1>4. UNCHANGED sVars => UNCHANGED SP!vars
  BY DEF sVars, SP!vars
<1>5. SP!FundsRepaid => S!FundsRepaid
  BY DEF S!FundsRepaid, SP!FundsRepaid, S!NoUnpaidBetween, SP!NoUnpaidBetween,
         S!OwnerNeverLoses, SP!OwnerNeverLoses
<1> QED
  BY <1>1, <1>2, <1>3, <1>4, <1>5

\* What each step keeps of the funds.
SametInv == part = "samet" => SP!IInv

\* The invariant holds at the start and is kept.
LEMMA SametInvKept ==
  /\ Init => SametInv
  /\ SametInv /\ [Next]_vars => SametInv'
<1>1. Init => SametInv
  BY SameSamet, SP!InitSound DEF Init, SametInv
<1>2. ASSUME SametInv, [Next]_vars, part' = "samet" PROVE SP!IInv'
  <2>1. part = "samet" /\ SP!IInv /\ (S!Next \/ UNCHANGED sVars)
    BY <1>2 DEF Next, vars, SametInv
  <2>2. [SP!Next]_(SP!vars)
    BY <2>1, SameSamet
  <2> QED
    BY <2>1, <2>2, SameSamet, SP!StepKeeps
<1> QED
  BY <1>1, <1>2 DEF SametInv

\* Conserved in the part "samet".
LEMMA SametConserved ==
  ASSUME part = "samet", SametInv
  PROVE  Conserved
<1>1. SP!TypeOK => S!TypeOK
  BY DEF S!FundOK, SP!FundOK, S!TypeOK, SP!TypeOK
<1>2. SP!Conserved => S!Conserved
  BY Zenon DEF S!State, SP!State, S!ToSet, SP!ToSet, S!FoldFunctionOnSet, SP!FoldFunctionOnSet,
         S!MapThenFoldSet, SP!MapThenFoldSet, S!SumOver, SP!SumOver, S!Free, SP!Free, S!Total,
         SP!Total, S!Cardinality, SP!Cardinality, S!Conserved, SP!Conserved
<1> QED
  BY <1>1, <1>2, SameSamet, SP!InvSound DEF Conserved, SametInv

\* FundsRepaid of the composition, from SametFundsRepaid for every value of the
\* constants: between transactions no fund is owed anything, whatever failed or was
\* nested, and lending never costs the owner anything (samet_fund_evaluator.cpp).
THEOREM FundsAlwaysRepaid == Spec => []FundsRepaid
<1>1. SametInv => FundsRepaid
  BY SameSamet, SP!InvSound DEF FundsRepaid, SametInv
<1> QED
  BY <1>1, SametInvKept, PTL DEF Spec

-----------------------------------------------------------------------------
(* The parts "tickets" and "ticket".                                       *)

\* The module of the proofs is about the same tickets.
LEMMA SameTickets ==
  /\ SP!T!TicketAssumption
  /\ T!Init => SP!T!Init
  /\ T!Next => SP!T!Next
  /\ UNCHANGED tVars => UNCHANGED SP!T!vars
  /\ SP!T!StatsExact /\ SP!T!OthersUntouched => T!StatsExact /\ T!OthersUntouched
<1>1. SP!T!TicketAssumption
  BY ContractsAssumption DEF T!TicketAssumption, SP!T!TicketAssumption, T!IsFiniteSet, SP!T!IsFiniteSet
<1>2. T!Init => SP!T!Init
  BY DEF T!Init, SP!T!Init, T!NoStats, SP!T!NoStats
<1>3. T!Next => SP!T!Next
  <2>1. /\ T!liquid = SP!T!liquid /\ T!lock_forever = SP!T!lock_forever
        /\ T!Types = SP!T!Types /\ T!Live = SP!T!Live /\ T!Never = SP!T!Never /\ T!Multiplier = SP!T!Multiplier
    BY DEF T!liquid, SP!T!liquid, T!lock_forever, SP!T!lock_forever, T!Types, SP!T!Types, T!Live, SP!T!Live,
           T!Never, SP!T!Never, T!Multiplier, SP!T!Multiplier
  <2>2. \A t, k : T!WithValue(t) = SP!T!WithValue(t) /\ T!LockTime(k) = SP!T!LockTime(k)
    BY DEF T!WithValue, SP!T!WithValue, T!LockTime, SP!T!LockTime,
           T!lock_forever, SP!T!lock_forever, T!Types, SP!T!Types, T!liquid, SP!T!liquid, T!Multiplier, SP!T!Multiplier
  <2>3. \A a, k, n : T!NewTicket(a, k, n) = SP!T!NewTicket(a, k, n)
    BY <2>1, <2>2 DEF T!NewTicket, SP!T!NewTicket
  <2>4. \A t, k : T!Downgraded(t, k) = SP!T!Downgraded(t, k)
    BY <2>1 DEF T!Downgraded, SP!T!Downgraded
  <2>5. \A t, k : T!Retargeted(t, k) = SP!T!Retargeted(t, k)
    <3>1. ASSUME NEW t, NEW k PROVE T!Retargeted(t, k) = SP!T!Retargeted(t, k)
      <4>1. \A z : T!Max(z) = SP!T!Max(z)
        BY DEF T!Max, SP!T!Max
      <4>2. \A z : T!Downgraded(z, k) = SP!T!Downgraded(z, k) /\ T!WithValue(z) = SP!T!WithValue(z)
            /\ T!LockTime(z) = SP!T!LockTime(z)
        BY <2>2, <2>4
      <4> QED
        BY ONLY <4>1, <4>2, Zenon DEF T!Retargeted, SP!T!Retargeted
    <3> QED
      BY <3>1
  <2>6. \A t : T!Charged(t) = SP!T!Charged(t) /\ T!Withdrawn(t) = SP!T!Withdrawn(t)
    BY <2>1 DEF T!Charged, SP!T!Charged, T!Withdrawn, SP!T!Withdrawn
  <2>7. \A t : T!Decayed(t) = SP!T!Decayed(t)
    BY <2>1 DEF T!Decayed, SP!T!Decayed, T!Max, SP!T!Max
  <2>8. \A t : T!AutoUpdated(t) = SP!T!AutoUpdated(t)
    BY <2>1, <2>2, <2>6, <2>7 DEF T!AutoUpdated, SP!T!AutoUpdated
  <2>9. \A r, x, y, v : T!UpdateStats(r, x, y, v) = SP!T!UpdateStats(r, x, y, v)
    BY DEF T!UpdateStats, SP!T!UpdateStats
  <2>10. \A r, x, y : /\ T!AutoStats(r, x, y) = SP!T!AutoStats(r, x, y)
                      /\ T!WithLocked(r, x, y) = SP!T!WithLocked(r, x, y)
    BY <2>1 DEF T!AutoStats, SP!T!AutoStats,
                T!WithLocked, SP!T!WithLocked
  <2>11. T!Due = SP!T!Due /\ T!FirstDue = SP!T!FirstDue
    BY <2>1 DEF T!Due, SP!T!Due, T!FirstDue, SP!T!FirstDue
  <2>12. \A a, k, n : T!ticket_create(a, k, n) => SP!T!ticket_create(a, k, n)
    BY DEF T!lock_forever, SP!T!lock_forever, T!liquid, SP!T!liquid, T!Types, SP!T!Types, T!Multiplier,
         SP!T!Multiplier, T!WithValue, SP!T!WithValue, T!Never, SP!T!Never, T!NewTicket,
         SP!T!NewTicket, T!Live, SP!T!Live, T!WithLocked, SP!T!WithLocked, T!ticket_create,
         SP!T!ticket_create
  <2>13. \A j, k, n : T!ticket_update(j, k, n) => SP!T!ticket_update(j, k, n)
    BY <2>1, <2>2, <2>5, <2>9 DEF T!ticket_update, SP!T!ticket_update
  <2>14. T!ProcessTicket => SP!T!ProcessTicket
    <3>1. \A f, z : T!Restrict(f, z) = SP!T!Restrict(f, z) /\ T!Max(z) = SP!T!Max(z)
      BY DEF T!Restrict, SP!T!Restrict, T!Max, SP!T!Max
    <3> QED
      BY ONLY <2>1, <2>2, <2>8, <2>10, <2>11, <3>1 DEF T!ProcessTicket, SP!T!ProcessTicket
  <2>15. T!Processed => SP!T!Processed
    BY <2>11 DEF T!Processed, SP!T!Processed
  <2>16. \A step : T!NewBlock(step) => SP!T!NewBlock(step)
    BY DEF T!NewBlock, SP!T!NewBlock
  <2> QED
    BY <2>1, <2>12, <2>13, <2>14, <2>15, <2>16 DEF T!Next, SP!T!Next
<1>4. UNCHANGED tVars => UNCHANGED SP!T!vars
  BY DEF tVars, SP!T!vars
<1>5. SP!T!StatsExact /\ SP!T!OthersUntouched => T!StatsExact /\ T!OthersUntouched
  BY Zenon DEF T!StatsExact, SP!T!StatsExact, T!OthersUntouched, SP!T!OthersUntouched, T!Live, SP!T!Live, T!Share,
         SP!T!Share, T!NoStats, SP!T!NoStats, T!lock_forever, SP!T!lock_forever, T!SumOver, SP!T!SumOver,
         T!FoldFunctionOnSet, SP!T!FoldFunctionOnSet, T!MapThenFoldSet, SP!T!MapThenFoldSet
<1> QED
  BY <1>1, <1>2, <1>3, <1>4, <1>5

\* The proofs about Ticket and Vesting, for the parts "ticket" and "cashback".
UP == INSTANCE LockupProofs WITH
  Accounts <- {"a", "b"}, Wealth <- 3, Amounts <- {1, 2}, RateDenom <- 3, Rates <- {1, 2},
  MaxFunds <- 2, MaxNesting <- 2, MaxOps <- 4,
  bal <- sBal, ops <- sOps, created <- sCreated,
  Holders <- {"a"}, TicketSupply <- 1, TicketAmounts <- {1}, Steps <- {1, 5},
  ChargingStep <- 2, CancelTime <- 1, DowngradeTime <- [k \in 0..2 |-> IF k = 2 THEN 4 ELSE 3],
  ForeverStep <- 2, MaxTickets <- 1, TicketTime <- 13, TicketUpdates <- 3,
  Members <- {"payer", "ref", "life"}, VestingSupply <- 8, Reserved <- {"life"}, Payer <- "payer",
  Referrer <- "ref", LifetimeReferrer <- "life", Registrar <- "ref", MemberUntil <- 2,
  NetworkCut <- 20, LifetimeCut <- 30, ReferrerCut <- 75, Fees <- {2, 3}, Threshold <- 2,
  VestingAmounts <- {1, 2}, Cliff <- 1, VestingDuration <- 3, VestingPeriods <- {1, 2},
  GenesisVesting <- 0, Day <- 2, VestingTime <- 4, MaxFees <- 3, MaxCreated <- 0, VestingChanges <- 1

\* The same for the single ticket.
LEMMA SameTicket ==
  /\ UP!T!TicketAssumption
  /\ U!Init => UP!T!Init
  /\ U!Next => UP!T!Next
  /\ UNCHANGED tVars => UNCHANGED UP!T!vars
  /\ UP!T!StatsExact /\ UP!T!OthersUntouched => U!StatsExact /\ U!OthersUntouched
<1>1. UP!T!TicketAssumption
  BY ContractsAssumption DEF U!TicketAssumption, UP!T!TicketAssumption, U!IsFiniteSet, UP!T!IsFiniteSet
<1>2. U!Init => UP!T!Init
  BY DEF U!Init, UP!T!Init, U!NoStats, UP!T!NoStats
<1>3. U!Next => UP!T!Next
  <2>1. /\ U!liquid = UP!T!liquid /\ U!lock_forever = UP!T!lock_forever
        /\ U!Types = UP!T!Types /\ U!Live = UP!T!Live /\ U!Never = UP!T!Never /\ U!Multiplier = UP!T!Multiplier
    BY DEF U!liquid, UP!T!liquid, U!lock_forever, UP!T!lock_forever, U!Types, UP!T!Types, U!Live, UP!T!Live,
           U!Never, UP!T!Never, U!Multiplier, UP!T!Multiplier
  <2>2. \A t, k : U!WithValue(t) = UP!T!WithValue(t) /\ U!LockTime(k) = UP!T!LockTime(k)
    BY DEF U!WithValue, UP!T!WithValue, U!LockTime, UP!T!LockTime,
           U!lock_forever, UP!T!lock_forever, U!Types, UP!T!Types, U!liquid, UP!T!liquid, U!Multiplier, UP!T!Multiplier
  <2>3. \A a, k, n : U!NewTicket(a, k, n) = UP!T!NewTicket(a, k, n)
    BY <2>1, <2>2 DEF U!NewTicket, UP!T!NewTicket
  <2>4. \A t, k : U!Downgraded(t, k) = UP!T!Downgraded(t, k)
    BY <2>1 DEF U!Downgraded, UP!T!Downgraded
  <2>5. \A t, k : U!Retargeted(t, k) = UP!T!Retargeted(t, k)
    <3>1. ASSUME NEW t, NEW k PROVE U!Retargeted(t, k) = UP!T!Retargeted(t, k)
      <4>1. \A z : U!Max(z) = UP!T!Max(z)
        BY DEF U!Max, UP!T!Max
      <4>2. \A z : U!Downgraded(z, k) = UP!T!Downgraded(z, k) /\ U!WithValue(z) = UP!T!WithValue(z)
            /\ U!LockTime(z) = UP!T!LockTime(z)
        BY <2>2, <2>4
      <4> QED
        BY ONLY <4>1, <4>2, Zenon DEF U!Retargeted, UP!T!Retargeted
    <3> QED
      BY <3>1
  <2>6. \A t : U!Charged(t) = UP!T!Charged(t) /\ U!Withdrawn(t) = UP!T!Withdrawn(t)
    BY <2>1 DEF U!Charged, UP!T!Charged, U!Withdrawn, UP!T!Withdrawn
  <2>7. \A t : U!Decayed(t) = UP!T!Decayed(t)
    BY <2>1 DEF U!Decayed, UP!T!Decayed, U!Max, UP!T!Max
  <2>8. \A t : U!AutoUpdated(t) = UP!T!AutoUpdated(t)
    BY <2>1, <2>2, <2>6, <2>7 DEF U!AutoUpdated, UP!T!AutoUpdated
  <2>9. \A r, x, y, v : U!UpdateStats(r, x, y, v) = UP!T!UpdateStats(r, x, y, v)
    BY DEF U!UpdateStats, UP!T!UpdateStats
  <2>10. \A r, x, y : /\ U!AutoStats(r, x, y) = UP!T!AutoStats(r, x, y)
                      /\ U!WithLocked(r, x, y) = UP!T!WithLocked(r, x, y)
    BY <2>1 DEF U!AutoStats, UP!T!AutoStats,
                U!WithLocked, UP!T!WithLocked
  <2>11. U!Due = UP!T!Due /\ U!FirstDue = UP!T!FirstDue
    BY <2>1 DEF U!Due, UP!T!Due, U!FirstDue, UP!T!FirstDue
  <2>12. \A a, k, n : U!ticket_create(a, k, n) => UP!T!ticket_create(a, k, n)
    BY DEF U!lock_forever, UP!T!lock_forever, U!liquid, UP!T!liquid, U!Types, UP!T!Types, U!Multiplier,
         UP!T!Multiplier, U!WithValue, UP!T!WithValue, U!Never, UP!T!Never, U!NewTicket,
         UP!T!NewTicket, U!Live, UP!T!Live, U!WithLocked, UP!T!WithLocked, U!ticket_create,
         UP!T!ticket_create
  <2>13. \A j, k, n : U!ticket_update(j, k, n) => UP!T!ticket_update(j, k, n)
    BY <2>1, <2>2, <2>5, <2>9 DEF U!ticket_update, UP!T!ticket_update
  <2>14. U!ProcessTicket => UP!T!ProcessTicket
    <3>1. \A f, z : U!Restrict(f, z) = UP!T!Restrict(f, z) /\ U!Max(z) = UP!T!Max(z)
      BY DEF U!Restrict, UP!T!Restrict, U!Max, UP!T!Max
    <3> QED
      BY ONLY <2>1, <2>2, <2>8, <2>10, <2>11, <3>1 DEF U!ProcessTicket, UP!T!ProcessTicket
  <2>15. U!Processed => UP!T!Processed
    BY <2>11 DEF U!Processed, UP!T!Processed
  <2>16. \A step : U!NewBlock(step) => UP!T!NewBlock(step)
    BY DEF U!NewBlock, UP!T!NewBlock
  <2> QED
    BY <2>1, <2>12, <2>13, <2>14, <2>15, <2>16 DEF U!Next, UP!T!Next
<1>4. UNCHANGED tVars => UNCHANGED UP!T!vars
  BY DEF tVars, UP!T!vars
<1>5. UP!T!StatsExact /\ UP!T!OthersUntouched => U!StatsExact /\ U!OthersUntouched
  BY Zenon DEF U!StatsExact, UP!T!StatsExact, U!OthersUntouched, UP!T!OthersUntouched, U!Live, UP!T!Live, U!Share,
         UP!T!Share, U!NoStats, UP!T!NoStats, U!lock_forever, UP!T!lock_forever, U!SumOver, UP!T!SumOver,
         U!FoldFunctionOnSet, UP!T!FoldFunctionOnSet, U!MapThenFoldSet, UP!T!MapThenFoldSet
<1> QED
  BY <1>1, <1>2, <1>3, <1>4, <1>5

\* What each step keeps of the tickets.
TicketsInv == (part = "tickets" => SP!TInv) /\ (part = "ticket" => UP!TInv)

\* The invariant holds at the start and is kept.
LEMMA TicketsInvKept ==
  /\ Init => TicketsInv
  /\ TicketsInv /\ [Next]_vars => TicketsInv'
<1>1. Init => TicketsInv
  BY SameTickets, SameTicket, SP!TicketInit, UP!TicketInit DEF Init, TicketsInv
<1>2. ASSUME TicketsInv, [Next]_vars, part' = "tickets" PROVE SP!TInv'
  <2>1. part = "tickets" /\ SP!TInv /\ (T!Next \/ UNCHANGED tVars)
    BY <1>2 DEF Next, vars, TicketsInv
  <2>2. SP!T!Next \/ UNCHANGED SP!T!vars
    BY <2>1, SameTickets
  <2> QED
    BY <2>1, <2>2, SameTickets, SP!TicketStep
<1>3. ASSUME TicketsInv, [Next]_vars, part' = "ticket" PROVE UP!TInv'
  <2>1. part = "ticket" /\ UP!TInv /\ (U!Next \/ UNCHANGED tVars)
    BY <1>3 DEF Next, vars, TicketsInv
  <2>2. UP!T!Next \/ UNCHANGED UP!T!vars
    BY <2>1, SameTicket
  <2> QED
    BY <2>1, <2>2, SameTicket, UP!TicketStep
<1> QED
  BY <1>1, <1>2, <1>3 DEF TicketsInv

\* Conserved in the part "tickets".
LEMMA TicketsConserved ==
  ASSUME part = "tickets", TicketsInv
  PROVE  Conserved
<1>1. SP!T!TypeOK /\ SP!T!Conserved => T!TypeOK /\ T!Conserved
  BY Zenon DEF T!Live, SP!T!Live, T!liquid, SP!T!liquid, T!lock_forever, SP!T!lock_forever, T!Types,
         SP!T!Types, T!TypeOK, SP!T!TypeOK, T!FoldFunctionOnSet, SP!T!FoldFunctionOnSet,
         T!MapThenFoldSet, SP!T!MapThenFoldSet, T!SumOver, SP!T!SumOver, T!Cardinality,
         SP!T!Cardinality, T!Conserved, SP!T!Conserved
<1> QED
  BY <1>1, SameTickets, SP!TicketsAre DEF Conserved, TicketsInv

\* Conserved in the part "ticket".
LEMMA TicketConserved ==
  ASSUME part = "ticket", TicketsInv
  PROVE  Conserved
<1>1. UP!T!TypeOK /\ UP!T!Conserved => U!TypeOK /\ U!Conserved
  BY Zenon DEF U!Live, UP!T!Live, U!liquid, UP!T!liquid, U!lock_forever, UP!T!lock_forever, U!Types,
         UP!T!Types, U!TypeOK, UP!T!TypeOK, U!FoldFunctionOnSet, UP!T!FoldFunctionOnSet,
         U!MapThenFoldSet, UP!T!MapThenFoldSet, U!SumOver, UP!T!SumOver, U!Cardinality,
         UP!T!Cardinality, U!Conserved, UP!T!Conserved
<1> QED
  BY <1>1, SameTicket, UP!TicketsAre DEF Conserved, TicketsInv

\* What a step of the composition does to the tickets.
LEMMA TicketsMove ==
  ASSUME TicketsInv, [Next]_vars, ~UNCHANGED T!vars
  PROVE  /\ \A i \in T!Live : T!PaidInTime(i) /\ T!OnlyLosesValue(i)
         /\ T!Advances
<1>1. (part = "tickets" /\ T!Next) \/ (part = "ticket" /\ U!Next)
  BY DEF Next, vars, tVars, T!vars
<1>2. CASE part = "tickets" /\ T!Next
  <2>1. SP!TInv /\ SP!T!Next /\ SP!T!TicketAssumption
    BY <1>2, SameTickets DEF TicketsInv
  <2>2. \A i \in DOMAIN tickets : SP!T!PaidInTime(i) /\ SP!T!OnlyLosesValue(i)
    BY <2>1, SP!TicketsOnly
  <2>3. SP!T!Advances
    BY <2>1, SP!TurnAdvances DEF SP!T!vars, T!vars
  <2>4. \A i \in T!Live : T!PaidInTime(i) /\ T!OnlyLosesValue(i)
    BY <2>2 DEF T!Live, T!PaidInTime, SP!T!PaidInTime, T!OnlyLosesValue, SP!T!OnlyLosesValue, T!lock_forever,
                SP!T!lock_forever
  <2>5. T!Advances
    BY <2>3 DEF T!Advances, SP!T!Advances, T!FirstDue, SP!T!FirstDue, T!Due, SP!T!Due, T!Live, SP!T!Live
  <2> QED
    BY <2>4, <2>5
<1>3. CASE part = "ticket" /\ U!Next
  <2>1. UP!TInv /\ UP!T!Next /\ UP!T!TicketAssumption
    BY <1>3, SameTicket DEF TicketsInv
  <2>2. \A i \in DOMAIN tickets : UP!T!PaidInTime(i) /\ UP!T!OnlyLosesValue(i)
    BY <2>1, UP!TicketsOnly
  <2>3. UP!T!Advances
    BY <2>1, UP!TurnAdvances DEF UP!T!vars, T!vars
  <2>4. \A i \in T!Live : T!PaidInTime(i) /\ T!OnlyLosesValue(i)
    BY <2>2 DEF T!Live, T!PaidInTime, UP!T!PaidInTime, T!OnlyLosesValue, UP!T!OnlyLosesValue, T!lock_forever,
                UP!T!lock_forever
  <2>5. T!Advances
    BY <2>3 DEF T!Advances, UP!T!Advances, T!FirstDue, UP!T!FirstDue, T!Due, UP!T!Due, T!Live, UP!T!Live
  <2> QED
    BY <2>4, <2>5
<1> QED
  BY <1>1, <1>2, <1>3

\* TicketsKept of the composition, from TicketsAreKept for every value of the
\* constants: statistics kept by differences are those of the tickets, an update
\* affects no other ticket, locks are honoured, what is locked forever stays, and the
\* loop of process_tickets advances (ticket_evaluator.cpp, db_update.cpp).
THEOREM TicketsAlwaysKept == Spec => TicketsKept
<1> DEFINE Tickets == part = "tickets" => T!StatsExact /\ T!OthersUntouched
           Single == part = "ticket" => U!StatsExact /\ U!OthersUntouched
<1>1. TicketsInv => Tickets /\ Single
  BY SameTickets, SameTicket, SP!TicketsAre, UP!TicketsAre DEF TicketsInv
<1>2. TicketsInv /\ [Next]_vars => [\A i \in T!Live : T!PaidInTime(i)]_(T!vars)
  BY TicketsMove
<1>3. TicketsInv /\ [Next]_vars => [\A i \in T!Live : T!OnlyLosesValue(i)]_(T!vars)
  BY TicketsMove
<1>4. TicketsInv /\ [Next]_vars => [T!Advances]_(T!vars)
  BY TicketsMove
<1> QED
  BY <1>1, <1>2, <1>3, <1>4, TicketsInvKept, PTL
     DEF Spec, TicketsKept, T!LockHonoured, T!ForeverStays, T!LoopAdvances

-----------------------------------------------------------------------------
(* The parts "vesting" and "cashback".                                     *)

\* The module of the proofs is about the same vesting balances.
LEMMA SameVesting ==
  /\ SP!V!VestingAssumption
  /\ V!Init => SP!V!Init
  /\ V!Next => SP!V!Next
  /\ UNCHANGED vVars => UNCHANGED SP!V!vars
  /\ SP!V!TypeOK /\ SP!V!Conserved => V!TypeOK /\ V!Conserved
  /\ SP!V!AllowedSound /\ SP!V!CoinSecondsPaid => V!AllowedSound /\ V!CoinSecondsPaid
<1>1. SP!V!VestingAssumption
  BY ContractsAssumption DEF V!VestingAssumption, SP!V!VestingAssumption, V!IsFiniteSet, SP!V!IsFiniteSet
<1>2. V!Init => SP!V!Init
  BY DEF V!Init, SP!V!Init
<1>3. V!Ids = SP!V!Ids
  BY DEF V!Ids, SP!V!Ids
<1>5. \A vb : V!Allowed(vb) = SP!V!Allowed(vb)
  BY DEF V!LinearAllowed, SP!V!LinearAllowed, V!MinOf, SP!V!MinOf, V!MaxOf, SP!V!MaxOf, V!Seconds,
         SP!V!Seconds, V!CoinSeconds, SP!V!CoinSeconds, V!Allowed, SP!V!Allowed
<1>6. V!Next => SP!V!Next
  <2>1. \A vb, n : V!Deposit(vb, n) = SP!V!Deposit(vb, n) /\ V!Withdraw(vb, n) = SP!V!Withdraw(vb, n)
    BY DEF V!MinOf, SP!V!MinOf, V!MaxOf, SP!V!MaxOf, V!Seconds, SP!V!Seconds, V!CoinSeconds,
         SP!V!CoinSeconds, V!Updated, SP!V!Updated, V!Deposit, SP!V!Deposit, V!Withdraw,
         SP!V!Withdraw
  <2>2. \A vb, n : V!DepositVested(vb, n) = SP!V!DepositVested(vb, n)
    BY DEF V!MinOf, SP!V!MinOf, V!MaxOf, SP!V!MaxOf, V!Seconds, SP!V!Seconds, V!CoinSeconds,
         SP!V!CoinSeconds, V!Updated, SP!V!Updated, V!Deposit, SP!V!Deposit, V!DepositVested,
         SP!V!DepositVested
  <2>4. \A d, a, n, v : V!Opened(d, a, n, v) = SP!V!Opened(d, a, n, v)
    BY DEF V!NewVb, SP!V!NewVb, V!NewCashback, SP!V!NewCashback, V!Opened, SP!V!Opened
  <2>5. \A d, a, n, v : V!Lazy(d, a, n, v) = SP!V!Lazy(d, a, n, v)
    BY <2>1, <2>2, <2>4 DEF V!Lazy, SP!V!Lazy
  <2>6. \A d, a, n, v : V!DepositCashback(d, a, n, v) = SP!V!DepositCashback(d, a, n, v)
    BY <2>5 DEF V!DepositCashback, SP!V!DepositCashback
  <2>7. \A d, t, v : V!PayOut(d, t, v) = SP!V!PayOut(d, t, v)
    BY <2>6 DEF V!PayOut, SP!V!PayOut, V!cut_fee, SP!V!cut_fee
  <2>8. \A c, a, n, p, s, t : V!vesting_balance_create(c, a, n, p, s, t) => SP!V!vesting_balance_create(c, a, n, p, s, t)
    BY DEF V!NewVb, SP!V!NewVb, V!vesting_balance_create, SP!V!vesting_balance_create
  <2>9. \A i, n : V!vesting_balance_withdraw(i, n) => SP!V!vesting_balance_withdraw(i, n)
    BY <1>5, <2>1, Zenon DEF V!vesting_balance_withdraw, SP!V!vesting_balance_withdraw
  <2>10. \A a, n : V!balance_claim(a, n) => SP!V!balance_claim(a, n)
    BY DEF V!LinearAllowed, SP!V!LinearAllowed, V!balance_claim, SP!V!balance_claim
  <2>11. \A n : (V!PayFee(n) => SP!V!PayFee(n)) /\ (V!UpdatePeriod(n) => SP!V!UpdatePeriod(n))
    BY DEF V!PayFee, SP!V!PayFee, V!UpdatePeriod, SP!V!UpdatePeriod
  <2>12. V!ProcessFees => SP!V!ProcessFees
    BY <2>7, Zenon DEF V!ProcessFees, SP!V!ProcessFees
  <2>13. V!NewBlock => SP!V!NewBlock
    BY DEF V!NewBlock, SP!V!NewBlock
  <2> QED
    BY <1>3, <2>8, <2>9, <2>10, <2>11, <2>12, <2>13 DEF V!Next, SP!V!Next
<1>7. UNCHANGED vVars => UNCHANGED SP!V!vars
  BY DEF vVars, SP!V!vars
<1>8. SP!V!TypeOK /\ SP!V!Conserved => V!TypeOK /\ V!Conserved
  BY DEF V!TypeOK, SP!V!TypeOK, V!Conserved, SP!V!Conserved, V!Ids, SP!V!Ids, V!Cardinality, SP!V!Cardinality,
         V!SumOver, SP!V!SumOver, V!FoldFunctionOnSet, SP!V!FoldFunctionOnSet,
         V!MapThenFoldSet, SP!V!MapThenFoldSet
<1>9. SP!V!AllowedSound /\ SP!V!CoinSecondsPaid => V!AllowedSound /\ V!CoinSecondsPaid
  BY Zenon DEF V!Ids, SP!V!Ids, V!LinearAllowed, SP!V!LinearAllowed, V!MinOf, SP!V!MinOf, V!MaxOf, SP!V!MaxOf,
         V!Seconds, SP!V!Seconds, V!CoinSeconds, SP!V!CoinSeconds, V!Allowed, SP!V!Allowed,
         V!AllowedSound, SP!V!AllowedSound, V!CoinSecondsPaid, SP!V!CoinSecondsPaid
<1> QED
  BY <1>1, <1>2, <1>6, <1>7, <1>8, <1>9

\* The same with fees and cashback.
LEMMA SameCashback ==
  /\ UP!V!VestingAssumption
  /\ B!Init => UP!V!Init
  /\ B!Next => UP!V!Next
  /\ UNCHANGED vVars => UNCHANGED UP!V!vars
  /\ UP!V!TypeOK /\ UP!V!Conserved => B!TypeOK /\ B!Conserved
  /\ UP!V!AllowedSound /\ UP!V!CoinSecondsPaid => B!AllowedSound /\ B!CoinSecondsPaid
<1>1. UP!V!VestingAssumption
  BY ContractsAssumption DEF B!VestingAssumption, UP!V!VestingAssumption, B!IsFiniteSet, UP!V!IsFiniteSet
<1>2. B!Init => UP!V!Init
  BY DEF B!Init, UP!V!Init
<1>3. B!Ids = UP!V!Ids
  BY DEF B!Ids, UP!V!Ids
<1>5. \A vb : B!Allowed(vb) = UP!V!Allowed(vb)
  BY DEF B!LinearAllowed, UP!V!LinearAllowed, B!MinOf, UP!V!MinOf, B!MaxOf, UP!V!MaxOf, B!Seconds,
         UP!V!Seconds, B!CoinSeconds, UP!V!CoinSeconds, B!Allowed, UP!V!Allowed
<1>6. B!Next => UP!V!Next
  <2>1. \A vb, n : B!Deposit(vb, n) = UP!V!Deposit(vb, n) /\ B!Withdraw(vb, n) = UP!V!Withdraw(vb, n)
    BY DEF B!MinOf, UP!V!MinOf, B!MaxOf, UP!V!MaxOf, B!Seconds, UP!V!Seconds, B!CoinSeconds,
         UP!V!CoinSeconds, B!Updated, UP!V!Updated, B!Deposit, UP!V!Deposit, B!Withdraw,
         UP!V!Withdraw
  <2>2. \A vb, n : B!DepositVested(vb, n) = UP!V!DepositVested(vb, n)
    BY DEF B!MinOf, UP!V!MinOf, B!MaxOf, UP!V!MaxOf, B!Seconds, UP!V!Seconds, B!CoinSeconds,
         UP!V!CoinSeconds, B!Updated, UP!V!Updated, B!Deposit, UP!V!Deposit, B!DepositVested,
         UP!V!DepositVested
  <2>4. \A d, a, n, v : B!Opened(d, a, n, v) = UP!V!Opened(d, a, n, v)
    BY DEF B!NewVb, UP!V!NewVb, B!NewCashback, UP!V!NewCashback, B!Opened, UP!V!Opened
  <2>5. \A d, a, n, v : B!Lazy(d, a, n, v) = UP!V!Lazy(d, a, n, v)
    BY <2>1, <2>2, <2>4 DEF B!Lazy, UP!V!Lazy
  <2>6. \A d, a, n, v : B!DepositCashback(d, a, n, v) = UP!V!DepositCashback(d, a, n, v)
    BY <2>5 DEF B!DepositCashback, UP!V!DepositCashback
  <2>7. \A d, t, v : B!PayOut(d, t, v) = UP!V!PayOut(d, t, v)
    BY <2>6 DEF B!PayOut, UP!V!PayOut, B!cut_fee, UP!V!cut_fee
  <2>8. \A c, a, n, p, s, t : B!vesting_balance_create(c, a, n, p, s, t) => UP!V!vesting_balance_create(c, a, n, p, s, t)
    BY DEF B!NewVb, UP!V!NewVb, B!vesting_balance_create, UP!V!vesting_balance_create
  <2>9. \A i, n : B!vesting_balance_withdraw(i, n) => UP!V!vesting_balance_withdraw(i, n)
    BY <1>5, <2>1, Zenon DEF B!vesting_balance_withdraw, UP!V!vesting_balance_withdraw
  <2>10. \A a, n : B!balance_claim(a, n) => UP!V!balance_claim(a, n)
    BY DEF B!LinearAllowed, UP!V!LinearAllowed, B!balance_claim, UP!V!balance_claim
  <2>11. \A n : (B!PayFee(n) => UP!V!PayFee(n)) /\ (B!UpdatePeriod(n) => UP!V!UpdatePeriod(n))
    BY DEF B!PayFee, UP!V!PayFee, B!UpdatePeriod, UP!V!UpdatePeriod
  <2>12. B!ProcessFees => UP!V!ProcessFees
    BY <2>7, Zenon DEF B!ProcessFees, UP!V!ProcessFees
  <2>13. B!NewBlock => UP!V!NewBlock
    BY DEF B!NewBlock, UP!V!NewBlock
  <2> QED
    BY <1>3, <2>8, <2>9, <2>10, <2>11, <2>12, <2>13 DEF B!Next, UP!V!Next
<1>7. UNCHANGED vVars => UNCHANGED UP!V!vars
  BY DEF vVars, UP!V!vars
<1>8. UP!V!TypeOK /\ UP!V!Conserved => B!TypeOK /\ B!Conserved
  BY DEF B!TypeOK, UP!V!TypeOK, B!Conserved, UP!V!Conserved, B!Ids, UP!V!Ids, B!Cardinality, UP!V!Cardinality,
         B!SumOver, UP!V!SumOver, B!FoldFunctionOnSet, UP!V!FoldFunctionOnSet,
         B!MapThenFoldSet, UP!V!MapThenFoldSet
<1>9. UP!V!AllowedSound /\ UP!V!CoinSecondsPaid => B!AllowedSound /\ B!CoinSecondsPaid
  BY Zenon DEF B!Ids, UP!V!Ids, B!LinearAllowed, UP!V!LinearAllowed, B!MinOf, UP!V!MinOf, B!MaxOf, UP!V!MaxOf,
         B!Seconds, UP!V!Seconds, B!CoinSeconds, UP!V!CoinSeconds, B!Allowed, UP!V!Allowed,
         B!AllowedSound, UP!V!AllowedSound, B!CoinSecondsPaid, UP!V!CoinSecondsPaid
<1> QED
  BY <1>1, <1>2, <1>6, <1>7, <1>8, <1>9

\* What each step keeps of the vesting balances.
VestingInv == (part = "vesting" => SP!VInv) /\ (part = "cashback" => UP!VInv)

\* The invariant holds at the start and is kept.
LEMMA VestingInvKept ==
  /\ Init => VestingInv
  /\ VestingInv /\ [Next]_vars => VestingInv'
<1>1. Init => VestingInv
  BY SameVesting, SameCashback, SP!VestingInit, UP!VestingInit DEF Init, VestingInv
<1>2. ASSUME VestingInv, [Next]_vars, part' = "vesting" PROVE SP!VInv'
  <2>1. part = "vesting" /\ SP!VInv /\ (V!Next \/ UNCHANGED vVars)
    BY <1>2 DEF Next, vars, VestingInv
  <2>2. SP!V!Next \/ UNCHANGED SP!V!vars
    BY <2>1, SameVesting
  <2> QED
    BY <2>1, <2>2, SameVesting, SP!VestingStep
<1>3. ASSUME VestingInv, [Next]_vars, part' = "cashback" PROVE UP!VInv'
  <2>1. part = "cashback" /\ UP!VInv /\ (B!Next \/ UNCHANGED vVars)
    BY <1>3 DEF Next, vars, VestingInv
  <2>2. UP!V!Next \/ UNCHANGED UP!V!vars
    BY <2>1, SameCashback
  <2> QED
    BY <2>1, <2>2, SameCashback, UP!VestingStep
<1> QED
  BY <1>1, <1>2, <1>3 DEF VestingInv

\* Conserved in the part "vesting".
LEMMA VestingConserved ==
  ASSUME part = "vesting", VestingInv
  PROVE  Conserved
BY SameVesting, SP!VestingAre DEF Conserved, VestingInv

\* Conserved in the part "cashback".
LEMMA CashbackConserved ==
  ASSUME part = "cashback", VestingInv
  PROVE  Conserved
BY SameCashback, UP!VestingAre DEF Conserved, VestingInv

\* What comes in vested can be withdrawn: nothing does without fees, and with fees
\* the period is not zero.
LEMMA CashbackVests ==
  ASSUME VestingInv, [Next]_vars, ~UNCHANGED B!vars
  PROVE  B!VestsAtOnce
<1>1. (part = "vesting" /\ V!Next) \/ (part = "cashback" /\ B!Next)
  BY DEF Next, vars, vVars, B!vars
<1>2. CASE part = "vesting" /\ V!Next
  <2>1. SP!VTypes
    BY <1>2 DEF VestingInv, SP!VInv
  <2>2. vPending.vested = 0
    BY <2>1 DEF SP!VTypes
  <2> QED
    BY <2>2 DEF B!VestsAtOnce
<1>3. CASE part = "cashback" /\ B!Next
  <2>1. UP!VInv /\ UP!V!Next /\ UP!V!VestingAssumption
    BY <1>3, SameCashback DEF VestingInv
  <2>2. period # 0 => UP!V!VestsAtOnce
    BY <2>1, UP!VestingStep
  <2>3. period # 0
    BY <2>1 DEF UP!VInv, UP!VTypes
  <2>4. \A a, q : B!Available(a, q) = UP!V!Available(a, q) /\ B!CameVested(a, q) = UP!V!CameVested(a, q)
    BY DEF B!FoldFunctionOnSet, UP!V!FoldFunctionOnSet, B!MapThenFoldSet, UP!V!MapThenFoldSet, B!SumOver,
         UP!V!SumOver, B!LinearAllowed, UP!V!LinearAllowed, B!MinOf, UP!V!MinOf, B!MaxOf,
         UP!V!MaxOf, B!Seconds, UP!V!Seconds, B!CoinSeconds, UP!V!CoinSeconds, B!Allowed,
         UP!V!Allowed, B!Available, UP!V!Available, B!CameVested, UP!V!CameVested
  <2> QED
    BY <2>2, <2>3, <2>4 DEF B!VestsAtOnce, UP!V!VestsAtOnce
<1> QED
  BY <1>1, <1>2, <1>3

\* VestingSound of the composition, from OnlyVestedWithdrawn and VestingIsSound for
\* every value of the constants: no policy allows more than there is, coin-seconds
\* are paid for, and what comes in vested can be withdrawn at once
\* (vesting_balance_object.cpp, db_balance.cpp deposit_lazy_vesting).
THEOREM VestingAlwaysSound == Spec => VestingSound
<1> DEFINE Plain == part = "vesting" => V!AllowedSound /\ V!CoinSecondsPaid
           Cash == part = "cashback" => B!AllowedSound /\ B!CoinSecondsPaid
<1>1. VestingInv => Plain /\ Cash
  BY SameVesting, SameCashback, SP!VestingAre, UP!VestingAre DEF VestingInv
<1>2. VestingInv /\ [Next]_vars => [B!VestsAtOnce]_(B!vars)
  BY CashbackVests
<1> QED
  BY <1>1, <1>2, VestingInvKept, PTL DEF Spec, VestingSound, B!VestedAtOnce

-----------------------------------------------------------------------------
(* All the parts.                                                          *)

\* A behaviour is one of one contract.
OnePart == part \in Parts

\* What each step keeps of the part that is run.
ContractsInv ==
  /\ OnePart
  /\ HtlcInv /\ WithdrawInv /\ TicketsInv /\ VestingInv /\ CreditInv /\ SametInv /\ PartsInv
  /\ PoolInv /\ PredictionInv

\* Conserved of the composition, from the conservation theorems of its parts for every
\* value of the constants: no contract creates or destroys an amount and no balance
\* becomes negative, whatever races, rounds, splits, expires or is undone.
THEOREM ContractsConserve == Spec => []Conserved
<1>1. ContractsInv => Conserved
  BY HtlcConserved, WithdrawConserved, TicketsConserved, TicketConserved, VestingConserved, CashbackConserved,
     CreditConserved, SametConserved, ProposalsConserved, ChainConserved, PoolConserved,
     PredictionConserved DEF ContractsInv, OnePart, Parts
<1>2. Init => OnePart
  BY DEF Init, OnePart
<1>3. OnePart /\ [Next]_vars => OnePart'
  BY DEF Next, vars, OnePart
<1> QED
  BY <1>1, <1>2, <1>3, HtlcKept, WithdrawInvKept, TicketsInvKept, VestingInvKept, CreditInvKept, SametInvKept,
     PartsKept, PoolInvKept, PredictionInvKept, PTL DEF Spec, ContractsInv
=============================================================================
