----------------------------- MODULE CreditOffer ------------------------------
(***************************************************************************)
(* Credit offers: funds that borrowers take against collateral and repay   *)
(* with a fee before a deadline; at the deadline a deal may repay itself   *)
(* from the borrower's balance, wholly or in part, and what is left of it  *)
(* goes to the lender as collateral.                                       *)
(***************************************************************************)
EXTENDS Integers, FiniteSets, Functions, Sums

CONSTANTS
  Lender, Borrowers,      \* the owner of the offers and the accounts that borrow
  Funds, Collateral,      \* what the lender and each borrower own at the start
  Pocket,                 \* what each borrower owns of the debt asset
  Amounts,                \* amounts of offers, deals, repayments
  RateDenom, Rates,       \* GRAPHENE_FEE_RATE_DENOM and fee rates
  CollNum, CollDen,       \* units of collateral asked per unit of debt, a fraction
  Extra,                  \* collateral offered beyond what is asked
  Duration,               \* max_duration_seconds
  MaxBorrow,              \* what an acceptable borrower may borrow at most
  Restricted,             \* borrowers that the issuer of the debt asset bars
  MaxOffers, MaxDeals, MaxTime, MaxChanges  \* bounds

RepayTypes == {"no_auto_repayment", "only_full_repayment", "allow_partial_repayment"}

\* What the constants are assumed to be.
CreditAssumption ==
  /\ IsFiniteSet(Borrowers)
  /\ {Funds, Collateral, Pocket, MaxOffers, MaxDeals, MaxTime, MaxBorrow, MaxChanges} \subseteq Nat
  /\ Amounts \cup {RateDenom, CollNum, CollDen, Duration} \subseteq Nat \ {0}
  /\ Rates \cup Extra \subseteq Nat
  /\ Lender \notin Borrowers

VARIABLES
  debtBal,    \* account -> balance of the debt asset
  collBal,    \* account -> balance of the collateral asset
  offers,     \* id -> [total, current, rate, enabled, disableAt]
  deals,      \* id -> credit_deal_object
  summary,    \* <<offer, borrower>> -> total_debt_amount
  barred,     \* borrowers that may not transact the debt asset
  now,        \* head block time
  expiring,   \* the loop of update_credit_offers_and_deals is running
  created, changes  \* counters: [offers, deals] and updates

vars == <<debtBal, collBal, offers, deals, summary, barred, now, expiring, created, changes>>

Accounts == Borrowers \cup {Lender}
Empty == [i \in {} |-> 0]
CeilDiv(a, b) == (a + b - 1) \div b
Put(f, k, v) == [i \in DOMAIN f \cup {k} |-> IF i = k THEN v ELSE f[i]]
Without(f, k) == Restrict(f, DOMAIN f \ {k})

Init ==
  /\ debtBal = [a \in Accounts |-> IF a = Lender THEN Funds ELSE Pocket]
  /\ collBal = [a \in Accounts |-> IF a = Lender THEN 0 ELSE Collateral]
  /\ offers = Empty /\ deals = Empty /\ summary = Empty
  /\ barred = {}
  /\ now = 0
  /\ expiring = FALSE
  /\ created = [offers |-> 0, deals |-> 0]
  /\ changes = 0

credit_offer_create(n, rate, t) ==
  /\ ~expiring /\ created.offers < MaxOffers
  /\ t > now
  /\ debtBal[Lender] >= n
  /\ debtBal' = [debtBal EXCEPT ![Lender] = @ - n]
  /\ offers' = Put(offers, created.offers + 1,
                   [total |-> n, current |-> n, rate |-> rate, enabled |-> TRUE, disableAt |-> t])
  /\ created' = [created EXCEPT !.offers = @ + 1]
  /\ UNCHANGED <<collBal, deals, summary, barred, now, expiring, changes>>

\* mutant: an offer may be deleted once nothing is left to lend
credit_offer_delete_lent(o) ==
  /\ ~expiring
  /\ offers[o].total = offers[o].current \/ offers[o].current = 0
  /\ debtBal' = [debtBal EXCEPT ![Lender] = @ + offers[o].current]
  /\ offers' = Without(offers, o)
  /\ UNCHANGED <<collBal, deals, summary, barred, now, expiring, created, changes>>

credit_offer_delete(o) ==
  /\ ~expiring
  /\ offers[o].total = offers[o].current
  /\ debtBal' = [debtBal EXCEPT ![Lender] = @ + offers[o].current]
  /\ offers' = Without(offers, o)
  /\ UNCHANGED <<collBal, deals, summary, barred, now, expiring, created, changes>>

\* credit_offer_update; delta is 0 when the amount is not updated
credit_offer_update(o, delta, rate, enabled, t) ==
  /\ ~expiring /\ changes < MaxChanges
  /\ delta > 0 => debtBal[Lender] >= delta
  /\ delta < 0 => offers[o].total > -delta /\ offers[o].current >= -delta
  /\ enabled => t > now
  /\ offers[o].total + delta > 0
  /\ debtBal' = [debtBal EXCEPT ![Lender] = @ - delta]
  /\ offers' = [offers EXCEPT ![o] = [total |-> @.total + delta, current |-> @.current + delta,
                                      rate |-> rate, enabled |-> enabled, disableAt |-> t]]
  /\ changes' = changes + 1
  /\ UNCHANGED <<collBal, deals, summary, barred, now, expiring, created>>

Borrowed(o, b) == IF <<o, b>> \in DOMAIN summary THEN summary[<<o, b>>] ELSE 0

\* credit_offer_accept.  first remembers the terms that the deal began with.
credit_offer_accept(o, b, n, coll, auto) ==
  /\ ~expiring /\ created.deals < MaxDeals
  /\ offers[o].enabled
  /\ offers[o].current >= n
  /\ b \notin barred
  /\ coll >= CeilDiv(n * CollNum, CollDen)
  /\ Borrowed(o, b) + n <= MaxBorrow
  /\ collBal[b] >= coll
  /\ collBal' = [collBal EXCEPT ![b] = @ - coll]
  /\ debtBal' = [debtBal EXCEPT ![b] = @ + n]
  /\ offers' = [offers EXCEPT ![o].current = @ - n]
  /\ deals' = Put(deals, created.deals + 1,
                  [borrower |-> b, offer |-> o, debt |-> n, coll |-> coll, rate |-> offers[o].rate,
                   time |-> now + Duration, auto |-> auto, first |-> [debt |-> n, coll |-> coll]])
  /\ summary' = Put(summary, <<o, b>>, Borrowed(o, b) + n)
  /\ created' = [created EXCEPT !.deals = @ + 1]
  /\ UNCHANGED <<barred, now, expiring, changes>>

RequiredFee(d, n) == CeilDiv(n * d.rate, RateDenom)

\* mutant: the released part of the collateral is rounded up
ReleasedUp(d, n) == CeilDiv(n * d.coll, d.debt)

\* The collateral that repaying n releases; a partial repayment rounds down.
Released(d, n) == (n * d.coll) \div d.debt

\* mutant: a summary is removed with the deal that the repayment is for
LessDebtAll(s, d, n) ==
  LET k == <<d.offer, d.borrower>>
  IN IF d.debt = n THEN Without(s, k) ELSE [s EXCEPT ![k] = @ - n]

\* What a summary becomes when n of its debt is gone.
LessDebt(s, d, n) ==
  LET k == <<d.offer, d.borrower>>
  IN IF s[k] = n THEN Without(s, k) ELSE [s EXCEPT ![k] = @ - n]

\* The repayment of n with a fee is possible: what credit_deal_repay evaluates,
\* and the balance.
CanRepay(i, n, fee) ==
  LET d == deals[i]
  IN /\ n > 0 /\ n <= d.debt
     /\ fee >= RequiredFee(d, n)
     /\ d.borrower \notin barred
     /\ debtBal[d.borrower] >= n + fee

\* The state after credit_deal_repay.
Repay(i, n, fee) ==
  LET d == deals[i]
  IN [debtBal |-> [debtBal EXCEPT ![d.borrower] = @ - (n + fee)],
      collBal |-> [collBal EXCEPT ![d.borrower] = @ + Released(d, n)],
      offers  |-> [offers EXCEPT ![d.offer].total = @ + fee, ![d.offer].current = @ + n + fee],
      deals   |-> IF n = d.debt THEN Without(deals, i)
                  ELSE [deals EXCEPT ![i].debt = @ - n, ![i].coll = @ - Released(d, n)],
      summary |-> LessDebt(summary, d, n)]

credit_deal_repay(i, n) ==
  LET fee == RequiredFee(deals[i], n)
      s == Repay(i, n, fee)
  IN /\ ~expiring
     /\ CanRepay(i, n, fee)
     /\ debtBal' = s.debtBal /\ collBal' = s.collBal /\ offers' = s.offers
     /\ deals' = s.deals /\ summary' = s.summary
     /\ UNCHANGED <<barred, now, expiring, created, changes>>

credit_deal_update(i, auto) ==
  /\ ~expiring /\ changes < MaxChanges
  /\ deals[i].auto # auto
  /\ deals' = [deals EXCEPT ![i].auto = auto]
  /\ changes' = changes + 1
  /\ UNCHANGED <<debtBal, collBal, offers, summary, barred, now, expiring, created>>

\* account_whitelist: the issuer of the debt asset blacklists a borrower, who is then not
\* authorized for it (is_authorized_asset).
Bar(b) ==
  /\ ~expiring /\ b \notin barred
  /\ barred' = barred \cup {b}
  /\ UNCHANGED <<debtBal, collBal, offers, deals, summary, now, expiring, created, changes>>

\* A block: offers whose time has come are disabled, then deals expire.
NewBlock ==
  /\ ~expiring /\ now < MaxTime
  /\ now' = now + 1
  /\ offers' = [o \in DOMAIN offers |-> [offers[o] EXCEPT !.enabled = @ /\ offers[o].disableAt > now + 1]]
  /\ expiring' = TRUE
  /\ UNCHANGED <<debtBal, collBal, deals, summary, barred, created, changes>>

\* mutant: a deal is not yet due in the block of its very deadline
OverdueLate == {i \in DOMAIN deals : deals[i].time < now}

Overdue == {i \in DOMAIN deals : deals[i].time <= now}

\* mutant: the debt that can be repaid is computed from the balance alone
PartialNoFee(d, have) == have

\* How much of a debt the balance repays: as much as its fee leaves, cut to what
\* a whole amount of collateral corresponds to.
Partial(d, have) ==
  LET most == (have * RateDenom) \div (RateDenom + d.rate)
      release == (most * d.coll) \div d.debt
  IN CeilDiv(release * d.debt, d.coll)

\* The amount of the automatic repayment of a deal.
AutoAmount(d) ==
  LET have == debtBal[d.borrower]
  IN IF d.auto = "only_full_repayment" \/ have >= d.debt + RequiredFee(d, d.debt)
     THEN d.debt ELSE Partial(d, have)

Here == [debtBal |-> debtBal, collBal |-> collBal, offers |-> offers, deals |-> deals, summary |-> summary]

\* The state after the automatic repayment of a deal, or that of now if there is
\* none or it fails.
AutoRepaid(i) ==
  LET d == deals[i]
      n == AutoAmount(d)
      fee == RequiredFee(d, n)
  IN IF d.auto # "no_auto_repayment" /\ CanRepay(i, n, fee) THEN Repay(i, n, fee) ELSE Here

\* The state with the rest of a deal expired: its collateral goes to the lender.
Expire(i, s) ==
  LET d == s.deals[i]
  IN [debtBal |-> s.debtBal,
      collBal |-> [s.collBal EXCEPT ![Lender] = @ + d.coll],
      offers  |-> [s.offers EXCEPT ![d.offer].total = @ - d.debt],
      deals   |-> Without(s.deals, i),
      summary |-> LessDebt(s.summary, d, d.debt)]

\* The overdue deal that comes first: by deadline, then by age.
FirstOverdue ==
  CHOOSE k \in Overdue : \A j \in Overdue :
    \/ deals[k].time < deals[j].time
    \/ deals[k].time = deals[j].time /\ k <= j

\* One turn of the loop: the first overdue deal repays itself if it can, and the
\* rest expires.
ExpireDeal ==
  LET i == FirstOverdue
      s == AutoRepaid(i)
      e == IF i \in DOMAIN s.deals THEN Expire(i, s) ELSE s
  IN /\ expiring /\ Overdue # {}
     /\ debtBal' = e.debtBal /\ collBal' = e.collBal /\ offers' = e.offers
     /\ deals' = e.deals /\ summary' = e.summary
     /\ UNCHANGED <<barred, now, expiring, created, changes>>

BlockDone ==
  /\ expiring /\ Overdue = {}
  /\ expiring' = FALSE
  /\ UNCHANGED <<debtBal, collBal, offers, deals, summary, barred, now, created, changes>>

Next ==
  \/ \E n \in Amounts, r \in Rates, t \in 1..MaxTime : credit_offer_create(n, r, t)
  \/ \E o \in DOMAIN offers : credit_offer_delete(o)
  \/ \E o \in DOMAIN offers, d \in Amounts \cup {0} \cup {-n : n \in Amounts}, r \in Rates, e \in BOOLEAN :
        credit_offer_update(o, d, r, e, now + 1)
  \/ \E o \in DOMAIN offers, b \in Borrowers, n \in Amounts, x \in Extra, a \in RepayTypes :
        credit_offer_accept(o, b, n, CeilDiv(n * CollNum, CollDen) + x, a)
  \/ \E i \in DOMAIN deals, n \in Amounts : credit_deal_repay(i, n)
  \/ \E i \in DOMAIN deals, a \in RepayTypes : credit_deal_update(i, a)
  \/ \E b \in Restricted : Bar(b)
  \/ NewBlock
  \/ ExpireDeal
  \/ BlockDone

Spec == Init /\ [][Next]_vars

------------------------------------------------------------------------------

TypeOK ==
  /\ debtBal \in [Accounts -> Nat] /\ collBal \in [Accounts -> Nat]
  /\ \A o \in DOMAIN offers : offers[o].current \in 0..offers[o].total
  /\ \A i \in DOMAIN deals : deals[i].debt > 0 /\ deals[i].coll > 0

\* Amounts of offers and deals, and the deals of an offer, also with one borrower.
CurrentOf(os) == [o \in DOMAIN os |-> os[o].current]
DebtOf(ds) == [i \in DOMAIN ds |-> ds[i].debt]
CollOf(ds) == [i \in DOMAIN ds |-> ds[i].coll]
DealsOf(ds, o) == {i \in DOMAIN ds : ds[i].offer = o}
DealsWith(ds, o, b) == {i \in DealsOf(ds, o) : ds[i].borrower = b}

\* Both assets are conserved by deals, repayments, fees and expirations.
Conserved ==
  /\ SumOver(debtBal, Accounts) + SumOver(CurrentOf(offers), DOMAIN offers)
     = Funds + Pocket * Cardinality(Borrowers)
  /\ SumOver(collBal, Accounts) + SumOver(CollOf(deals), DOMAIN deals)
     = Collateral * Cardinality(Borrowers)

\* total_balance of an offer is what it can lend plus what its deals owe, so
\* that no deal is ever left without its offer.
OfferExact ==
  /\ \A i \in DOMAIN deals : deals[i].offer \in DOMAIN offers
  /\ \A o \in DOMAIN offers :
       offers[o].total = offers[o].current + SumOver(DebtOf(deals), DealsOf(deals, o))

\* The summary of an offer and a borrower is the sum of the deals between them,
\* and there is none without a deal; the chain would otherwise only log an error.
SummaryExact ==
  /\ \A k \in DOMAIN summary : summary[k] > 0
  /\ \A b \in Borrowers, o \in 1..MaxOffers :
       Borrowed(o, b) = SumOver(DebtOf(deals), DealsWith(deals, o, b))

\* Partial repayments, by hand or automatic, never leave the lender with less
\* collateral per unit of debt than the deal began with.
CollateralKept ==
  \A i \in DOMAIN deals : LET d == deals[i] IN d.coll * d.first.debt >= d.first.coll * d.debt

\* Between blocks no deal is past its deadline.
NoOverdueDeals == ~expiring => \A i \in DOMAIN deals : deals[i].time > now

\* An automatic repayment in part is never refused for want of balance: its
\* amount and the fee that is rounded up together never exceed what there is.
PartialAffordable ==
  expiring => \A i \in Overdue :
    LET d == deals[i]
        n == AutoAmount(d)
    IN d.auto = "allow_partial_repayment" => n + RequiredFee(d, n) <= debtBal[d.borrower]

\* Offers, deals and summaries agree, lenders are covered and deals end in time.
CreditSound == OfferExact /\ SummaryExact /\ CollateralKept /\ NoOverdueDeals /\ PartialAffordable
==============================================================================
