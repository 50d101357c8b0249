----------------------------- MODULE MCContracts -----------------------------
(***************************************************************************)
(* The contracts that accounts make with each other and with the chain,    *)
(* each in a small instance of its own.  A behaviour is one of one         *)
(* contract: part says of which, and the others stand still.               *)
(***************************************************************************)
EXTENDS Integers, Sequences, FiniteSets

VARIABLES
  part,
  hBalance, htlcs, hNext, options, hBarred, hNow, hChanges,
  wBalance, permits, wNext, wBarred, wNow, wUpdates,
  tBalance, tickets, tNext, stats, totals, tNow, cause, concerned, tUpdates,
  vBalance, vbs, cashback, vPending, referrer, accumulated, burned, period, genesis,
  vNow, vFees, vCreated, vChanges,
  debtBal, collBal, offers, deals, summary, cBarred, cNow, expiring, cCreated, cChanges,
  sBal, funds, put, due, sessions, sOps, sCreated,
  proposals, done, vetoed, index, frames, pNow, phase, works, nextId, pOps, toggles,
  lBal, lExists, lPool, lSupply, lFees, lOps,
  mDebt, mBal, mCore, mSupply, mPrice, mFund

hVars == <<hBalance, htlcs, hNext, options, hBarred, hNow, hChanges>>
wVars == <<wBalance, permits, wNext, wBarred, wNow, wUpdates>>
tVars == <<tBalance, tickets, tNext, stats, totals, tNow, cause, concerned, tUpdates>>
vVars == <<vBalance, vbs, cashback, vPending, referrer, accumulated, burned, period, genesis,
           vNow, vFees, vCreated, vChanges>>
cVars == <<debtBal, collBal, offers, deals, summary, cBarred, cNow, expiring, cCreated, cChanges>>
sVars == <<sBal, funds, put, due, sessions, sOps, sCreated>>
pVars == <<proposals, done, vetoed, index, frames, pNow, phase, works, nextId, pOps, toggles>>
lVars == <<lBal, lExists, lPool, lSupply, lFees, lOps>>
mVars == <<mDebt, mBal, mCore, mSupply, mPrice, mFund>>
vars == <<part, hVars, wVars, tVars, vVars, cVars, sVars, pVars, lVars, mVars>>

-----------------------------------------------------------------------------
\* Two contracts between two accounts, one of which the issuer bars.
H == INSTANCE Htlc WITH
  Accounts <- {"a", "b"}, Supply <- 2, Amounts <- {1, 2},
  Preimages <- {"short", "long"}, SizeOf <- [p \in {"short", "long"} |-> IF p = "short" THEN 1 ELSE 2],
  Timeouts <- {1, 2}, Options <- {1, 2}, MaxPreimageSize <- 1, Restricted <- {"b"},
  MaxContracts <- 2, MaxTime <- 3, MaxChanges <- 2,
  balance <- hBalance, next <- hNext, barred <- hBarred, now <- hNow, changes <- hChanges

\* Two permissions between two accounts, in either direction, and an update.
W == INSTANCE WithdrawPermission WITH
  Accounts <- {"a", "b"}, Assets <- {"s"}, Supply <- 3, Limits <- {2}, Amounts <- {1, 2},
  Periods <- {1, 2}, Counts <- {1, 2}, W <- 32, Restricted <- {"b"},
  MaxPermits <- 2, MaxTime <- 3, MaxUpdates <- 1,
  balance <- wBalance, next <- wNext, barred <- wBarred, now <- wNow, updates <- wUpdates

\* Tickets, with steps in the proportions that matter: to cancel takes less than
\* to charge, and to charge less than to lose a type.  Here a ticket that is split.
T == INSTANCE Ticket WITH
  Accounts <- {"a"}, Supply <- 2, Amounts <- {1, 2}, Steps <- {1, 5},
  ChargingStep <- 2, CancelTime <- 1, DowngradeTime <- [k \in 0..2 |-> IF k = 2 THEN 4 ELSE 3],
  ForeverStep <- 2, MaxTickets <- 2, MaxTime <- 8, MaxUpdates <- 2,
  balance <- tBalance, next <- tNext, now <- tNow, updates <- tUpdates

\* One ticket for longer and with more changes of mind.
U == INSTANCE Ticket WITH
  Accounts <- {"a"}, Supply <- 1, Amounts <- {1}, Steps <- {1, 5},
  ChargingStep <- 2, CancelTime <- 1, DowngradeTime <- [k \in 0..2 |-> IF k = 2 THEN 4 ELSE 3],
  ForeverStep <- 2, MaxTickets <- 1, MaxTime <- 13, MaxUpdates <- 3,
  balance <- tBalance, next <- tNext, now <- tNow, updates <- tUpdates

\* Vesting balances of every policy and that of genesis; no fees.
V == INSTANCE Vesting WITH
  Accounts <- {"payer", "ref"}, Supply <- 3, Reserved <- {}, Payer <- "payer",
  Referrer <- "ref", LifetimeReferrer <- "ref", Registrar <- "ref", MemberUntil <- 2,
  NetworkCut <- 20, LifetimeCut <- 30, ReferrerCut <- 75, Fees <- {2, 3}, Threshold <- 2,
  Amounts <- {1, 2}, Cliff <- 1, Duration <- 3, VestingPeriods <- {1, 2}, Genesis <- 3, Day <- 2,
  MaxTime <- 3, MaxFees <- 0, MaxCreated <- 2, MaxChanges <- 0,
  balance <- vBalance, pending <- vPending, now <- vNow, fees <- vFees, created <- vCreated,
  changes <- vChanges

\* Fees and their cashback; the lifetime referrer is an account of the chain.
B == INSTANCE Vesting WITH
  Accounts <- {"payer", "ref", "life"}, Supply <- 8, Reserved <- {"life"}, Payer <- "payer",
  Referrer <- "ref", LifetimeReferrer <- "life", Registrar <- "ref", MemberUntil <- 2,
  NetworkCut <- 20, LifetimeCut <- 30, ReferrerCut <- 75, Fees <- {2, 3}, Threshold <- 2,
  Amounts <- {1, 2}, Cliff <- 1, Duration <- 3, VestingPeriods <- {1, 2}, Genesis <- 0, Day <- 2,
  MaxTime <- 4, MaxFees <- 3, MaxCreated <- 0, MaxChanges <- 1,
  balance <- vBalance, pending <- vPending, now <- vNow, fees <- vFees, created <- vCreated,
  changes <- vChanges

\* A lender with two offers and two borrowers with a deal each.
C == INSTANCE CreditOffer WITH
  Lender <- "lender", Borrowers <- {"b1", "b2"}, Funds <- 5, Collateral <- 9, Pocket <- 1,
  Amounts <- {2, 3}, RateDenom <- 4, Rates <- {1}, CollNum <- 3, CollDen <- 2, Extra <- {0},
  Duration <- 1, MaxBorrow <- 5, Restricted <- {"b1"},
  MaxOffers <- 2, MaxDeals <- 2, MaxTime <- 2, MaxChanges <- 1,
  barred <- cBarred, now <- cNow, created <- cCreated, changes <- cChanges

\* Two funds, two accounts and sessions two deep.
S == INSTANCE SametFund WITH
  Accounts <- {"a", "b"}, Wealth <- 3, Amounts <- {1, 2}, RateDenom <- 3, Rates <- {1, 2},
  MaxFunds <- 2, MaxNesting <- 2, MaxOps <- 4,
  bal <- sBal, ops <- sOps, created <- sCreated

Op(k, a, q) == [kind |-> k, by |-> a, target |-> q]

\* Proposals that act, that approve or delete an older one or one that does not
\* exist yet, and some whose second operation may fail after the first has run
\* another proposal.
P == INSTANCE Proposals WITH
  Accounts <- {"a", "b"},
  Bodies <- {<<Op("act", "a", 0)>>, <<Op("act_owner", "b", 0)>>,
             <<Op("update", "a", 1), Op("act", "b", 0)>>, <<Op("update", "a", 2)>>,
             <<Op("update", "a", 1), Op("delete", "a", 1)>>, <<Op("delete", "a", 1)>>},
  Reviews <- {0, 1}, MaxLifetime <- 2, MaxNesting <- 2,
  MaxProposals <- 2, MaxTime <- 2, MaxOps <- 3, MaxToggles <- 1,
  now <- pNow, ops <- pOps

\* A chain of three proposals, each of which approves the one before it.
Q == INSTANCE Proposals WITH
  Accounts <- {"a", "b"},
  Bodies <- {<<Op("act", "a", 0)>>, <<Op("update", "a", 1), Op("act", "b", 0)>>, <<Op("update", "b", 2)>>},
  Reviews <- {0}, MaxLifetime <- 1, MaxNesting <- 2,
  MaxProposals <- 3, MaxTime <- 1, MaxOps <- 5, MaxToggles <- 0,
  now <- pNow, ops <- pOps

\* A pool, its owner and one other account.
L == INSTANCE LiquidityPool WITH
  Owner <- "owner", Others <- {"x"}, WealthA <- 8, WealthB <- 9,
  Deposits <- {1, 2, 4}, Sales <- {1, 2, 3}, Shares <- {1, 2, 4}, Hundred <- 10,
  TakerFees <- {0, 3}, WithdrawalFees <- {0, 5}, MakerFee <- 5, TakerFee <- 5, MaxMarketFee <- 1,
  MaxSupply <- 6, MaxOps <- 5,
  bal <- lBal, exists <- lExists, pool <- lPool, supply <- lSupply, fees <- lFees, ops <- lOps

\* A prediction market: three accounts, and outcomes that are nothing, everything
\* and fractions.
M == INSTANCE PredictionMarket WITH
  Accounts <- {"a", "b", "c"}, Outcomes <- {<<1, 0>>, <<1, 1>>, <<3, 2>>, <<5, 2>>, <<3, 4>>},
  StartCore <- 3, Deltas <- {-3, -1, 1, 2, 3}, MaxSupply <- 7,
  debt <- mDebt, bal <- mBal, core <- mCore, supply <- mSupply, price <- mPrice, fund <- mFund

\* The instances meet what the modules assume.
ASSUME ContractsAssumption ==
  /\ H!HtlcAssumption /\ W!WithdrawAssumption /\ T!TicketAssumption /\ U!TicketAssumption
  /\ V!VestingAssumption /\ B!VestingAssumption /\ C!CreditAssumption
  /\ S!SametAssumption /\ P!ProposalsAssumption /\ Q!ProposalsAssumption
  /\ L!PoolAssumption /\ M!PredictionAssumption

-----------------------------------------------------------------------------
Parts == {"htlc", "withdraw", "tickets", "ticket", "vesting", "cashback", "credit", "samet",
          "proposals", "proposal_chain", "pool", "prediction"}

\* A part that is not run stands still in one of its initial states.
Init ==
  /\ part \in Parts
  /\ H!Init /\ (part # "htlc" => options = 1)
  /\ W!Init
  /\ IF part = "ticket" THEN U!Init ELSE T!Init
  /\ IF part = "cashback" THEN B!Init ELSE V!Init
  /\ part \in {"vesting", "cashback"} \/ period = 1
  /\ C!Init /\ S!Init
  /\ IF part = "proposal_chain" THEN Q!Init ELSE P!Init
  /\ L!Init /\ M!Init

Next ==
  /\ UNCHANGED part
  /\ IF part = "htlc" THEN H!Next ELSE UNCHANGED hVars
  /\ IF part = "withdraw" THEN W!Next ELSE UNCHANGED wVars
  /\ IF part = "tickets" THEN T!Next
     ELSE IF part = "ticket" THEN U!Next
     ELSE UNCHANGED tVars
  /\ IF part = "vesting" THEN V!Next
     ELSE IF part = "cashback" THEN B!Next
     ELSE UNCHANGED vVars
  /\ IF part = "credit" THEN C!Next ELSE UNCHANGED cVars
  /\ IF part = "samet" THEN S!Next ELSE UNCHANGED sVars
  /\ IF part = "proposals" THEN P!Next
     ELSE IF part = "proposal_chain" THEN Q!Next
     ELSE UNCHANGED pVars
  /\ IF part = "pool" THEN L!Next ELSE UNCHANGED lVars
  /\ IF part = "prediction" THEN M!Next ELSE UNCHANGED mVars

Spec == Init /\ [][Next]_vars

-----------------------------------------------------------------------------
(* Properties: those of the part that is run, as its module defines them.      *)

\* No contract creates or destroys an amount, and no balance becomes negative: not
\* in the race of a redemption with a refund (htlc), in the rounding of fees,
\* cashback and interest (account_object.cpp, credit_offer_evaluator.cpp), in a
\* ticket that is split, in a deal that expires while it is repaid, in any state
\* that a failing transaction returns to, in the roundings of a pool nor in the
\* redemptions of a prediction market after its settlement.
Conserved ==
  CASE part = "htlc" -> H!TypeOK /\ H!Conserved
    [] part = "withdraw" -> W!TypeOK
    [] part = "tickets" -> T!TypeOK /\ T!Conserved
    [] part = "ticket" -> U!TypeOK /\ U!Conserved
    [] part = "vesting" -> V!TypeOK /\ V!Conserved
    [] part = "cashback" -> B!TypeOK /\ B!Conserved
    [] part = "credit" -> C!TypeOK /\ C!Conserved
    [] part = "samet" -> S!TypeOK /\ S!Conserved
    [] part = "proposals" -> P!TypeOK
    [] part = "proposal_chain" -> Q!TypeOK
    [] part = "pool" -> L!TypeOK /\ L!Conserved
    [] part = "prediction" -> M!TypeOK /\ M!Conserved

\* A hash time-locked contract locks no amount further ahead than a time-out that
\* the committee allowed (htlc_extend_evaluator), and the sender is not refunded
\* before the expiration the recipient agreed to (clear_expired_htlcs).
TimeLocksHold == [](part = "htlc" => H!LocksBounded) /\ H!NoEarlyRefund

\* However periods drift between claims, no more than the limit is taken in any
\* period, nothing after the last one, and nothing is withheld either
\* (withdraw_permission_claim_evaluator, available_this_period).
WithinLimits == part = "withdraw" => W!WithinLimits

\* The statistics that voting power is counted from are those of the tickets, an
\* update runs process_tickets without affecting other tickets, no ticket is paid
\* out before its types allow, what is locked forever stays, and every turn of the
\* loop of process_tickets brings it nearer to its end.
TicketsKept ==
  /\ [](part = "tickets" => T!StatsExact /\ T!OthersUntouched)
  /\ [](part = "ticket" => U!StatsExact /\ U!OthersUntouched)
  /\ T!LockHonoured /\ T!ForeverStays /\ T!LoopAdvances

\* What a vesting policy allows to withdraw is never negative and never more than
\* there is, splitting deposits and withdrawals gains no coin-seconds, and what
\* comes in vested can be withdrawn at once (deposit_vested).
VestingSound ==
  /\ [](part = "vesting" => V!AllowedSound /\ V!CoinSecondsPaid)
  /\ [](part = "cashback" => B!AllowedSound /\ B!CoinSecondsPaid)
  /\ B!VestedAtOnce

\* Totals of offers and summaries are those of the deals, partial repayments keep
\* the lender covered, no deal outlives its deadline, and an automatic repayment
\* in part is never refused for want of balance (update_credit_offers_and_deals).
CreditSound == part = "credit" => C!CreditSound

\* Between transactions no fund is owed anything, whatever failed or was nested,
\* and lending never costs the owner anything (samet_fund_evaluator.cpp).
FundsRepaid == part = "samet" => S!FundsRepaid

\* The operations of a proposal take effect at most once, a proposal that fails is
\* kept for another try, and none is left when it has expired (push_proposal,
\* clear_expired_proposals).
ProposalsResolve ==
  [](part \in {"proposals", "proposal_chain"} => P!ExecutedOnce /\ P!NoneExpired) /\ P!KeptUntilResolved

\* A proposal that is being executed is there until its session ends, nested
\* executions go to older proposals, the review period holds also against other
\* proposals, and the index tracks nothing that is gone (proposal_evaluator.cpp).
ProposalsGuarded == part \in {"proposals", "proposal_chain"} => P!ProposalsGuarded

\* The balances of a pool and the supply of its shares are zero together, and no
\* operation of anybody makes a share worth less (liquidity_pool_evaluator.cpp).
PoolFair == [](part = "pool" => L!EmptyTogether) /\ L!NoDilution

\* Redeeming early never hurts those who redeem later, the settlement fund is paid
\* out to the last unit, and a redemption takes no token it does not pay for
\* (pay_settle_from_gs_fund).
RedemptionFair ==
  [](part = "prediction" => M!FundCoversTokens /\ M!NothingLeftBehind) /\ M!NeverOverpays
==============================================================================
