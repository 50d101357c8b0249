------------------------------- MODULE Vesting -------------------------------
(***************************************************************************)
(* Vesting balances: the linear, coin-seconds and instant policies, the    *)
(* balances of genesis, and the fees that accounts pay, which maintenance  *)
(* splits between the network and the cashback balances of referrer,       *)
(* lifetime referrer and registrar.                                        *)
(***************************************************************************)
EXTENDS Integers, Sequences, FiniteSets, Sums

CONSTANTS
  Accounts, Supply,       \* accounts and what each owns at the start
  Reserved,               \* accounts of the chain itself: they get no cashback
  Payer,                  \* the account whose fees are followed
  Referrer, LifetimeReferrer, Registrar,  \* of the payer
  MemberUntil,            \* when the referrer's membership ends
  NetworkCut, LifetimeCut, ReferrerCut,  \* percentages of the payer's fees
  Fees, Threshold,        \* fees, and cashback_vesting_threshold
  Amounts,                \* amounts put in and withdrawn
  Cliff, Duration,        \* linear policy: seconds from its begin
  VestingPeriods,         \* values of vesting_seconds
  Genesis,                \* linear balance of genesis
  Day,                    \* seconds between two claims of it
  MaxTime, MaxFees, MaxCreated, MaxChanges  \* bounds

\* What the constants are assumed to be.
VestingAssumption ==
  /\ {Supply, Threshold, Cliff, Duration, Genesis, MaxTime, MaxFees, MaxCreated, MaxChanges} \subseteq Nat
  /\ Fees \cup Amounts \cup {Day} \subseteq Nat \ {0} /\ VestingPeriods \subseteq Nat
  /\ {NetworkCut, LifetimeCut, ReferrerCut, MemberUntil} \subseteq Nat
  /\ NetworkCut + LifetimeCut <= 100 /\ ReferrerCut <= 100
  /\ Cliff < Duration
  /\ IsFiniteSet(Accounts) /\ {Payer, Referrer, LifetimeReferrer, Registrar} \subseteq Accounts

VARIABLES
  balance,       \* account -> amount
  vbs,           \* id -> vesting_balance_object
  cashback,      \* account -> id of its cashback_vb, 0 for none
  pending,       \* [fees, vested]: pending_fees and pending_vested_fees of the payer
  referrer,      \* referrer of the payer
  accumulated,   \* accumulated_fees of the core asset
  burned,        \* what left the supply
  period,        \* cashback_vesting_period_seconds
  genesis,       \* [left, last]: the vesting balance of genesis
  now, fees, created, changes  \* head block time and counters

vars == <<balance, vbs, cashback, pending, referrer, accumulated, burned, period, genesis,
          now, fees, created, changes>>

Ids == DOMAIN vbs
MaxOf(a, b) == IF a > b THEN a ELSE b
MinOf(a, b) == IF a < b THEN a ELSE b

Init ==
  /\ balance = [a \in Accounts |-> Supply]
  /\ vbs = << >>
  /\ cashback = [a \in Accounts |-> 0]
  /\ pending = [fees |-> 0, vested |-> 0]
  /\ referrer = Referrer
  /\ accumulated = 0
  /\ burned = 0
  /\ period \in VestingPeriods
  /\ genesis = [left |-> Genesis, last |-> 0]
  /\ now = 1
  /\ fees = 0 /\ created = 0 /\ changes = 0

(***************************************************************************)
(* The policies.  A linear policy vests begin_balance from begin on; under *)
(* coin-seconds every coin counts the seconds it lies in the balance.      *)
(***************************************************************************)

\* mutant: what has been withdrawn is not subtracted
LinearAllowedOnce(begin, total, left) ==
  LET elapsed == now - begin
      vested == IF elapsed < Duration THEN (total * elapsed) \div Duration ELSE total
  IN IF elapsed > 0 /\ elapsed >= Cliff THEN vested ELSE 0

\* linear_vesting_policy::get_allowed_withdraw; total is begin_balance
LinearAllowed(begin, total, left) ==
  LET elapsed == now - begin
      vested == IF elapsed < Duration THEN (total * elapsed) \div Duration ELSE total
  IN IF elapsed > 0 /\ elapsed >= Cliff THEN vested - (total - left) ELSE 0

Seconds(vb) == MaxOf(vb.seconds, 1)

\* compute_coin_seconds_earned
CoinSeconds(vb) == MinOf(vb.earned + vb.balance * (now - vb.last), vb.balance * Seconds(vb))

\* get_allowed_withdraw by policy
Allowed(vb) ==
  CASE vb.policy = "linear" -> LinearAllowed(vb.begin, vb.total, vb.balance)
    [] vb.policy = "cdd" -> IF now <= vb.start THEN 0 ELSE CoinSeconds(vb) \div Seconds(vb)
    [] vb.policy = "instant" -> vb.balance

\* update_coin_seconds_earned; held is, for the properties, the integral of the
\* balance over time.
Updated(vb) ==
  IF vb.policy # "cdd" THEN vb
  ELSE [vb EXCEPT !.earned = CoinSeconds(vb), !.last = now, !.held = @ + vb.balance * (now - vb.last)]

\* vesting_balance_object::deposit
Deposit(vb, n) == [Updated(vb) EXCEPT !.balance = @ + n]

\* deposit_vested
DepositVested(vb, n) ==
  [Deposit(vb, n) EXCEPT !.earned = @ + n * Seconds(vb), !.vested = @ + n]

\* mutant: the coin-seconds of what is withdrawn stay
WithdrawFree(vb, n) ==
  [Updated(vb) EXCEPT !.balance = @ - n, !.out = @ + n]

\* withdraw
Withdraw(vb, n) ==
  LET u == Updated(vb)
  IN [u EXCEPT !.earned = IF vb.policy = "cdd" THEN @ - n * Seconds(vb) ELSE @,
               !.balance = @ - n, !.out = @ + n]

\* A new vesting balance; vested and out are what came in without vesting and
\* what has been withdrawn.
NewVb(owner, n, policy, seconds, start) ==
  [owner |-> owner, balance |-> n, policy |-> policy, begin |-> start, total |-> n, seconds |-> seconds,
   start |-> start, earned |-> 0, last |-> now, held |-> 0, vested |-> 0, out |-> 0]

\* vesting_balance_create
vesting_balance_create(creator, owner, n, policy, seconds, start) ==
  /\ created < MaxCreated
  /\ balance[creator] >= n
  /\ balance' = [balance EXCEPT ![creator] = @ - n]
  /\ vbs' = Append(vbs, NewVb(owner, n, policy, seconds, start))
  /\ created' = created + 1
  /\ UNCHANGED <<cashback, pending, referrer, accumulated, burned, period, genesis, now, fees, changes>>

\* vesting_balance_withdraw
vesting_balance_withdraw(i, n) ==
  LET vb == vbs[i]
  IN /\ n <= Allowed(vb)
     /\ vbs' = [vbs EXCEPT ![i] = Withdraw(vb, n)]
     /\ balance' = [balance EXCEPT ![vb.owner] = @ + n]
     /\ UNCHANGED <<cashback, pending, referrer, accumulated, burned, period, genesis, now, fees, created, changes>>

\* balance_claim of the vesting balance of genesis
balance_claim(a, n) ==
  /\ genesis.left > 0
  /\ n <= LinearAllowed(0, Genesis, genesis.left)
  /\ now - genesis.last >= Day
  /\ genesis' = [left |-> genesis.left - n, last |-> now]
  /\ balance' = [balance EXCEPT ![a] = @ + n]
  /\ UNCHANGED <<vbs, cashback, pending, referrer, accumulated, burned, period, now, fees, created, changes>>

(***************************************************************************)
(* Fees and cashback                                                       *)
(***************************************************************************)

\* pay_fee: a fee above the threshold is paid out as cashback that vests.
PayFee(fee) ==
  /\ fees < MaxFees
  /\ balance[Payer] >= fee
  /\ balance' = [balance EXCEPT ![Payer] = @ - fee]
  /\ pending' = IF fee > Threshold THEN [pending EXCEPT !.fees = @ + fee]
                ELSE [pending EXCEPT !.vested = @ + fee]
  /\ fees' = fees + 1
  /\ UNCHANGED <<vbs, cashback, referrer, accumulated, burned, period, genesis, now, created, changes>>

cut_fee(n, percent) == (n * percent) \div 100

\* A new cashback balance of a; the policy's coin-seconds are those of what need
\* not vest.
NewCashback(a, n, vesting) ==
  [NewVb(a, n, "cdd", period, 0) EXCEPT !.earned = IF vesting THEN 0 ELSE n * period,
                                        !.vested = IF vesting THEN 0 ELSE n]
Opened(d, a, n, vesting) ==
  [d EXCEPT !.vbs = Append(@, NewCashback(a, n, vesting)),
            !.cashback = [d.cashback EXCEPT ![a] = Len(d.vbs) + 1]]

\* mutant: a cashback balance of another maturity is used on
LazyReuse(d, a, n, vesting) ==
  LET i == d.cashback[a]
      vb == Deposit(d.vbs[i], n)
  IN IF i # 0
     THEN [d EXCEPT !.vbs = [d.vbs EXCEPT ![i] = IF vesting THEN vb
                                                 ELSE [vb EXCEPT !.earned = @ + n * period, !.vested = @ + n]]]
     ELSE Opened(d, a, n, vesting)

\* deposit_lazy_vesting into the account's cashback balance, or into a new one
\* if the period has changed since.
Lazy(d, a, n, vesting) ==
  LET i == d.cashback[a]
      vb == d.vbs[i]
  IN IF i # 0 /\ vb.seconds = period
     THEN [d EXCEPT !.vbs = [d.vbs EXCEPT ![i] = IF vesting THEN Deposit(vb, n) ELSE DepositVested(vb, n)]]
     ELSE Opened(d, a, n, vesting)

\* deposit_cashback
DepositCashback(d, a, n, vesting) ==
  CASE n = 0 -> d
    [] n > 0 /\ a \in Reserved -> [d EXCEPT !.burned = @ + n]
    [] OTHER -> Lazy(d, a, n, vesting)

\* pay_out_fees: a referrer that is no member any more is replaced for good.
PayOut(d, total, vesting) ==
  LET ref == IF now > MemberUntil THEN LifetimeReferrer ELSE d.referrer
      network == cut_fee(total, NetworkCut)
      lifetime == cut_fee(total, LifetimeCut)
      referral == total - network - lifetime
      forRef == cut_fee(referral, ReferrerCut)
      d1 == DepositCashback([d EXCEPT !.referrer = ref, !.accumulated = @ + network],
                            LifetimeReferrer, lifetime, vesting)
      d2 == DepositCashback(d1, ref, forRef, vesting)
  IN DepositCashback(d2, Registrar, referral - forRef, vesting)

\* process_fees, at maintenance
ProcessFees ==
  LET d0 == [vbs |-> vbs, cashback |-> cashback, referrer |-> referrer,
             accumulated |-> accumulated, burned |-> burned]
      d == PayOut(PayOut(d0, pending.fees, TRUE), pending.vested, FALSE)
  IN /\ pending.fees > 0 \/ pending.vested > 0
     /\ vbs' = d.vbs /\ cashback' = d.cashback /\ referrer' = d.referrer
     /\ accumulated' = d.accumulated /\ burned' = d.burned
     /\ pending' = [fees |-> 0, vested |-> 0]
     /\ UNCHANGED <<balance, period, genesis, now, fees, created, changes>>

\* A maintenance puts the committee's pending parameters into force, with another
\* cashback_vesting_period_seconds.
UpdatePeriod(p) ==
  /\ changes < MaxChanges /\ p # period
  /\ period' = p
  /\ changes' = changes + 1
  /\ UNCHANGED <<balance, vbs, cashback, pending, referrer, accumulated, burned, genesis, now, fees, created>>

NewBlock ==
  /\ now < MaxTime
  /\ now' = now + 1
  /\ UNCHANGED <<balance, vbs, cashback, pending, referrer, accumulated, burned, period, genesis, fees, created, changes>>

Next ==
  \/ \E a \in Accounts, n \in Amounts, p \in {"linear", "cdd", "instant"}, s \in VestingPeriods :
        vesting_balance_create(Payer, a, n, p, s, now)
  \/ \E i \in Ids, n \in Amounts : vesting_balance_withdraw(i, n)
  \/ \E n \in Amounts : balance_claim(Payer, n)
  \/ \E f \in Fees : PayFee(f)
  \/ ProcessFees
  \/ \E p \in VestingPeriods : UpdatePeriod(p)
  \/ NewBlock

Spec == Init /\ [][Next]_vars

------------------------------------------------------------------------------

\* Nothing that an account, a vesting balance or a coin-seconds counter holds
\* becomes negative.
TypeOK ==
  /\ balance \in [Accounts -> Nat]
  /\ \A i \in Ids : vbs[i].balance \in Nat /\ vbs[i].earned \in Nat
  /\ genesis.left \in Nat

\* Fees, cashback, vesting balances and what the chain's accounts gave back to
\* the reserve add up: no remainder of a percentage is lost or paid twice.
Conserved ==
  SumOver(balance, Accounts) + SumOver([i \in Ids |-> vbs[i].balance], Ids)
  + pending.fees + pending.vested + accumulated + burned + genesis.left
  = Supply * Cardinality(Accounts) + Genesis

\* The asserts of the policies: what may be withdrawn is never negative and
\* never more than there is, at any time and after any deposits.
AllowedSound ==
  /\ \A i \in Ids : Allowed(vbs[i]) \in 0..vbs[i].balance
  /\ LinearAllowed(0, Genesis, genesis.left) \in 0..genesis.left

\* Every coin withdrawn under coin-seconds has been paid for by coins lying in
\* the balance for vesting_seconds, unless it came in vested: splitting deposits
\* and withdrawals gains nothing.
CoinSecondsPaid ==
  \A i \in Ids : LET vb == vbs[i]
                 IN vb.policy = "cdd" => vb.out * Seconds(vb) <= vb.held + vb.vested * Seconds(vb)

\* What a can withdraw, and what has come in vested, in all balances of a list.
Available(a, list) ==
  SumOver([i \in DOMAIN list |-> IF list[i].owner = a THEN Allowed(list[i]) ELSE 0], DOMAIN list)
CameVested(a, list) ==
  SumOver([i \in DOMAIN list |-> IF list[i].owner = a THEN list[i].vested ELSE 0], DOMAIN list)

\* What the accounts can withdraw grows by what comes in vested.
VestsAtOnce ==
  now' = now /\ pending.vested > 0 /\ pending'.vested = 0 =>
    \A a \in Accounts : Available(a, vbs') - Available(a, vbs) >= CameVested(a, vbs') - CameVested(a, vbs)

\* deposit_vested makes "the new funds vest immediately": what comes in as
\* cashback without vesting can be withdrawn at once, from whatever balance.
VestedAtOnce == [][VestsAtOnce]_vars

\* Nobody withdraws what has not vested, and what came in vested can be withdrawn.
VestingSound == [](AllowedSound /\ CoinSecondsPaid) /\ VestedAtOnce
==============================================================================
