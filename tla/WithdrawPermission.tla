-------------------------- MODULE WithdrawPermission --------------------------
(***************************************************************************)
(* Withdraw permissions: an account lets another one take up to a limit    *)
(* from its balance in each of a number of periods.  The object caches the *)
(* start of the last period claimed in and what was claimed in it; times   *)
(* are unsigned integers that wrap at W (time_point_sec, 32 bits).         *)
(***************************************************************************)
EXTENDS Integers, FiniteSets, Functions, Sums

CONSTANTS
  Accounts, Assets, Supply,  \* accounts, assets, and what each account has of each asset
  Limits, Amounts,           \* withdrawal_limit and amount_to_withdraw
  Periods, Counts,           \* withdrawal_period_sec and periods_until_expiration
  W,                         \* times are below W
  Restricted,                \* accounts an issuer bars at some time
  MaxPermits, MaxTime, MaxUpdates  \* bounds: permissions, head block time, updates

\* What the constants are assumed to be.
WithdrawAssumption ==
  /\ {Supply, MaxPermits, MaxTime, MaxUpdates} \subseteq Nat
  /\ Limits \cup Amounts \cup Periods \cup Counts \subseteq Nat \ {0}
  /\ W \in Nat /\ MaxTime < W

VARIABLES
  balance,   \* account -> asset -> amount
  permits,   \* id -> withdraw_permission_object
  next,      \* next id
  barred,    \* accounts that may not hold the assets
  now,       \* head block time
  updates    \* updates so far

vars == <<balance, permits, next, barred, now, updates>>

Live == DOMAIN permits

Init ==
  /\ balance = [a \in Accounts |-> [s \in Assets |-> Supply]]
  /\ permits = [i \in {} |-> 0]
  /\ next = 1
  /\ barred = {}
  /\ now = 0
  /\ updates = 0

\* time_point_sec + uint32_t
After(t, d) == (t + d) % W

\* mutant: the first period is not counted
ExpirationLate(start, n, period) == After(start, (n + 1) * period)

Expiration(start, n, period) == After(start, n * period)

\* What create and update ask of the new terms; earliest is the first start allowed.
TermsOK(start, n, period, earliest) ==
  /\ start >= earliest
  /\ Expiration(start, n, period) > now

\* Permission p under new terms.  anchor, count and taken remember, for the
\* properties, the terms as they were last set and what was taken in each period
\* since.
Terms(p, start, n, period, limit, asset) ==
  [from |-> p.from, to |-> p.to, claimed |-> p.claimed, updated |-> p.updated, limit |-> limit,
   asset |-> asset, period |-> period, start |-> start, expiration |-> Expiration(start, n, period),
   anchor |-> start, count |-> n, taken |-> [k \in 0..MaxTime |-> 0]]

withdraw_permission_create(from, to, limit, asset, start, n, period) ==
  /\ next <= MaxPermits
  /\ TermsOK(start, n, period, now + 1)
  /\ permits' = [i \in Live \cup {next} |->
                   IF i # next THEN permits[i]
                   ELSE Terms([from |-> from, to |-> to, claimed |-> 0, updated |-> FALSE],
                              start, n, period, limit, asset)]
  /\ next' = next + 1
  /\ UNCHANGED <<balance, barred, now, updates>>

\* An update keeps claimed_this_period.
withdraw_permission_update(i, limit, asset, start, n, period) ==
  /\ updates < MaxUpdates
  /\ TermsOK(start, n, period, now)
  /\ permits' = [permits EXCEPT ![i] =
                   Terms([@ EXCEPT !.updated = TRUE], start, n, period, limit, asset)]
  /\ updates' = updates + 1
  /\ UNCHANGED <<balance, next, barred, now>>

withdraw_permission_delete(i) ==
  /\ permits' = Restrict(permits, Live \ {i})
  /\ UNCHANGED <<balance, next, barred, now, updates>>

\* mutant: the new period begins one second late
AvailableStrict(p) ==
  IF now > After(p.start, p.period) THEN p.limit
  ELSE IF p.limit > p.claimed THEN p.limit - p.claimed ELSE 0

\* available_this_period at the head block's time
Available(p) ==
  IF now >= After(p.start, p.period) THEN p.limit
  ELSE IF p.limit > p.claimed THEN p.limit - p.claimed ELSE 0

CurrentPeriod(p) == (now - p.anchor) \div p.period

\* The permission after n has been taken.
Claimed(p, n) ==
  LET periods == (now - p.start) \div p.period
  IN [p EXCEPT !.start = After(@, periods * p.period),
               !.claimed = IF periods = 0 THEN @ + n ELSE n,
               !.taken[CurrentPeriod(p)] = @ + n]

\* adjust_balance of the payer, then of the payee
Paid(from, to, asset, n) ==
  [[balance EXCEPT ![from][asset] = @ - n] EXCEPT ![to][asset] = @ + n]

\* mutant: the balance of the payer is not looked at
withdraw_permission_claim_unfunded(i, n) ==
  LET p == permits[i]
  IN /\ p.expiration > now
     /\ p.start <= now
     /\ n <= Available(p)
     /\ {p.from, p.to} \cap barred = {}
     /\ permits' = [permits EXCEPT ![i] = Claimed(p, n)]
     /\ balance' = Paid(p.from, p.to, p.asset, n)
     /\ UNCHANGED <<next, barred, now, updates>>

\* mutant: the amount is compared with the limit itself
withdraw_permission_claim_by_limit(i, n) ==
  LET p == permits[i]
  IN /\ p.expiration > now
     /\ p.start <= now
     /\ n <= p.limit
     /\ balance[p.from][p.asset] >= n
     /\ {p.from, p.to} \cap barred = {}
     /\ permits' = [permits EXCEPT ![i] = Claimed(p, n)]
     /\ balance' = Paid(p.from, p.to, p.asset, n)
     /\ UNCHANGED <<next, barred, now, updates>>

withdraw_permission_claim(i, n) ==
  LET p == permits[i]
  IN /\ p.expiration > now
     /\ p.start <= now
     /\ n <= Available(p)
     /\ balance[p.from][p.asset] >= n
     /\ {p.from, p.to} \cap barred = {}
     /\ permits' = [permits EXCEPT ![i] = Claimed(p, n)]
     /\ balance' = Paid(p.from, p.to, p.asset, n)
     /\ UNCHANGED <<next, barred, now, updates>>

\* A block: update_withdraw_permissions removes what has expired.
NewBlock ==
  /\ now < MaxTime
  /\ now' = now + 1
  /\ permits' = Restrict(permits, {i \in Live : permits[i].expiration > now + 1})
  /\ UNCHANGED <<balance, next, barred, updates>>

Bar(a) ==
  /\ a \notin barred
  /\ barred' = barred \cup {a}
  /\ UNCHANGED <<balance, permits, next, now, updates>>

Next ==
  \/ \E f, t \in Accounts, l \in Limits, s \in Assets, t0 \in 0..MaxTime, n \in Counts, d \in Periods :
        f # t /\ withdraw_permission_create(f, t, l, s, t0, n, d)
  \/ \E i \in Live, l \in Limits, s \in Assets, t0 \in 0..MaxTime, n \in Counts, d \in Periods :
        withdraw_permission_update(i, l, s, t0, n, d)
  \/ \E i \in Live : withdraw_permission_delete(i)
  \/ \E i \in Live, n \in Amounts : withdraw_permission_claim(i, n)
  \/ \E a \in Restricted : Bar(a)
  \/ NewBlock

Spec == Init /\ [][Next]_vars

------------------------------------------------------------------------------

\* No balance becomes negative, whichever permissions draw on it.
TypeOK ==
  /\ balance \in [Accounts -> [Assets -> Nat]]
  /\ now \in 0..MaxTime
  /\ \A i \in Live : i < next /\ permits[i].claimed \in Nat /\ permits[i].start \in 0..(W - 1)

\* In no period, counted from the start that the payer set last, is more taken
\* than the limit (withdraw_permission_claim_evaluator and available_this_period).
LimitPerPeriod == \A i \in Live : \A k \in 0..MaxTime : permits[i].taken[k] <= permits[i].limit

\* Over its life a permission yields at most the limit times the number of
\* periods that the payer agreed to: nothing is taken in a period after the last.
TotalBounded ==
  \A i \in Live : LET p == permits[i]
                  IN SumOver(p.taken, 0..MaxTime) <= p.limit * p.count

\* available_this_period is exact from the first period on: it withholds nothing
\* either, in a permission that was not updated.
AvailableExact ==
  \A i \in Live : LET p == permits[i]
                  IN p.anchor <= now /\ ~p.updated => Available(p) = p.limit - p.taken[CurrentPeriod(p)]

\* The same for every permission, updated ones included, as the comment on
\* available_this_period says.
\* It does not hold: see "Other disagreements" in the README.
AvailableAccurate ==
  \A i \in Live : LET p == permits[i]
                  IN p.anchor <= now => Available(p) = p.limit - p.taken[CurrentPeriod(p)]

\* The payer loses no more and the payee gets no less than agreed.
WithinLimits == LimitPerPeriod /\ TotalBounded /\ AvailableExact
==============================================================================
