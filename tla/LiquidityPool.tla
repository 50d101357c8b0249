----------------------------- MODULE LiquidityPool -----------------------------
(***************************************************************************)
(* A liquidity pool: two assets that anybody exchanges against each other  *)
(* along a constant product, and a share asset that is issued to those who *)
(* deposit and taken back from those who withdraw.                         *)
(***************************************************************************)
EXTENDS Integers, FiniteSets, Sums

CONSTANTS
  Owner, Others,         \* the issuer of the share asset, and other accounts
  WealthA, WealthB,      \* what each account owns at the start
  Deposits, Sales, Shares,  \* amounts of deposits, exchanges, and shares
  Hundred,               \* GRAPHENE_100_PERCENT
  TakerFees, WithdrawalFees,  \* fee percents of the pool
  MakerFee, TakerFee, MaxMarketFee,  \* market fees of both assets
  MaxSupply,             \* of the share asset
  MaxOps                 \* bound

\* What the constants are assumed to be.
PoolAssumption ==
  /\ {WealthA, WealthB, MakerFee, TakerFee, MaxMarketFee, MaxSupply, MaxOps} \subseteq Nat
  /\ Deposits \cup Sales \cup Shares \cup {Hundred} \subseteq Nat \ {0}
  /\ TakerFees \cup WithdrawalFees \subseteq 0..Hundred
  /\ IsFiniteSet(Others) /\ Owner \notin Others

Accounts == Others \cup {Owner}
NoPool == [a |-> 0, b |-> 0, virtual |-> 0, taker |-> 0, withdrawal |-> 0]

VARIABLES
  bal,     \* account -> [a, b, share]
  exists,  \* the share asset is bound to a pool
  pool,    \* liquidity_pool_object
  supply,  \* current_supply of the share asset
  fees,    \* market fees paid, in each of the two assets
  ops      \* counter

vars == <<bal, exists, pool, supply, fees, ops>>

CeilDiv(x, y) == (x + y - 1) \div y
MinOf(x, y) == IF x < y THEN x ELSE y
MaxOf(x, y) == IF x > y THEN x ELSE y

Init ==
  /\ bal = [x \in Accounts |-> [a |-> WealthA, b |-> WealthB, share |-> 0]]
  /\ exists = FALSE /\ pool = NoPool
  /\ supply = 0
  /\ fees = [a |-> 0, b |-> 0]
  /\ ops = 0

Step == ops < MaxOps /\ ops' = ops + 1

\* adjust_balance of an account, in each of the three assets.
Adjust(x, da, db, ds) ==
  /\ bal[x].a + da >= 0 /\ bal[x].b + db >= 0 /\ bal[x].share + ds >= 0
  /\ bal' = [bal EXCEPT ![x] = [a |-> @.a + da, b |-> @.b + db, share |-> @.share + ds]]

liquidity_pool_create(taker, withdrawal) ==
  /\ Step /\ ~exists
  /\ supply = 0
  /\ exists' = TRUE
  /\ pool' = [NoPool EXCEPT !.taker = taker, !.withdrawal = withdrawal]
  /\ UNCHANGED <<bal, supply, fees>>

liquidity_pool_delete ==
  /\ Step /\ exists
  /\ pool.a = 0 /\ pool.b = 0
  /\ exists' = FALSE /\ pool' = NoPool
  /\ UNCHANGED <<bal, supply, fees>>

\* The withdrawal fee may only be dropped, and the taker fee only changed
\* without it.
liquidity_pool_update(taker, drop) ==
  /\ Step /\ exists
  /\ taker # pool.taker => pool.withdrawal = 0 \/ drop
  /\ pool' = [pool EXCEPT !.taker = taker, !.withdrawal = IF drop THEN 0 ELSE @]
  /\ UNCHANGED <<bal, exists, supply, fees>>

\* The pool with new balances and update_virtual_value.
PoolWith(a, b) == [pool EXCEPT !.a = a, !.b = b, !.virtual = a * b]

\* mutant: what the depositor pays for new shares is rounded down
DepositTermsDown(a, b) ==
  LET new == MinOf(MinOf((supply * a) \div pool.a, (supply * b) \div pool.b), MaxSupply - supply)
  IN IF pool.a = 0 THEN [a |-> a, b |-> b, new |-> MaxOf(a, b)]
     ELSE [a |-> (new * pool.a) \div supply, b |-> (new * pool.b) \div supply, new |-> new]

\* The first depositor pays both amounts for as many shares as the larger one;
\* later ones get the shares that both amounts and the maximum supply allow, and
\* pay what corresponds to them, rounded up.
DepositTerms(a, b) ==
  LET new == MinOf(MinOf((supply * a) \div pool.a, (supply * b) \div pool.b), MaxSupply - supply)
  IN IF pool.a = 0 THEN [a |-> a, b |-> b, new |-> MaxOf(a, b)]
     ELSE [a |-> CeilDiv(new * pool.a, supply), b |-> CeilDiv(new * pool.b, supply), new |-> new]

liquidity_pool_deposit(x, a, b) ==
  LET t == DepositTerms(a, b) IN
  /\ Step /\ exists
  /\ (pool.a = 0) = (pool.b = 0)
  /\ pool.a = 0 => x = Owner
  /\ (pool.a = 0) = (supply = 0)
  /\ supply < MaxSupply
  /\ t.new > 0 /\ t.new <= MaxSupply - supply
  /\ Adjust(x, -t.a, -t.b, t.new)
  /\ pool' = PoolWith(pool.a + t.a, pool.b + t.b)
  /\ supply' = supply + t.new
  /\ UNCHANGED <<exists, fees>>

\* What n shares are worth of a balance of the pool, before the fee.
ShareOf(n, balance) == (n * balance) \div supply

\* What a withdrawal of n shares pays: all of it for the last shares.
Pays(n, balance) ==
  LET x == ShareOf(n, balance)
  IN IF n = supply THEN balance ELSE x - (x * pool.withdrawal) \div Hundred

liquidity_pool_withdraw(x, n) ==
  LET pa == Pays(n, pool.a)
      pb == Pays(n, pool.b)
  IN
  /\ Step /\ exists
  /\ pool.a > 0 /\ pool.b > 0
  /\ supply >= n
  /\ n < supply => pa > 0 \/ pb > 0
  /\ Adjust(x, pa, pb, -n)
  /\ supply' = supply - n
  /\ pool' = PoolWith(pool.a - pa, pool.b - pb)
  /\ UNCHANGED <<exists, fees>>

MarketFee(n, percent) == MinOf((n * percent) \div Hundred, MaxMarketFee)

\* How much of a balance the constant product sets free when the other becomes new.
Delta(balance, new) == balance - CeilDiv(pool.virtual, new)

\* The outcome of selling n to the pool: what it receives, pays and what the
\* seller is left with, given its balances in the two assets.
ExchangeTerms(n, in, out) ==
  LET maker == MarketFee(n, MakerFee)
      delta == Delta(out, in + (n - maker))
      pays == delta - (delta * pool.taker) \div Hundred
      taker == MarketFee(pays, TakerFee)
  IN [maker |-> maker, receives |-> n - maker, pays |-> pays, taker |-> taker, gets |-> pays - taker]

\* The account sells a or b to the pool; it accepts anything above zero.
liquidity_pool_exchange(x, n, sells) ==
  LET t == IF sells = "a" THEN ExchangeTerms(n, pool.a, pool.b) ELSE ExchangeTerms(n, pool.b, pool.a) IN
  /\ Step /\ exists
  /\ pool.a > 0 /\ pool.b > 0
  /\ t.maker < n
  /\ t.gets >= 1
  /\ IF sells = "a"
     THEN /\ Adjust(x, -n, t.gets, 0)
          /\ fees' = [a |-> fees.a + t.maker, b |-> fees.b + t.taker]
          /\ pool' = PoolWith(pool.a + t.receives, pool.b - t.pays)
     ELSE /\ Adjust(x, t.gets, -n, 0)
          /\ fees' = [a |-> fees.a + t.taker, b |-> fees.b + t.maker]
          /\ pool' = PoolWith(pool.a - t.pays, pool.b + t.receives)
  /\ UNCHANGED <<exists, supply>>

\* mutant: all shares may be burned
asset_reserve_all(x, n) ==
  /\ Step
  /\ exists /\ supply >= n
  /\ Adjust(x, 0, 0, -n)
  /\ supply' = supply - n
  /\ UNCHANGED <<exists, pool, fees>>

\* Shares are burned, but some must remain.
asset_reserve(x, n) ==
  /\ Step
  /\ exists /\ supply > n
  /\ Adjust(x, 0, 0, -n)
  /\ supply' = supply - n
  /\ UNCHANGED <<exists, pool, fees>>

Next ==
  \/ \E t \in TakerFees, w \in WithdrawalFees : liquidity_pool_create(t, w)
  \/ liquidity_pool_delete
  \/ \E t \in TakerFees, d \in BOOLEAN : liquidity_pool_update(t, d)
  \/ \E x \in Accounts, a \in Deposits, b \in Deposits : liquidity_pool_deposit(x, a, b)
  \/ \E x \in Accounts, n \in Shares : liquidity_pool_withdraw(x, n)
  \/ \E x \in Accounts, n \in Sales, s \in {"a", "b"} : liquidity_pool_exchange(x, n, s)
  \/ \E x \in Accounts, n \in Shares : asset_reserve(x, n)

Spec == Init /\ [][Next]_vars

----------------------------------------------------------------------------

TypeOK ==
  /\ \A x \in Accounts : bal[x] \in [a : Nat, b : Nat, share : Nat]
  /\ pool.a \in Nat /\ pool.b \in Nat /\ supply \in 0..MaxSupply
  /\ pool.taker \in 0..Hundred /\ pool.withdrawal \in 0..Hundred

\* The two balances of the pool and the supply of its shares are zero together:
\* otherwise deposits stop with an internal error or funds lie in a pool that
\* nobody has a share of.  The virtual value is the product of the balances.
EmptyTogether ==
  /\ (pool.a = 0) = (pool.b = 0)
  /\ exists => (pool.a = 0) = (supply = 0)
  /\ ~exists => supply = 0
  /\ pool.virtual = pool.a * pool.b

\* What the accounts have of each asset.
AOf == [x \in Accounts |-> bal[x].a]
BOf == [x \in Accounts |-> bal[x].b]
SharesOf == [x \in Accounts |-> bal[x].share]

\* Both assets are conserved, and the shares that accounts hold are the supply.
Conserved ==
  /\ SumOver(AOf, Accounts) + pool.a + fees.a = WealthA * Cardinality(Accounts)
  /\ SumOver(BOf, Accounts) + pool.b + fees.b = WealthB * Cardinality(Accounts)
  /\ SumOver(SharesOf, Accounts) = supply

\* No operation of anybody makes a share worth less: the product of the balances
\* never falls in proportion to the square of the supply, through every rounding
\* and fee.  So nobody gains by trading to and fro or by depositing and
\* withdrawing at the cost of those who hold shares.
WorthKept ==
  (supply > 0 /\ supply' > 0) =>
    pool'.a * pool'.b * supply * supply >= pool.a * pool.b * supply' * supply'
NoDilution == [][WorthKept]_vars

\* Shares keep their worth, and a pool without shares is empty.
PoolFair == []EmptyTogether /\ NoDilution
============================================================================
