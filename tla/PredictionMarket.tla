---------------------------- MODULE PredictionMarket ----------------------------
(***************************************************************************)
(* A prediction market: the only market-issued assets of this chain that   *)
(* can be settled.  Tokens are borrowed one for one against the backing    *)
(* asset; the issuer settles the market once, at the price of the outcome, *)
(* which gathers collateral into a fund; from then on every holder redeems *)
(* tokens from the fund.                                                   *)
(***************************************************************************)
EXTENDS Integers, FiniteSets, Sums

CONSTANTS
    Accounts,
    Outcomes,     \* settlement prices the issuer may state: <<debt, collateral>>
    StartCore,    \* collateral each account starts with
    Deltas,       \* changes of a position in one operation
    MaxSupply

\* What the constants are assumed to be.
PredictionAssumption ==
    /\ IsFiniteSet(Accounts)
    /\ Outcomes \subseteq (Nat \ {0}) \X Nat
    /\ Deltas \subseteq Int
    /\ StartCore \in Nat /\ MaxSupply \in Nat

VARIABLES
    debt,     \* debt = collateral of each account's call order
    bal,      \* token balances
    core,     \* balances in the backing asset
    supply,   \* current_supply
    price,    \* settlement_price <<supply, fund>> once globally settled, or <<0, 0>>
    fund      \* settlement_fund
vars == <<debt, bal, core, supply, price, fund>>

GloballySettled == price # <<0, 0>>

\* asset * price rounds down, multiply_and_round_up rounds up.
Mul(x, num, den) == (x * num) \div den
MulUp(x, num, den) == (x * num + den - 1) \div den

SumOf(f) == SumOver(f, Accounts)

-----------------------------------------------------------------------------
\* call_order_update: debt and collateral change by the same amount.
call_order_update(a, d) ==
    /\ d # 0
    /\ ~GloballySettled
    /\ debt[a] = 0 => d > 0
    /\ debt[a] + d >= 0
    /\ supply + d <= MaxSupply
    /\ bal[a] + d >= 0
    /\ core[a] - d >= 0
    /\ debt' = [debt EXCEPT ![a] = @ + d]
    /\ bal' = [bal EXCEPT ![a] = @ + d]
    /\ core' = [core EXCEPT ![a] = @ - d]
    /\ supply' = supply + d
    /\ UNCHANGED <<price, fund>>

\* Tokens are traded.
Transfer(a, b, x) ==
    /\ a # b
    /\ x \in 1..bal[a]
    /\ bal' = [bal EXCEPT ![a] = @ - x, ![b] = @ + x]
    /\ UNCHANGED <<debt, core, supply, price, fund>>

\* globally_settle_asset_impl: what a position pays, in favour of the fund and never more
\* than its collateral.
Pays(d, p) == IF MulUp(d, p[2], p[1]) < d THEN MulUp(d, p[2], p[1]) ELSE d

\* asset_global_settle by the issuer at price p.  Only the position that the index has
\* first is looked at; all are equally collateralized, so it may be any of them.
asset_global_settle(p) ==
    /\ ~GloballySettled
    /\ supply > 0
    /\ \E a \in Accounts : debt[a] > 0 /\ Mul(debt[a], p[2], p[1]) <= debt[a]
    /\ fund' = SumOf([a \in Accounts |-> Pays(debt[a], p)])
    /\ price' = <<supply, fund'>>
    /\ core' = [a \in Accounts |-> core[a] + debt[a] - Pays(debt[a], p)]
    /\ debt' = [a \in Accounts |-> 0]
    /\ UNCHANGED <<bal, supply>>

\* pay_settle_from_gs_fund: what redeeming x tokens yields, and how many it takes.
\* mutant: the last holder is paid by the price like anyone else
RedeemedByPrice(x) == Mul(x, price[2], price[1])
Redeemed(x) == IF x = supply THEN fund ELSE Mul(x, price[2], price[1])

\* mutant: the tokens that the amount paid out is worth, rounded down
TokensTakenDown(x) ==
    IF x = supply \/ Redeemed(x) = 0 THEN x ELSE Mul(Redeemed(x), price[1], price[2])
\* mutant: all the tokens offered are taken
TokensTakenAll(x) == x
TokensTaken(x) ==
    IF x = supply \/ Redeemed(x) = 0 THEN x ELSE MulUp(Redeemed(x), price[1], price[2])

asset_settle(a, x) ==
    /\ GloballySettled
    /\ x \in 0..bal[a]
    /\ x # supply => Redeemed(x) <= fund
    /\ bal' = [bal EXCEPT ![a] = @ - TokensTaken(x)]
    /\ core' = [core EXCEPT ![a] = @ + Redeemed(x)]
    /\ fund' = fund - Redeemed(x)
    /\ supply' = supply - TokensTaken(x)
    /\ UNCHANGED <<debt, price>>

-----------------------------------------------------------------------------
Init ==
    /\ debt = [a \in Accounts |-> 0]
    /\ bal = [a \in Accounts |-> 0]
    /\ core = [a \in Accounts |-> StartCore]
    /\ supply = 0
    /\ price = <<0, 0>>
    /\ fund = 0

Next ==
    \/ \E a \in Accounts, d \in Deltas : call_order_update(a, d)
    \/ \E a, b \in Accounts : \E x \in 1..MaxSupply : Transfer(a, b, x)
    \/ \E p \in Outcomes : asset_global_settle(p)
    \/ \E a \in Accounts : \E x \in 0..MaxSupply : asset_settle(a, x)

Spec == Init /\ [][Next]_vars

-----------------------------------------------------------------------------
(* Properties *)

TypeOK ==
    /\ \A a \in Accounts : debt[a] \in Nat /\ bal[a] \in Nat /\ core[a] \in Nat
    /\ supply \in 0..MaxSupply
    /\ fund \in Nat

\* Collateral is never created or lost, and every token is one of current_supply: the
\* roundings of borrowing, settling and redeeming add up.
Conserved ==
    /\ SumOf(core) + SumOf(debt) + fund = Cardinality(Accounts) * StartCore
    /\ SumOf(bal) = supply
    /\ ~GloballySettled => SumOf(debt) = supply

\* Redeeming early never hurts those who redeem later: the fund holds at least the
\* settlement price for every token still out, so the "Internal error" assertion of
\* pay_settle_from_gs_fund cannot fail for any holder and any amount.
FundCoversTokens ==
    GloballySettled =>
      /\ fund * price[1] >= price[2] * supply
      /\ \A a \in Accounts : \A x \in 0..bal[a] : Redeemed(x) <= fund

\* The fund is paid out to the last unit: when no token is left nothing is left in it,
\* so a settlement of nothing by anyone cannot empty it.
NothingLeftBehind == GloballySettled /\ supply = 0 => fund = 0

\* A redemption takes no token it does not pay for, except when what it asks for is worth
\* less than one unit: tokens taken beyond the price of what is paid are never whole units.
PaysForTokens ==
    \A a \in Accounts :
      GloballySettled /\ supply' < supply /\ core'[a] > core[a] /\ supply' # 0
      => (bal[a] - bal'[a] - 1) * price[2] < (core'[a] - core[a]) * price[1]
NeverOverpays == [][PaysForTokens]_vars

\* Everybody is paid the settlement price, whoever comes first.
RedemptionFair == [](FundCoversTokens /\ NothingLeftBehind) /\ NeverOverpays
=============================================================================
