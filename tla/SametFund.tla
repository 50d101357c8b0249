------------------------------- MODULE SametFund -------------------------------
(***************************************************************************)
(* SameT funds: anybody may borrow from a fund, and must have repaid with  *)
(* a fee when the transaction ends.  A transaction, and a proposal that    *)
(* executes within it or at the end of a block, each run in an undo        *)
(* session; the sessions nest.                                             *)
(***************************************************************************)
EXTENDS Integers, Sequences, FiniteSets, SequencesExt, Sums

CONSTANTS
  Accounts,             \* owners of funds and borrowers
  Wealth,               \* what each account owns at the start
  Amounts,              \* amounts of every operation
  RateDenom, Rates,     \* GRAPHENE_FEE_RATE_DENOM and fee rates
  MaxFunds, MaxNesting, MaxOps  \* bounds: funds, sessions, operations

\* What the constants are assumed to be.
SametAssumption ==
  /\ IsFiniteSet(Accounts)
  /\ {Wealth, MaxFunds, MaxOps} \subseteq Nat /\ MaxNesting \in Nat \ {0}
  /\ Amounts \cup {RateDenom} \subseteq Nat \ {0}
  /\ Rates \subseteq Nat

VARIABLES
  bal,       \* account -> balance
  funds,     \* id -> [owner, balance, rate, unpaid]
  put,       \* id -> what the owner has paid in, less what the owner took out
  due,       \* id -> the exact fees of all repayments, times RateDenom
  sessions,  \* open undo sessions, outermost first, with the state to restore
  ops, created   \* counters

vars == <<bal, funds, put, due, sessions, ops, created>>

Empty == [i \in {} |-> 0]
Put(f, k, v) == [i \in DOMAIN f \cup {k} |-> IF i = k THEN v ELSE f[i]]
Without(f, k) == Restrict(f, DOMAIN f \ {k})
CeilDiv(a, b) == (a + b - 1) \div b
State == [bal |-> bal, funds |-> funds, put |-> put, due |-> due]

Init ==
  /\ bal = [a \in Accounts |-> Wealth]
  /\ funds = Empty /\ put = Empty /\ due = Empty
  /\ sessions = <<>>
  /\ ops = 0 /\ created = 0

----------------------------------------------------------------------------
\* Sessions

\* _apply_transaction or, at the end of a block, push_proposal begins.
Begin ==
  /\ sessions = <<>> /\ ops < MaxOps
  /\ sessions' = <<State>>
  /\ UNCHANGED <<bal, funds, put, due, ops, created>>

\* A proposal_update gives a proposal its last approval: push_proposal.
BeginNested ==
  /\ sessions # <<>> /\ Len(sessions) < MaxNesting /\ ops < MaxOps
  /\ sessions' = Append(sessions, State)
  /\ UNCHANGED <<bal, funds, put, due, ops, created>>

\* mutant: only the fund that was created first is looked at
AllPaidFirst == \A f \in DOMAIN funds : (\A g \in DOMAIN funds : f <= g) => funds[f].unpaid = 0

\* The first fund by unpaid amount, largest first, owes nothing.
AllPaid == \A f \in DOMAIN funds : funds[f].unpaid = 0

\* The transaction or the proposal ends and its session is merged.
End ==
  /\ sessions # <<>>
  /\ AllPaid
  /\ sessions' = Front(sessions)
  /\ UNCHANGED <<bal, funds, put, due, ops, created>>

\* An operation, or the check for unpaid debt, throws: the session is undone.
Fail ==
  /\ sessions # <<>>
  /\ bal' = Last(sessions).bal /\ funds' = Last(sessions).funds
  /\ put' = Last(sessions).put /\ due' = Last(sessions).due
  /\ sessions' = Front(sessions)
  /\ UNCHANGED <<ops, created>>

----------------------------------------------------------------------------
\* Operations

Operates == sessions # <<>> /\ ops < MaxOps /\ ops' = ops + 1 /\ UNCHANGED sessions

samet_fund_create(a, n, rate) ==
  /\ Operates /\ created < MaxFunds
  /\ bal[a] >= n
  /\ bal' = [bal EXCEPT ![a] = @ - n]
  /\ funds' = Put(funds, created + 1, [owner |-> a, balance |-> n, rate |-> rate, unpaid |-> 0])
  /\ put' = Put(put, created + 1, n) /\ due' = Put(due, created + 1, 0)
  /\ created' = created + 1

samet_fund_delete(f) ==
  /\ Operates
  /\ funds[f].unpaid = 0
  /\ bal' = [bal EXCEPT ![funds[f].owner] = @ + funds[f].balance]
  /\ funds' = Without(funds, f)
  /\ UNCHANGED <<put, due, created>>

\* samet_fund_update with a delta_amount
samet_fund_update(f, delta) ==
  /\ Operates
  /\ funds[f].unpaid = 0
  /\ delta > 0 => bal[funds[f].owner] >= delta
  /\ delta < 0 => funds[f].balance > -delta
  /\ bal' = [bal EXCEPT ![funds[f].owner] = @ - delta]
  /\ funds' = [funds EXCEPT ![f].balance = @ + delta]
  /\ put' = [put EXCEPT ![f] = @ + delta]
  /\ UNCHANGED <<due, created>>

\* samet_fund_update with a new_fee_rate; it is allowed while the fund is lent
samet_fund_update_rate(f, rate) ==
  /\ Operates
  /\ funds[f].rate # rate
  /\ funds' = [funds EXCEPT ![f].rate = rate]
  /\ UNCHANGED <<bal, put, due, created>>

samet_fund_borrow(f, a, n) ==
  /\ Operates
  /\ funds[f].balance >= funds[f].unpaid + n
  /\ funds' = [funds EXCEPT ![f].unpaid = @ + n]
  /\ bal' = [bal EXCEPT ![a] = @ + n]
  /\ UNCHANGED <<put, due, created>>

\* mutant: the fee is rounded down
RequiredFeeDown(f, n) == (n * funds[f].rate) \div RateDenom

RequiredFee(f, n) == CeilDiv(n * funds[f].rate, RateDenom)

\* The borrower, or anybody else, repays and pays no more than the fee required.
samet_fund_repay(f, a, n) ==
  LET fee == RequiredFee(f, n) IN
  /\ Operates
  /\ n <= funds[f].unpaid
  /\ bal[a] >= n + fee
  /\ bal' = [bal EXCEPT ![a] = @ - (n + fee)]
  /\ funds' = [funds EXCEPT ![f].balance = @ + fee, ![f].unpaid = @ - n]
  /\ due' = [due EXCEPT ![f] = @ + n * funds[f].rate]
  /\ UNCHANGED <<put, created>>

Next ==
  \/ Begin \/ BeginNested \/ End \/ Fail
  \/ \E a \in Accounts, n \in Amounts, r \in Rates : samet_fund_create(a, n, r)
  \/ \E f \in DOMAIN funds : samet_fund_delete(f)
  \/ \E f \in DOMAIN funds, d \in Amounts \cup {-n : n \in Amounts} : samet_fund_update(f, d)
  \/ \E f \in DOMAIN funds, r \in Rates : samet_fund_update_rate(f, r)
  \/ \E f \in DOMAIN funds, a \in Accounts, n \in Amounts : samet_fund_borrow(f, a, n)
  \/ \E f \in DOMAIN funds, a \in Accounts, n \in Amounts : samet_fund_repay(f, a, n)

Spec == Init /\ [][Next]_vars

----------------------------------------------------------------------------

FundOK(f) == f.unpaid \in 0..f.balance /\ f.balance > 0

TypeOK ==
  /\ bal \in [Accounts -> Nat]
  /\ \A f \in DOMAIN funds : FundOK(funds[f])
  /\ Len(sessions) <= MaxNesting

\* Between transactions no fund is owed anything, whatever failed or was nested.
NoUnpaidBetween == sessions = <<>> => \A f \in DOMAIN funds : funds[f].unpaid = 0

\* A fund never has less than its owner put in plus the exact fees of what was
\* repaid, so lending never costs the owner anything.
OwnerNeverLoses ==
  \A f \in DOMAIN funds : (funds[f].balance - put[f]) * RateDenom >= due[f]

\* What accounts hold and what lies in the funds adds up, at every moment of a
\* transaction and in every state that a session would restore.
Free(fs) == [f \in DOMAIN fs |-> fs[f].balance - fs[f].unpaid]
Total(s) == SumOver(s.bal, Accounts) + SumOver(Free(s.funds), DOMAIN s.funds)

Conserved ==
  \A s \in {State} \cup ToSet(sessions) : Total(s) = Wealth * Cardinality(Accounts)

\* Funds are repaid in the transaction that borrowed, with the whole fee.
FundsRepaid == NoUnpaidBetween /\ OwnerNeverLoses
============================================================================
