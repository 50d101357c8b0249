-------------------------------- MODULE Htlc --------------------------------
(***************************************************************************)
(* Hash time-locked contracts: an amount leaves the sender's balance when  *)
(* the contract is created and goes to the recipient against a preimage,   *)
(* or back to the sender in the first block at or after the expiration.    *)
(* The committee may change or withdraw the options that bound the         *)
(* time-outs while contracts are open.                                     *)
(***************************************************************************)
EXTENDS Integers, FiniteSets, FiniteSetsExt, Functions, Sums

CONSTANTS
  Accounts, Supply,   \* accounts and what each owns at the start
  Amounts,            \* amounts locked
  Preimages,          \* secrets; SizeOf gives the length of each
  SizeOf,
  Timeouts,           \* claim_period_seconds and seconds_to_add
  Options,            \* values of max_timeout_secs the committee sets; NoOptions when unset
  MaxPreimageSize,    \* max_preimage_size
  Restricted,         \* accounts the issuer bars from the asset at some time
  MaxContracts, MaxTime, MaxChanges  \* bounds: contracts, head block time, extensions and new options

NoOptions == 0

\* What the constants are assumed to be.
HtlcAssumption ==
  /\ {Supply, MaxContracts, MaxTime, MaxChanges, MaxPreimageSize} \subseteq Nat
  /\ Amounts \subseteq Nat \ {0} /\ Timeouts \subseteq Nat
  /\ SizeOf \in [Preimages -> Nat]
  /\ Options \subseteq Nat /\ IsFiniteSet(Options) /\ IsFiniteSet(Accounts)

VARIABLES
  balance,    \* account -> amount
  htlcs,      \* id -> [from, to, amount, preimage, size, expiration, agreed]
  next,       \* next id
  options,    \* max_timeout_secs, or NoOptions
  barred,     \* accounts the issuer has blacklisted
  now,        \* head block time
  changes     \* extensions and committee updates so far

vars == <<balance, htlcs, next, options, barred, now, changes>>

Live == DOMAIN htlcs

\* What each contract holds.
Held == [i \in Live |-> htlcs[i].amount]

Init ==
  /\ balance = [a \in Accounts |-> Supply]
  /\ htlcs = [i \in {} |-> 0]
  /\ next = 1
  /\ options \in Options \ {NoOptions}
  /\ barred = {}
  /\ now = 0
  /\ changes = 0

\* htlc_create: the hash is that of preimage p; the size declared need not be
\* its length, and 0 declares none.  agreed remembers the first expiration.
htlc_create(from, to, n, p, size, period) ==
  /\ next <= MaxContracts
  /\ options # NoOptions
  /\ period <= options
  /\ size <= MaxPreimageSize
  /\ balance[from] >= n
  /\ {from, to} \cap barred = {}
  /\ now + period <= MaxTime
  /\ balance' = [balance EXCEPT ![from] = @ - n]
  /\ htlcs' = [i \in Live \cup {next} |->
                 IF i # next THEN htlcs[i]
                 ELSE [from |-> from, to |-> to, amount |-> n, preimage |-> p, size |-> size,
                       expiration |-> now + period, agreed |-> now + period]]
  /\ next' = next + 1
  /\ UNCHANGED <<options, barred, now, changes>>

\* What the hash lock accepts.
Opens(h, p) == (h.size > 0 => SizeOf[p] = h.size) /\ p = h.preimage

\* htlc_redeem, by anybody: no check of the time, nor of the black list
htlc_redeem(i, p) ==
  /\ Opens(htlcs[i], p)
  /\ balance' = [balance EXCEPT ![htlcs[i].to] = @ + htlcs[i].amount]
  /\ htlcs' = Restrict(htlcs, Live \ {i})
  /\ UNCHANGED <<next, options, barred, now, changes>>

\* The bound on an extension; unset options are read all the same, which may
\* yield anything.
ReadMaxTimeout == IF options = NoOptions THEN 0..MaxTime ELSE {options}

\* mutant: the bound is on the extension alone, not on the distance to now
htlc_extend_relative(i, period) ==
  /\ changes < MaxChanges
  /\ htlcs[i].expiration + period <= MaxTime
  /\ \E max \in ReadMaxTimeout : period <= max
  /\ htlcs' = [htlcs EXCEPT ![i].expiration = @ + period]
  /\ changes' = changes + 1
  /\ UNCHANGED <<balance, next, options, barred, now>>

\* htlc_extend by the sender
htlc_extend(i, period) ==
  /\ changes < MaxChanges
  /\ htlcs[i].expiration + period <= MaxTime
  /\ \E max \in ReadMaxTimeout : htlcs[i].expiration + period <= now + max
  /\ htlcs' = [htlcs EXCEPT ![i].expiration = @ + period]
  /\ changes' = changes + 1
  /\ UNCHANGED <<balance, next, options, barred, now>>

\* mutant: the contracts of the next block's time are taken too
ExpiredEarly(t) == {i \in Live : htlcs[i].expiration <= t + 1}

\* The contracts whose time-lock has run out at a block of time t.
Expired(t) == {i \in Live : htlcs[i].expiration <= t}

\* mutant: of several contracts that expire in one block only one is refunded
NewBlockOneRefund ==
  LET gone == Expired(now + 1)
  IN /\ now < MaxTime
     /\ now' = now + 1
     /\ balance' = IF gone = {} THEN balance
                   ELSE LET i == Min(gone)
                        IN [balance EXCEPT ![htlcs[i].from] = @ + htlcs[i].amount]
     /\ htlcs' = Restrict(htlcs, Live \ gone)
     /\ UNCHANGED <<next, options, barred, changes>>

\* A block: clear_expired_htlcs refunds every sender.
NewBlock ==
  LET gone == Expired(now + 1)
  IN /\ now < MaxTime
     /\ now' = now + 1
     /\ balance' = [a \in Accounts |-> balance[a] + SumOver(Held, {i \in gone : htlcs[i].from = a})]
     /\ htlcs' = Restrict(htlcs, Live \ gone)
     /\ UNCHANGED <<next, options, barred, changes>>

\* committee_member_update_global_parameters, taking effect at maintenance
UpdateOptions(o) ==
  /\ changes < MaxChanges
  /\ options' = o
  /\ changes' = changes + 1
  /\ UNCHANGED <<balance, htlcs, next, barred, now>>

Bar(a) ==
  /\ a \notin barred
  /\ barred' = barred \cup {a}
  /\ UNCHANGED <<balance, htlcs, next, options, now, changes>>

Next ==
  \/ \E f, t \in Accounts, n \in Amounts, p \in Preimages, s \in 0..MaxPreimageSize,
        d \in Timeouts : htlc_create(f, t, n, p, s, d)
  \/ \E i \in Live, p \in Preimages : htlc_redeem(i, p)
  \/ \E i \in Live, d \in Timeouts : htlc_extend(i, d)
  \/ \E o \in Options : UpdateOptions(o)
  \/ \E a \in Restricted : Bar(a)
  \/ NewBlock

Spec == Init /\ [][Next]_vars

------------------------------------------------------------------------------

TypeOK ==
  /\ balance \in [Accounts -> Nat]
  /\ now \in 0..MaxTime
  /\ \A i \in Live : i < next /\ htlcs[i].amount \in Amounts

\* What contracts hold and what accounts own add up to the supply, whichever of
\* redemption and refund came first for each of them.
Conserved ==
  SumOver(balance, Accounts) + SumOver(Held, Live) = Supply * Cardinality(Accounts)

\* If contract i ends and the recipient is not paid, it is not before its time.
RefundInTime(i) ==
  i \notin DOMAIN htlcs' /\ balance' # [balance EXCEPT ![htlcs[i].to] = @ + htlcs[i].amount]
    => now' >= htlcs[i].agreed

\* A sender never gets the amount back before the expiration the recipient
\* agreed to: extensions only prolong, and clear_expired_htlcs takes no contract
\* early.
NoEarlyRefund == [][\A i \in Live : RefundInTime(i)]_vars

\* No contract locks its amount further ahead than a time-out that the committee
\* allowed at some time (htlc_extend_evaluator::do_evaluate).
LocksBounded == \A i \in Live : htlcs[i].expiration <= now + Max(Options)

\* The time-locks hold for both sides.
TimeLocksHold == []LocksBounded /\ NoEarlyRefund
==============================================================================
