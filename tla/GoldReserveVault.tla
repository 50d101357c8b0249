-------------------------- MODULE GoldReserveVault --------------------------
(***************************************************************************)
(* libraries/chain: the GOLD reserve vault and the block steps that use it.*)
(* From the hardfork on the chain itself borrows GOLD against the DFS that *)
(* was never issued (core.reserved()), at twice its value, and pays        *)
(* witnesses and workers out of that pool, a small part of it per day.     *)
(*                                                                         *)
(* A block is applied in the phases of _apply_block that touch the vault:  *)
(* its transactions, update_global_dynamic_data (the GOLD feed, then the   *)
(* vault), update_signing_witness, and at maintenance process_budget with  *)
(* one step per worker.                                                    *)
(*                                                                         *)
(* Abstractions: balances of all accounts are one number per asset (held,  *)
(* coreHeld); workers do not change; when maintenance is due is left open; *)
(* issuance_paused and emergency_mode, always set together, are the one    *)
(* field paused; the time, price and epoch of the last rebalance, which    *)
(* nothing reads, are left out.  GoldPrice gives the feed that             *)
(* calculate_gold_settlement_price computes for each epoch: it never falls,*)
(* since gold_feed_growth_factor_scaled never does.                        *)
(***************************************************************************)
EXTENDS Integers, Sequences

CONSTANTS
  CoreMax,        \* max_supply of the core asset, DFS
  GoldMax,        \* max_supply of GOLD
  MaxShareSupply, \* GRAPHENE_MAX_SHARE_SUPPLY
  InitialReserve, \* DFS not issued when the model starts
  GoldPrice,      \* GOLD per DFS in every epoch: [base, quote]
  RefreshBlocks,  \* DEFISHARES_GOLD_FEED_UPDATE_BLOCKS
  DayLength,      \* seconds per day
  ReserveTime,    \* HARDFORK_DEFISHARES_GOLD_RESERVE_REWARD_TIME
  BorrowTime,     \* HARDFORK_DEFISHARES_GOLD_USER_BORROW_TIME
  Divisor,        \* daily_spending_divisor
  WitnessGold,    \* GOLD paid for a block
  WitnessCore,    \* witness_pay_per_block
  BudgetCore,     \* witness budget requested until the next maintenance
  WorkerCore,     \* worker budget until the next maintenance
  Workers,        \* active workers, the one with most votes first
  Amounts,        \* amounts of transactions
  MaxBlock,       \* bound: blocks
  MaxTime         \* bound: time

\* GRAPHENE_100_PERCENT
HundredPercent == 10000

Prices == [base : Nat \ {0}, quote : Nat \ {0}]
WorkerRecords ==
  [kind : {"threshold", "refund", "paid", "legacy"}, pay : Nat, ratio : 0..HundredPercent]

ASSUME SupplyAssumption ==
  /\ CoreMax \in Nat /\ GoldMax \in Nat /\ MaxShareSupply \in Nat
  /\ InitialReserve \in 0..CoreMax
ASSUME RateAssumption ==
  /\ RefreshBlocks \in Nat \ {0} /\ DayLength \in Nat \ {0} /\ Divisor \in Nat \ {0}
  /\ ReserveTime \in Nat /\ BorrowTime \in Nat
  /\ WitnessGold \in Nat /\ WitnessCore \in Nat /\ BudgetCore \in Nat /\ WorkerCore \in Nat
ASSUME WorkerAssumption == Workers \in Seq(WorkerRecords)
ASSUME BoundAssumption == Amounts \subseteq Nat /\ MaxBlock \in Nat /\ MaxTime \in Nat
ASSUME PriceAssumption == GoldPrice \in [0..MaxBlock -> Prices]
ASSUME GrowthAssumption ==
  \A e \in 0..MaxBlock : \A f \in e..MaxBlock :
    GoldPrice[e].base * GoldPrice[f].quote <= GoldPrice[f].base * GoldPrice[e].quote

VARIABLES
  phase,          \* the next step of the block
  block,          \* head_block_num
  time,           \* head_block_time
  created,        \* GOLD's creation_block_num, or NoGold
  feed,           \* epoch of GOLD's current_feed
  reserve,        \* core.reserved()
  fees,           \* accumulated_fees of the core asset
  witnessBudget,  \* dynamic_global_property_object::witness_budget
  lastBudget,     \* last_budget_time
  coreHeld,       \* DFS in balances
  supply,         \* GOLD's current_supply
  userDebt,       \* debt of GOLD's call orders
  held,           \* GOLD in balances
  vault,          \* the gold_reserve_vault_object
  queue,          \* workers that pay_workers_from_gold_reserve has still to visit
  budget          \* its worker_budget_remaining

coreVars == <<reserve, fees, witnessBudget, lastBudget, coreHeld>>
goldVars == <<created, feed, supply, userDebt, held>>
vars == <<phase, block, time, coreVars, goldVars, vault, queue, budget>>

NoGold == -1
Min2(a, b) == IF a <= b THEN a ELSE b

NoVault ==
  [enabled |-> FALSE, paused |-> FALSE, locked |-> 0, debt |-> 0, pool |-> 0,
   committed |-> 0, spent |-> 0, limit |-> 0, day |-> 0]

budget_day(t) == t \div DayLength

-----------------------------------------------------------------------------
(* The functions of gold_reserve_vault.cpp, on a vault record.             *)

\* calculate_gold_debt_for_cr that rounds to the next unit.
DebtRoundedUp(collateral, price) ==
  Min2(((collateral * price.base * 1000) \div price.quote) \div 2000 + 1, MaxShareSupply)

\* calculate_gold_debt_for_cr at a collateral ratio of 2000 / 1000.
DebtForCR(collateral, price) ==
  Min2(((collateral * price.base * 1000) \div price.quote) \div 2000, MaxShareSupply)

\* rebalance_gold_reserve_vault: what it issues, and what it makes of the vault.
Issue(v, sup, res, price) == Min2(DebtForCR(res, price) - v.debt, GoldMax - sup)

\* A rebalance that does not credit the pool.
RebalancedDebtOnly(v, sup, res, price) ==
  IF v.paused THEN v
  ELSE IF DebtForCR(res, price) < v.debt
       THEN [v EXCEPT !.locked = res, !.paused = TRUE]
       ELSE [v EXCEPT !.locked = res, !.debt = @ + Issue(v, sup, res, price)]

\* A rebalance that fixes the limit of the day anew.
RebalancedNewLimit(v, sup, res, price) ==
  IF v.paused THEN v
  ELSE IF DebtForCR(res, price) < v.debt
       THEN [v EXCEPT !.locked = res, !.paused = TRUE]
       ELSE [v EXCEPT !.locked = res,
                      !.debt = @ + Issue(v, sup, res, price),
                      !.pool = @ + Issue(v, sup, res, price),
                      !.limit = (v.pool + Issue(v, sup, res, price)) \div Divisor]

Rebalanced(v, sup, res, price) ==
  IF v.paused THEN v
  ELSE IF DebtForCR(res, price) < v.debt
       THEN [v EXCEPT !.locked = res, !.paused = TRUE]
       ELSE [v EXCEPT !.locked = res,
                      !.debt = @ + Issue(v, sup, res, price),
                      !.pool = @ + Issue(v, sup, res, price)]

\* initialize_gold_reserve_vault, before its rebalance.
NewVault(res, t) ==
  [NoVault EXCEPT !.enabled = TRUE, !.locked = res,
                  !.day = IF budget_day(t) = 0 THEN 0 ELSE budget_day(t) - 1]

\* The daily limit and what was spent of it, by the time t.
NewDay(v, t) == v.day # budget_day(t)
DailyLimit(v, t) == IF NewDay(v, t) THEN v.pool \div Divisor ELSE v.limit
SpentToday(v, t) == IF NewDay(v, t) THEN 0 ELSE v.spent

\* available_gold_reserve_spending
Available(v, t) ==
  IF ~v.enabled \/ v.paused \/ SpentToday(v, t) >= DailyLimit(v, t) THEN 0
  ELSE Min2(v.pool, DailyLimit(v, t) - SpentToday(v, t))

\* spend_gold_reserve that looks at the day's limit only.
CanSpendLimitOnly(v, t, amount) ==
  /\ v.enabled /\ ~v.paused
  /\ amount <= v.pool /\ amount <= DailyLimit(v, t)

\* spend_gold_reserve of a positive amount: whether it succeeds, and how.
CanSpend(v, t, amount) ==
  /\ v.enabled /\ ~v.paused
  /\ amount <= v.pool /\ amount <= DailyLimit(v, t) - SpentToday(v, t)

Spent(v, t, amount) ==
  [v EXCEPT !.day = budget_day(t),
            !.limit = DailyLimit(v, t),
            !.spent = SpentToday(v, t) + amount,
            !.pool = @ - amount,
            !.committed = @ + amount]

ReservePassed(t) == t >= ReserveTime
BorrowPassed(t) == t >= BorrowTime

-----------------------------------------------------------------------------
(* Transactions.                                                           *)

\* asset_create of the bitasset GOLD, which gets its feed at once.
CreateGold ==
  /\ phase = "transactions"
  /\ created = NoGold
  /\ block < MaxBlock
  /\ created' = block + 1
  /\ feed' = 0
  /\ UNCHANGED <<phase, block, time, coreVars, supply, userDebt, held, vault, queue, budget>>

\* call_order_update of GOLD with more debt: not between the two hardforks.
BorrowGold(n) ==
  /\ phase = "transactions"
  /\ created # NoGold
  /\ ReservePassed(time) => BorrowPassed(time)
  /\ supply + n <= GoldMax
  /\ supply' = supply + n
  /\ userDebt' = userDebt + n
  /\ held' = held + n
  /\ UNCHANGED <<phase, block, time, coreVars, created, feed, vault, queue, budget>>

\* call_order_update that repays.
RepayGold(n) ==
  /\ phase = "transactions"
  /\ n <= userDebt /\ n <= held
  /\ supply' = supply - n
  /\ userDebt' = userDebt - n
  /\ held' = held - n
  /\ UNCHANGED <<phase, block, time, coreVars, created, feed, vault, queue, budget>>

\* asset_reserve of DFS.
ReserveCore(n) ==
  /\ phase = "transactions"
  /\ n <= coreHeld
  /\ reserve' = reserve + n
  /\ coreHeld' = coreHeld - n
  /\ UNCHANGED <<phase, block, time, fees, witnessBudget, lastBudget, goldVars, vault, queue, budget>>

\* DFS becomes an accumulated fee: at once (canceled and deferred fees), or when
\* maintenance splits the pending fees of an account, before the budget.
PayFee(n) ==
  /\ phase \in {"transactions", "maintenance"}
  /\ n <= coreHeld
  /\ fees' = fees + n
  /\ coreHeld' = coreHeld - n
  /\ UNCHANGED <<phase, block, time, reserve, witnessBudget, lastBudget, goldVars, vault, queue, budget>>

-----------------------------------------------------------------------------
(* The steps of a block after its transactions.                            *)

\* refresh_scheduled_feeds: whether block b updates the GOLD feed.
RefreshDue(b) ==
  created # NoGold /\ b > created /\ (b - created) % RefreshBlocks = 0

\* gold_feed_elapsed_blocks, in epochs.
Epoch(b) == IF b <= created THEN 0 ELSE (b - created) \div RefreshBlocks

\* update_global_dynamic_data: head block, GOLD feed, vault.  Initializing the
\* vault rebalances it, a refreshed feed does (again).
UpdateGlobalDynamicData(dt) ==
  LET now == time + dt
      head == block + 1
      exists == ReservePassed(now) /\ created # NoGold
      v == IF vault.enabled THEN vault ELSE NewVault(reserve, now)
  IN
  /\ phase = "transactions"
  /\ block < MaxBlock /\ now <= MaxTime
  /\ phase' = "witness"
  /\ block' = head
  /\ time' = now
  /\ feed' = IF RefreshDue(head) THEN Epoch(head) ELSE feed
  /\ vault' = IF exists /\ (~vault.enabled \/ RefreshDue(head))
              THEN Rebalanced(v, supply, reserve, GoldPrice[feed'])
              ELSE vault
  /\ supply' = supply + (vault'.debt - vault.debt)
  /\ UNCHANGED <<coreVars, created, userDebt, held, queue, budget>>

\* A witness still paid out of a DFS budget that is taken from the reserve.
UpdateSigningWitnessFromReserve(maint) ==
  /\ phase = "witness"
  /\ reserve >= WitnessCore
  /\ phase' = IF maint THEN "maintenance" ELSE "transactions"
  /\ reserve' = reserve - WitnessCore
  /\ coreHeld' = coreHeld + WitnessCore
  /\ UNCHANGED <<block, time, fees, witnessBudget, lastBudget, goldVars, vault, queue, budget>>

\* update_signing_witness: GOLD after the hardfork, DFS before it.
UpdateSigningWitness(maint) ==
  /\ phase = "witness"
  /\ phase' = IF maint THEN "maintenance" ELSE "transactions"
  /\ \/ /\ ReservePassed(time)
        /\ IF created # NoGold /\ WitnessGold > 0 /\ CanSpend(vault, time, WitnessGold)
           THEN vault' = Spent(vault, time, WitnessGold) /\ held' = held + WitnessGold
           ELSE UNCHANGED <<vault, held>>
        /\ UNCHANGED <<witnessBudget, coreHeld>>
     \/ /\ ~ReservePassed(time)
        /\ witnessBudget' = witnessBudget - Min2(WitnessCore, witnessBudget)
        /\ coreHeld' = coreHeld + Min2(WitnessCore, witnessBudget)
        /\ UNCHANGED <<vault, held>>
  /\ UNCHANGED <<block, time, reserve, fees, lastBudget, created, feed, supply, userDebt, queue, budget>>

\* process_budget before the hardfork.  total is what the reserve gives for the
\* time since the last budget; workers get paid, refund workers return theirs.
LegacyBudget(total, paid, refunded) ==
  LET new == Min2(BudgetCore, total)
      worker == Min2(WorkerCore, total - new)
  IN
  /\ phase = "maintenance"
  /\ ~ReservePassed(time)
  /\ total \in 0 .. reserve + fees + witnessBudget
  /\ (lastBudget = 0 \/ time <= lastBudget) => total = 0
  /\ paid + refunded <= worker
  /\ reserve' = reserve - (new + paid + refunded - fees - witnessBudget) + refunded
  /\ coreHeld' = coreHeld + paid
  /\ fees' = 0
  /\ witnessBudget' = new
  /\ lastBudget' = time
  /\ phase' = "transactions"
  /\ UNCHANGED <<block, time, goldVars, vault, queue, budget>>

\* process_budget after the hardfork, up to pay_workers_from_gold_reserve.
StartWorkers ==
  /\ phase = "maintenance"
  /\ ReservePassed(time)
  /\ phase' = "workers"
  /\ queue' = IF created # NoGold THEN Workers ELSE << >>
  /\ budget' = Available(vault, time)
  /\ UNCHANGED <<block, time, coreVars, goldVars, vault>>

\* What a worker asks for since the last budget.
Requested(w) == (w.pay * (time - lastBudget)) \div DayLength

\* A refund worker with a ratio takes its part out of the budget unpaid.
RefundWorker ==
  LET left == budget - (budget * queue[1].ratio) \div HundredPercent
  IN
  /\ phase = "workers"
  /\ queue # << >>
  /\ queue[1].kind = "threshold"
  /\ budget' = left
  /\ queue' = IF left <= 0 THEN << >> ELSE Tail(queue)
  /\ UNCHANGED <<phase, block, time, coreVars, goldVars, vault>>

\* Workers without GOLD pay, or that ask for nothing or too much, are skipped.
SkipWorker ==
  /\ phase = "workers"
  /\ queue # << >>
  /\ queue[1].kind # "threshold"
  /\ queue[1].kind = "legacy" \/ Requested(queue[1]) = 0 \/ Requested(queue[1]) > MaxShareSupply
  /\ queue' = Tail(queue)
  /\ UNCHANGED <<phase, block, time, coreVars, goldVars, vault, budget>>

\* A worker whose payment is not taken off the budget.
PayWorkerKeepsBudget ==
  LET reward == Min2(Requested(queue[1]), Min2(budget, Available(vault, time)))
  IN
  /\ phase = "workers"
  /\ queue # << >>
  /\ queue[1].kind \in {"paid", "refund"}
  /\ Requested(queue[1]) \in 1..MaxShareSupply
  /\ IF reward <= 0
     THEN queue' = << >> /\ UNCHANGED <<vault, held, budget>>
     ELSE /\ queue' = Tail(queue)
          /\ IF queue[1].kind = "paid"
             THEN /\ vault' = Spent(vault, time, reward)
                  /\ held' = held + reward
                  /\ UNCHANGED budget
             ELSE UNCHANGED <<vault, held, budget>>
  /\ UNCHANGED <<phase, block, time, coreVars, created, feed, supply, userDebt>>

\* Vesting and burn workers are paid what they ask for or what is left; refund
\* workers from before the threshold hardfork get nothing.
PayWorker ==
  LET reward == Min2(Requested(queue[1]), Min2(budget, Available(vault, time)))
  IN
  /\ phase = "workers"
  /\ queue # << >>
  /\ queue[1].kind \in {"paid", "refund"}
  /\ Requested(queue[1]) \in 1..MaxShareSupply
  /\ IF reward <= 0
     THEN queue' = << >> /\ UNCHANGED <<vault, held, budget>>
     ELSE /\ queue' = Tail(queue)
          /\ IF queue[1].kind = "paid" /\ CanSpend(vault, time, reward)
             THEN /\ vault' = Spent(vault, time, reward)
                  /\ held' = held + reward
                  /\ budget' = budget - reward
             ELSE UNCHANGED <<vault, held, budget>>
  /\ UNCHANGED <<phase, block, time, coreVars, created, feed, supply, userDebt>>

\* The end of process_budget that returns the fees it does not reset.
FinishBudgetKeepsFees ==
  /\ phase = "workers"
  /\ queue = << >>
  /\ reserve' = reserve + fees + witnessBudget
  /\ witnessBudget' = 0
  /\ lastBudget' = time
  /\ budget' = 0
  /\ phase' = "transactions"
  /\ UNCHANGED <<block, time, fees, coreHeld, goldVars, vault, queue>>

\* The end of process_budget: fees and unused budget go back to the reserve.
FinishBudget ==
  /\ phase = "workers"
  /\ queue = << >>
  /\ reserve' = reserve + fees + witnessBudget
  /\ fees' = 0
  /\ witnessBudget' = 0
  /\ lastBudget' = time
  /\ budget' = 0
  /\ phase' = "transactions"
  /\ UNCHANGED <<block, time, coreHeld, goldVars, vault, queue>>

-----------------------------------------------------------------------------
Init ==
  /\ phase = "transactions"
  /\ block = 0 /\ time = 0
  /\ created = NoGold /\ feed = 0
  /\ reserve = InitialReserve /\ coreHeld = CoreMax - InitialReserve
  /\ fees = 0 /\ witnessBudget = 0 /\ lastBudget = 0
  /\ supply = 0 /\ userDebt = 0 /\ held = 0
  /\ vault = NoVault
  /\ queue = << >> /\ budget = 0

Next ==
  \/ CreateGold
  \/ \E n \in Amounts : BorrowGold(n) \/ RepayGold(n) \/ ReserveCore(n) \/ PayFee(n)
  \/ \E dt \in {1, 2} : UpdateGlobalDynamicData(dt)
  \/ \E maint \in BOOLEAN : UpdateSigningWitness(maint)
  \/ \E total \in 0..CoreMax : \E paid, refunded \in 0..WorkerCore :
        LegacyBudget(total, paid, refunded)
  \/ StartWorkers \/ RefundWorker \/ SkipWorker \/ PayWorker \/ FinishBudget

Spec == Init /\ [][Next]_vars

-----------------------------------------------------------------------------
Phases == {"transactions", "witness", "maintenance", "workers"}

Vaults ==
  [enabled : BOOLEAN, paused : BOOLEAN, locked : Nat, debt : Nat, pool : Nat,
   committed : Nat, spent : Nat, limit : Nat, day : Nat]

\* Types of all variables; no amount is ever negative.
TypeOK ==
  /\ phase \in Phases
  /\ block \in 0..MaxBlock /\ time \in Nat /\ lastBudget \in Nat
  /\ created \in {NoGold} \cup (1..MaxBlock) /\ feed \in 0..MaxBlock
  /\ reserve \in Nat /\ fees \in Nat /\ witnessBudget \in Nat /\ coreHeld \in Nat
  /\ supply \in Nat /\ userDebt \in Nat /\ held \in Nat
  /\ vault \in Vaults
  /\ queue \in Seq(WorkerRecords) /\ budget \in Nat

\* Every GOLD in existence is owed by a call order or by the vault, and is in a
\* balance or in the vault's pool; what the vault owes is in its pool or was
\* paid out (the totals that debug_dump adds up).
GoldConserved ==
  /\ supply = userDebt + vault.debt
  /\ supply = vault.pool + held
  /\ vault.debt = vault.pool + vault.committed

\* Every DFS is in the reserve, in fees, in the witness budget or in a balance,
\* also across the hardfork that stops the DFS budget.
CoreConserved ==
  reserve + fees + witnessBudget + coreHeld = CoreMax

\* At every moment, and not only when it is rebalanced, the DFS reserve covers
\* the vault's debt twice at the current feed.
AlwaysCollateralized ==
  vault.enabled =>
    2 * vault.debt * GoldPrice[feed].quote <= reserve * GoldPrice[feed].base

\* The emergency, from which no code leads back, never comes.
NeverEmergency == ~vault.paused

\* The feed that collateral is judged by is the one of the current epoch.
FeedIsCurrent ==
  created # NoGold => feed = Epoch(block)

\* available_gold_reserve_spending is exactly the most that spend_gold_reserve
\* accepts, whatever was spent and rebalanced on this day.
AvailableIsExact ==
  \A n \in 1 .. GoldMax : CanSpend(vault, time, n) <=> n <= Available(vault, time)

\* A worker in line never finds less in the vault than the budget promises it.
BudgetIsAvailable ==
  phase = "workers" => budget <= Available(vault, time)

\* No operation, block, budget or rebalance creates or destroys GOLD or DFS.
Conserved == GoldConserved /\ CoreConserved

\* What available_gold_reserve_spending reports, what spend_gold_reserve
\* accepts and what process_budget promises to workers agree at all times.
SpendingExact == AvailableIsExact /\ BudgetIsAvailable

\* Within a day the limit stays what it was at the first payment of the day and
\* is never overspent: a rebalance that fills the pool does not raise it.
DailyLimitHolds ==
  [][vault.enabled => /\ vault'.spent <= vault'.limit
                      /\ vault'.day = vault.day => vault'.limit = vault.limit]_vars
=============================================================================
