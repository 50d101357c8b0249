------------------------------- MODULE Ticket --------------------------------
(***************************************************************************)
(* Tickets: core tokens locked for voting power.  A ticket charges towards *)
(* its target type in steps and loses types in longer steps; one that      *)
(* reaches lock_forever loses its value in four steps and never ends.      *)
(* Statistics of each account and of the chain are kept by differences.    *)
(***************************************************************************)
EXTENDS Integers, FiniteSets, FiniteSetsExt, Functions, Sums

CONSTANTS
  Accounts, Supply,       \* accounts and the core tokens of each
  Amounts,                \* amounts of new and of split tickets
  Steps,                  \* seconds between two blocks
  ChargingStep,           \* seconds_per_charging_step
  CancelTime,             \* seconds_to_cancel_charging
  DowngradeTime,          \* seconds_to_downgrade, by the type reached
  ForeverStep,            \* seconds_per_lock_forever_update_step
  MaxTickets, MaxTime, MaxUpdates  \* bounds: tickets, head block time, updates

liquid == 0
lock_forever == 4
Types == liquid .. lock_forever

\* What the constants are assumed to be.
TicketAssumption ==
  /\ IsFiniteSet(Accounts)
  /\ {Supply, MaxTickets, MaxTime, MaxUpdates} \subseteq Nat
  /\ Amounts \cup Steps \cup {ChargingStep, CancelTime, ForeverStep} \subseteq Nat \ {0}
  /\ DowngradeTime \in [0..2 -> Nat \ {0}]
  /\ CancelTime < ChargingStep

VARIABLES
  balance,     \* account -> core tokens
  tickets,     \* id -> ticket_object
  next,        \* next id
  stats,       \* account -> account_statistics_object
  totals,      \* total_pob and total_inactive of the chain
  now,         \* head block time
  cause,       \* what runs process_tickets: "none", "block", or "update"
  concerned,   \* tickets that the running update is about
  updates      \* updates so far

vars == <<balance, tickets, next, stats, totals, now, cause, concerned, updates>>

Live == DOMAIN tickets

\* time_point_sec::maximum(): later than any time that a ticket is given.
Never == MaxTime + ChargingStep + CancelTime + ForeverStep
         + DowngradeTime[0] + DowngradeTime[1] + DowngradeTime[2]

NoStats == [inactive |-> 0, pob |-> 0, pol |-> 0, pobValue |-> 0, polValue |-> 0]

Init ==
  /\ balance = [a \in Accounts |-> Supply]
  /\ tickets = [i \in {} |-> 0]
  /\ next = 1
  /\ stats = [a \in Accounts |-> NoStats]
  /\ totals = [pob |-> 0, inactive |-> 0]
  /\ now = 0
  /\ cause = "none"
  /\ concerned = {}
  /\ updates = 0

\* value_multiplier (version 2)
Multiplier == [t \in Types |-> CASE t = 0 -> 0 [] t = 1 -> 2 [] t = 2 -> 4 [] OTHER -> 8]

\* mutant: the value is always computed from the type
WithValueAlways(t) == [t EXCEPT !.value = t.amount * Multiplier[t.type]]

\* update_value: that of a ticket locked forever is left to auto_update.
WithValue(t) ==
  IF t.type = lock_forever THEN t ELSE [t EXCEPT !.value = t.amount * Multiplier[t.type]]

\* The time that a ticket of some type stays locked when it is given up.
LockTime(type) == LET down(k) == IF type > k THEN DowngradeTime[k] ELSE 0
                  IN down(0) + down(1) + down(2)

\* init_new.  floor remembers, for the properties, until when the types that the
\* ticket has had keep it locked.
NewTicket(a, target, n) ==
  WithValue([account |-> a, target |-> target, amount |-> n, type |-> liquid, status |-> "charging",
             value |-> 0, nextUpdate |-> now + ChargingStep, downgrade |-> Never, floor |-> now])

\* Starts a downgrade, or goes on with the one that was started before.
Downgraded(t, target) ==
  CASE t.downgrade # Never -> t
    [] t.downgrade = Never /\ t.type = target -> [t EXCEPT !.downgrade = now + CancelTime]
    [] t.downgrade = Never /\ t.type # target ->
         [t EXCEPT !.type = @ - 1, !.downgrade = now + DowngradeTime[t.type - 1]]

\* update_target_type
Retargeted(t, target) ==
  LET held == [t EXCEPT !.floor = Max({@, now + LockTime(t.type)})]
      u == IF t.type < target
           THEN IF t.status = "charging" THEN held
                ELSE [held EXCEPT !.status = "charging", !.nextUpdate = now + ChargingStep]
           ELSE LET d == Downgraded(held, target)
                IN [d EXCEPT !.status = "withdrawing", !.nextUpdate = d.downgrade]
  IN WithValue([u EXCEPT !.target = target])

\* mutant: a ticket that has charged keeps the time of an earlier downgrade
ChargedKeepDowngrade(t) ==
  LET u == [t EXCEPT !.type = @ + 1]
  IN CASE u.type < u.target -> [u EXCEPT !.nextUpdate = @ + ChargingStep]
       [] u.type >= u.target /\ u.type # lock_forever ->
            [u EXCEPT !.status = "stable", !.nextUpdate = Never]
       [] OTHER -> [u EXCEPT !.status = "withdrawing", !.nextUpdate = @ + ForeverStep,
                             !.value = u.amount * Multiplier[u.type]]

\* auto_update of a charging ticket
Charged(t) ==
  LET u == [t EXCEPT !.type = @ + 1, !.downgrade = Never]
  IN CASE u.type < u.target -> [u EXCEPT !.nextUpdate = @ + ChargingStep]
       [] u.type >= u.target /\ u.type # lock_forever ->
            [u EXCEPT !.status = "stable", !.nextUpdate = Never]
       [] OTHER -> [u EXCEPT !.status = "withdrawing", !.nextUpdate = @ + ForeverStep,
                             !.value = u.amount * Multiplier[u.type]]

\* auto_update of a ticket that is locked forever
Decayed(t) ==
  LET delta == Max({1, (t.amount * Multiplier[t.type]) \div 4})
  IN IF t.value <= delta
     THEN [t EXCEPT !.value = 0, !.status = "stable", !.nextUpdate = Never]
     ELSE [t EXCEPT !.value = @ - delta, !.nextUpdate = @ + ForeverStep]

\* mutant: a finished downgrade leaves the time of the next update
WithdrawnStuck(t) ==
  IF t.type = t.target
  THEN [t EXCEPT !.downgrade = Never]
  ELSE LET d == t.downgrade + DowngradeTime[t.type - 1]
       IN [t EXCEPT !.type = @ - 1, !.downgrade = d, !.nextUpdate = d]

\* auto_update of a ticket that loses its types
Withdrawn(t) ==
  IF t.type = t.target
  THEN [t EXCEPT !.status = "stable", !.downgrade = Never, !.nextUpdate = Never]
  ELSE LET d == t.downgrade + DowngradeTime[t.type - 1]
       IN [t EXCEPT !.type = @ - 1, !.downgrade = d, !.nextUpdate = d]

\* auto_update
AutoUpdated(t) ==
  WithValue(CASE t.status = "charging" -> Charged(t)
              [] t.status # "charging" /\ t.type = lock_forever -> Decayed(t)
              [] OTHER -> Withdrawn(t))

\* mutant: the value of a split ticket is not added up
UpdateStatsOne(s, old, new, split) == [s EXCEPT !.polValue = @ + (new.value - old.value)]

\* What an update does to the statistics; split is the value of the new ticket.
UpdateStats(s, old, new, split) == [s EXCEPT !.polValue = @ + (split + new.value - old.value)]

\* What auto_update does to the statistics of the owner.
AutoStats(s, old, new) ==
  LET gone == old.type = lock_forever /\ new.value = 0
      enters == old.type # lock_forever /\ new.type = lock_forever
  IN IF old.type = lock_forever \/ enters
     THEN [inactive |-> s.inactive + (IF gone THEN new.amount ELSE 0),
           pob |-> s.pob + (IF gone THEN -new.amount ELSE IF enters THEN new.amount ELSE 0),
           pol |-> s.pol - (IF enters THEN new.amount ELSE 0),
           pobValue |-> s.pobValue + (IF enters THEN new.value ELSE new.value - old.value),
           polValue |-> s.polValue - (IF enters THEN old.value ELSE 0)]
     ELSE [s EXCEPT !.polValue = @ + (new.value - old.value)]

\* What is locked, or released if negative, in the statistics of the owner.
WithLocked(s, n, v) == [s EXCEPT !.pol = @ + n, !.polValue = @ + v]

\* ticket_create
ticket_create(a, target, n) ==
  LET t == NewTicket(a, target, n)
  IN /\ cause = "none"
     /\ next <= MaxTickets
     /\ target # liquid
     /\ balance[a] >= n
     /\ balance' = [balance EXCEPT ![a] = @ - n]
     /\ tickets' = [i \in Live \cup {next} |-> IF i = next THEN t ELSE tickets[i]]
     /\ next' = next + 1
     /\ stats' = [stats EXCEPT ![a] = WithLocked(@, n, t.value)]
     /\ UNCHANGED <<totals, now, cause, concerned, updates>>

\* ticket_update of the whole ticket, or of n of it in a ticket of its own; it
\* ends with process_tickets.
ticket_update(i, target, n) ==
  LET t == tickets[i]
  IN /\ cause = "none"
     /\ updates < MaxUpdates
     /\ t.type # lock_forever
     /\ t.target # target
     /\ n <= t.amount
     /\ IF n < t.amount
        THEN LET new == Retargeted([t EXCEPT !.amount = n], target)
                 rest == WithValue([t EXCEPT !.amount = @ - n])
             IN /\ next <= MaxTickets
                /\ tickets' = [j \in Live \cup {next} |->
                                 IF j = next THEN new ELSE IF j = i THEN rest ELSE tickets[j]]
                /\ stats' = [stats EXCEPT ![t.account] = UpdateStats(@, t, rest, new.value)]
                /\ next' = next + 1
                /\ concerned' = {next}
        ELSE LET new == Retargeted(t, target)
             IN /\ tickets' = [tickets EXCEPT ![i] = new]
                /\ stats' = [stats EXCEPT ![t.account] = UpdateStats(@, t, new, 0)]
                /\ concerned' = {i}
                /\ UNCHANGED next
     /\ updates' = updates + 1
     /\ cause' = "update"
     /\ UNCHANGED <<balance, totals, now>>

\* A block, with any gap to the last one; it runs process_tickets.
NewBlock(step) ==
  /\ cause = "none"
  /\ now + step <= MaxTime
  /\ now' = now + step
  /\ cause' = "block"
  /\ UNCHANGED <<balance, tickets, next, stats, totals, concerned, updates>>

\* mutant: a ticket is due only when the block's time is past its own
DueLate == {i \in Live : tickets[i].nextUpdate < now}

Due == {i \in Live : tickets[i].nextUpdate <= now}

\* The first ticket of by_next_update.
FirstDue == CHOOSE i \in Due : \A j \in Due : \/ tickets[i].nextUpdate < tickets[j].nextUpdate
                                              \/ tickets[i].nextUpdate = tickets[j].nextUpdate /\ i <= j

\* One turn of the loop of process_tickets.
ProcessTicket ==
  /\ cause # "none"
  /\ Due # {}
  /\ LET i == FirstDue
         t == tickets[i]
         u == AutoUpdated([t EXCEPT !.floor = Max({@, t.nextUpdate + LockTime(t.type)})])
     IN IF t.status = "withdrawing" /\ t.type = liquid
        THEN /\ balance' = [balance EXCEPT ![t.account] = @ + t.amount]
             /\ stats' = [stats EXCEPT ![t.account] = WithLocked(@, -t.amount, -t.value)]
             /\ tickets' = Restrict(tickets, Live \ {i})
             /\ UNCHANGED totals
        ELSE LET s == AutoStats(stats[t.account], t, u)
             IN /\ tickets' = [tickets EXCEPT ![i] = u]
                /\ stats' = [stats EXCEPT ![t.account] = s]
                /\ totals' = [pob |-> totals.pob + (s.pob - stats[t.account].pob),
                              inactive |-> totals.inactive + (s.inactive - stats[t.account].inactive)]
                /\ UNCHANGED balance
  /\ UNCHANGED <<next, now, cause, concerned, updates>>

Processed ==
  /\ cause # "none"
  /\ Due = {}
  /\ cause' = "none"
  /\ concerned' = {}
  /\ UNCHANGED <<balance, tickets, next, stats, totals, now, updates>>

Next ==
  \/ \E a \in Accounts, target \in Types, n \in Amounts : ticket_create(a, target, n)
  \/ \E i \in Live, target \in Types, n \in Amounts : ticket_update(i, target, n)
  \/ \E step \in Steps : NewBlock(step)
  \/ ProcessTicket
  \/ Processed

Spec == Init /\ [][Next]_vars

------------------------------------------------------------------------------

TypeOK ==
  /\ balance \in [Accounts -> Nat]
  /\ \A i \in Live : tickets[i].amount > 0 /\ tickets[i].type \in Types /\ tickets[i].value \in Nat

\* Locked and liquid tokens add up to the supply.
Conserved ==
  SumOver(balance, Accounts) + SumOver([i \in Live |-> tickets[i].amount], Live)
  = Supply * Cardinality(Accounts)

\* What a ticket counts for in the statistics of its owner.
Share(t) ==
  LET pol == t.type # lock_forever
      pob == t.type = lock_forever /\ t.value > 0
  IN [inactive |-> IF pol \/ pob THEN 0 ELSE t.amount,
      pob |-> IF pob THEN t.amount ELSE 0, pol |-> IF pol THEN t.amount ELSE 0,
      pobValue |-> IF pob THEN t.value ELSE 0, polValue |-> IF pol THEN t.value ELSE 0]

\* The statistics that voting power is counted from, and the totals of the
\* chain, are those of the tickets, although both evaluators and process_tickets
\* only ever add differences.
StatsExact ==
  /\ \A a \in Accounts, k \in DOMAIN NoStats :
       stats[a][k] = SumOver([i \in Live |-> Share(tickets[i])[k]], {i \in Live : tickets[i].account = a})
  /\ totals.pob = SumOver([a \in Accounts |-> stats[a].pob], Accounts)
  /\ totals.inactive = SumOver([a \in Accounts |-> stats[a].inactive], Accounts)

\* Ticket i is paid out no earlier than its types allow, less a charging step.
PaidInTime(i) == i \notin DOMAIN tickets' => now + ChargingStep > tickets[i].floor

\* A ticket is paid out no earlier than the types it has had allow, but for less
\* than one charging step, by which an upgrade that is given up again can hide
\* part of a downgrade's waiting time (update_target_type).
LockHonoured == [][\A i \in Live : PaidInTime(i)]_vars

\* Ticket i, locked forever, stays and only loses value.
OnlyLosesValue(i) ==
  tickets[i].type = lock_forever =>
    /\ i \in DOMAIN tickets'
    /\ tickets'[i].amount = tickets[i].amount
    /\ tickets'[i].type = lock_forever
    /\ tickets'[i] # tickets[i] => tickets'[i].value < tickets[i].value

\* What is locked forever is never paid out, and only loses value.
ForeverStays == [][\A i \in Live : OnlyLosesValue(i)]_vars

\* The comment in ticket_update_evaluator::do_apply: its call of process_tickets
\* does not affect other tickets.
OthersUntouched == cause = "update" => {i \in Live : tickets[i].nextUpdate <= now} \subseteq concerned

\* While process_tickets runs, the first ticket that is due is paid out or put off.
Advances ==
  cause # "none" /\ cause' # "none" =>
    \/ FirstDue \notin DOMAIN tickets'
    \/ tickets'[FirstDue].nextUpdate > tickets[FirstDue].nextUpdate

\* Every turn of the loop of process_tickets brings it nearer to its end, however
\* long the gap between two blocks was: the ticket it handles is paid out or gets
\* a later time of its next update.
LoopAdvances == [][Advances]_vars

\* Tickets are kept as promised: exact statistics, locks that are honoured, and a
\* loop that ends and disturbs nobody.
TicketsKept == [](StatsExact /\ OthersUntouched) /\ LockHonoured /\ ForeverStays /\ LoopAdvances
==============================================================================
