----------------------------- MODULE LimitMarket -----------------------------
(***************************************************************************)
(* The order book of one market between CORE and a user-issued asset Coin: *)
(* limit orders created, updated, cancelled and expired, their matching,   *)
(* the market fees, the deferred creation fees and the take-profit orders  *)
(* an order sends when it is filled.  One operation of the chain is one    *)
(* step; inside it, filling an order may apply a take-profit operation,    *)
(* which matches orders again while the outer match loop holds iterators   *)
(* into the same book.                                                     *)
(*                                                                         *)
(* The objects an operation touches are one record, db, because a nested   *)
(* operation that throws is undone as a whole (try_push_virtual_operation) *)
(* and an outer one that throws leaves no trace.  db.ok is FALSE once an   *)
(* exception is in flight, db.internal once it came from an assertion the  *)
(* code calls an internal error.                                           *)
(***************************************************************************)
EXTENDS Integers, FiniteSets, FiniteSetsExt, Functions

CONSTANTS
  Accounts,        \* traders
  Core, Coin,      \* the two assets of the market
  Supply,          \* what every trader owns of each asset at the start
  InitialPool,     \* CORE in Coin's fee pool at the start
  Offers,          \* <<amount_to_sell, min_to_receive>> of the orders placed
  OnFills,         \* the on_fill actions orders carry, NoAction among them
  Deltas,          \* delta_amount_to_sell of the updates, 0 for none
  FeeOffers,       \* [asset, amount] of the fees paid
  CreateFee, UpdateFee, CancelFee,  \* the fee schedule, in CORE
  CoinPerCore,     \* <<core, coin>>: Coin's core_exchange_rate
  MakerPercent, TakerPercent, MaxMarketFee, \* market fees of both assets
  NetworkPercent, RewardPercent, ReferrerPercent, MakerDiscount,
  Percent100,      \* GRAPHENE_100_PERCENT
  Blacklistable,   \* traders the issuer may bar from holding Coin
  MaxOrders,       \* bound on the order ids used
  MaxOps,          \* bound on the operations applied
  MaxTime          \* bound on the head block time

\* What the constants are assumed to be.
MarketAssumption ==
  /\ Core # Coin
  /\ \A n \in {Supply, InitialPool, CreateFee, UpdateFee, CancelFee, MaxMarketFee,
               MaxOrders, MaxOps, MaxTime} : n \in Nat
  /\ Percent100 \in Nat \ {0}
  /\ \A p \in {MakerPercent, TakerPercent, NetworkPercent, RewardPercent,
               ReferrerPercent, MakerDiscount} : p \in 0..Percent100
  /\ Offers \subseteq (Nat \ {0}) \X (Nat \ {0})

VARIABLES db, now, ops

vars == <<db, now, ops>>

Assets == {Core, Coin}
Other(a) == IF a = Core THEN Coin ELSE Core
NoOrder == 0
OrderIds == 1..MaxOrders
\* an on_fill list holds no action, or one create_take_profit_order_action
NoAction == [spread |-> 0, size |-> 0, repeat |-> FALSE, fee |-> Core]
Beneficiaries == {"committee", "registrar", "referrer"}
Never == MaxTime + 1

------------------------------------------------------------------------------
(* Amounts and prices *)

\* asset * price, rounded down, and multiply_and_round_up
Times(n, num, den) == (n * num) \div den
TimesUp(n, num, den) == (n * num + den - 1) \div den

PercentOf(n, p) == Times(n, p, Percent100)

\* What an order asks for what it still sells.
AmountToReceive(o) == Times(o.forSale, o.quote, o.base)

\* mutant: the newest of equal prices first
PrecedesNewest(os, i, j) ==
  LET a == os[i].base * os[j].quote
      b == os[j].base * os[i].quote
  IN a > b \/ (a = b /\ i > j)

\* The by_price index of one side of the book: best price first, then the id.
Precedes(os, i, j) ==
  LET a == os[i].base * os[j].quote
      b == os[j].base * os[i].quote
  IN a > b \/ (a = b /\ i < j)

Side(os, a) == {i \in DOMAIN os : os[i].sell = a}

\* The first of a set of orders of one side; NoOrder is the end of the side.
First(os, S) ==
  IF S = {} THEN NoOrder ELSE CHOOSE i \in S : \A j \in S \ {i} : Precedes(os, i, j)

\* ++iterator, on the book as it is when the iterator moves
NextOrder(os, i) == First(os, {j \in Side(os, os[i].sell) : Precedes(os, i, j)})

\* mutant: equal prices do not meet
CrossesStrictly(os, i, j) == os[i].base * os[j].base > os[i].quote * os[j].quote

\* a maker's price that satisfies the limit of order i
Crosses(os, i, j) == os[i].base * os[j].base >= os[i].quote * os[j].quote

------------------------------------------------------------------------------
(* Balances and fees *)

Fail(s) == [s EXCEPT !.ok = FALSE]
InternalError(s) == [s EXCEPT !.ok = FALSE, !.internal = TRUE]

\* What comes after a step happens unless the step threw.
Then(s, F(_)) == IF s.ok THEN F(s) ELSE s

\* mutant: the balance is not checked
AdjustBalanceUnchecked(s, who, a, n) == [s EXCEPT !.balance[who][a] = @ + n]

AdjustBalance(s, who, a, n) ==
  IF s.balance[who][a] + n < 0 THEN Fail(s)
  ELSE [s EXCEPT !.balance[who][a] = @ + n]

\* Everything an account may trade: the issuer's white and black lists.
IsAuthorized(s, who) == who \notin s.blacklist

\* calculate_fee with a core exchange rate
FeeIn(a, fee) ==
  IF a = Core THEN fee ELSE TimesUp(fee, CoinPerCore[2], CoinPerCore[1])

\* core_fee_paid of prepare_fee
CoreValue(f) ==
  IF f.asset = Core THEN f.amount ELSE Times(f.amount, CoinPerCore[1], CoinPerCore[2])

PrepareFee(s, who, f, required) ==
  /\ f.asset = Coin => IsAuthorized(s, who) /\ CoreValue(f) <= s.feePool
  /\ CoreValue(f) >= required

\* convert_fee of an order creation or update: only the fee pool is touched,
\* the fee itself is deferred.
TakeFromPool(s, f) ==
  IF f.asset = Core THEN s ELSE [s EXCEPT !.feePool = @ - CoreValue(f)]

MarketFee(n, isMaker) ==
  Min({PercentOf(n, IF isMaker THEN MakerPercent ELSE TakerPercent), MaxMarketFee})

\* pay_market_fees: the network's share, the registrar's and the referrer's
\* reward, and the rest to the issuer.
PayMarketFees(s, a, fee) ==
  LET network  == PercentOf(fee, NetworkPercent)
      reward   == PercentOf(fee - network, RewardPercent)
      referrer == PercentOf(reward, ReferrerPercent)
  IN [s EXCEPT !.vesting["committee"][a] = @ + network,
               !.vesting["referrer"][a]  = @ + referrer,
               !.vesting["registrar"][a] = @ + (reward - referrer),
               !.accumulated[a] = @ + (fee - network - reward)]

\* mutant: the CORE sold still counts as being in orders
PayOrderStillInOrders(s, who, sold, pays, received) ==
  [s EXCEPT !.balance[who][Other(sold)] = @ + received]

PayOrder(s, who, sold, pays, received) ==
  [s EXCEPT !.inOrders[who] = @ - (IF sold = Core THEN pays ELSE 0),
            !.balance[who][Other(sold)] = @ + received]

\* The deferred creation fee falls due at the first fill; a maker gets the
\* discount back, in the asset the fee was paid in.
PayDeferredFee(s, o, isMaker) ==
  LET discount  == IF isMaker THEN MakerDiscount ELSE 0
      refund    == PercentOf(IF o.paid > 0 THEN o.paid ELSE o.fee, discount)
      toPool    == IF o.paid > 0 /\ refund > 0 THEN PercentOf(o.fee, discount) ELSE 0
      coreRefund == IF o.paid > 0 THEN 0 ELSE refund
  IN IF o.paid > 0 /\ refund > 0 /\ o.fee = 0 THEN InternalError(s)
     ELSE [s EXCEPT
            !.balance[o.seller] =
               IF o.paid > 0 THEN [@ EXCEPT ![Coin] = @ + refund]
                             ELSE [@ EXCEPT ![Core] = @ + coreRefund],
            !.accumulated[Coin] = @ + (IF o.paid > 0 THEN o.paid - refund ELSE 0),
            !.feePool = @ + toPool,
            !.spent[o.seller] = @ + (o.fee - toPool - coreRefund)]

\* mutant: the kept fee is refunded as well
RefundWholeFee(s, o, cancelFee) ==
  LET kept == Min({cancelFee, o.fee})
      s1 == [s EXCEPT !.spent[o.seller] = @ + kept]
  IN IF o.paid = 0 THEN AdjustBalance(s1, o.seller, Core, o.fee)
     ELSE [AdjustBalance(s1, o.seller, Coin, o.paid) EXCEPT !.feePool = @ + (o.fee - kept)]

\* The part of a deferred fee that a cancellation keeps, and the refund of the
\* rest, shared by the cancellation and the update of an order.
RefundDeferredFee(s, o, cancelFee) ==
  LET kept     == Min({cancelFee, o.fee})
      keptPaid == IF kept > 0 /\ o.paid > 0 THEN TimesUp(o.paid, kept, o.fee) ELSE 0
      s1 == [s EXCEPT !.spent[o.seller] = @ + kept,
                      !.accumulated[Coin] = @ + keptPaid]
  IN IF o.paid = 0 THEN AdjustBalance(s1, o.seller, Core, o.fee - kept)
     ELSE [AdjustBalance(s1, o.seller, Coin, o.paid - keptPaid)
             EXCEPT !.feePool = @ + (o.fee - kept)]

------------------------------------------------------------------------------
(* Removing orders *)

\* cleanup_and_remove_limit_order: a linked take-profit order loses its link
Unlink(s, i) ==
  LET l == s.orders[i].link
  IN IF l = NoOrder THEN s
     ELSE IF l \notin DOMAIN s.orders THEN InternalError(s)
     ELSE [s EXCEPT !.orders[l].link = NoOrder]

\* mutant: the linked order keeps its link
RemoveOrderKeepLink(s, i) == [s EXCEPT !.orders = Restrict(@, DOMAIN @ \ {i})]

RemoveOrder(s, i) ==
  LET s1 == Unlink(s, i)
  IN [s1 EXCEPT !.orders = Restrict(@, DOMAIN @ \ {i})]

\* cancel_limit_order; a cancellation the chain does on its own
\* (isVirtual) keeps the cancellation fee out of the deferred fee.
CancelLimitOrder(s, i, isVirtual) ==
  LET o  == s.orders[i]
      s1 == [s EXCEPT !.inOrders[o.seller] = @ - (IF o.sell = Core THEN o.forSale ELSE 0)]
      s2 == AdjustBalance(s1, o.seller, o.sell, o.forSale)
      s3 == RefundDeferredFee(s2, o, IF isVirtual THEN CancelFee ELSE 0)
  IN RemoveOrder(s3, i)

MaybeCullSmallOrder(s, i) ==
  IF AmountToReceive(s.orders[i]) = 0 THEN CancelLimitOrder(s, i, TRUE) ELSE s

------------------------------------------------------------------------------
(* Matching.  These operators call one another: a fill applies a           *)
(* take-profit operation, which applies an order, which fills orders.      *)

RECURSIVE ApplyOrder(_, _), MatchLoop(_, _, _, _)

\* The fee of an operation leaves the account last.
PayFee(s, who, f) == Then(s, LAMBDA t : AdjustBalance(t, who, f.asset, -f.amount))

\* limit_order_create_evaluator, without the check that a fill-or-kill order
\* was filled.  The new order has the id s.next.
CreateOrder(s, who, a, offer, expiration, f, action) ==
  LET id == s.next
      s1 == TakeFromPool(s, f)
      s2 == [s1 EXCEPT
               !.inOrders[who] = @ + (IF a = Core THEN offer[1] ELSE 0),
               !.balance[who][a] = @ - offer[1],
               !.orders = [k \in DOMAIN @ \cup {id} |->
                  IF k # id THEN @[k]
                  ELSE [seller |-> who, sell |-> a, forSale |-> offer[1],
                        base |-> offer[1], quote |-> offer[2], expiration |-> expiration,
                        fee |-> CoreValue(f),
                        paid |-> IF f.asset = Core THEN 0 ELSE f.amount,
                        onFill |-> action, link |-> NoOrder]],
               !.next = id + 1]
  IN IF \/ ~PrepareFee(s, who, f, CreateFee)
        \/ expiration < now
        \/ ~IsAuthorized(s, who)
        \/ s.balance[who][a] < offer[1]
     THEN Fail(s)
     ELSE PayFee(ApplyOrder(s2, id), who, f)

\* is_linked_tp_order_compatible
LinkedCompatible(o, action) ==
  /\ (o.onFill = NoAction) = (action = NoAction)
  /\ o.onFill.spread = action.spread
  /\ o.onFill.repeat = action.repeat

\* limit_order_update_evaluator; u.price, u.expiration and u.onFill are sets
\* that hold the new value or are empty when it is not updated.  auto is
\* skip_limit_order_price_check: a take-profit order updated by its parent.
UpdateOrder(s, i, u, f, auto) ==
  LET o == s.orders[i]
      who == o.seller
      price == IF u.price = {} THEN <<o.base, o.quote>> ELSE CHOOSE p \in u.price : TRUE
      newExp == IF u.expiration = {} THEN o.expiration ELSE CHOOSE e \in u.expiration : TRUE
      action == IF u.onFill = {} THEN o.onFill ELSE CHOOSE x \in u.onFill : TRUE
      discounted == IF CreateFee > 0 THEN (CancelFee * UpdateFee) \div CreateFee ELSE CancelFee
      priceChanged == price[1] * o.quote # o.base * price[2]
      unlink == /\ o.link # NoOrder
                /\ \/ ~auto /\ priceChanged
                   \/ ~LinkedCompatible(o, action)
      \* the deferred fee is replaced and the link cut
      released(x) ==
        LET x1 == [x EXCEPT !.inOrders[who] = @ + (IF o.sell = Core THEN u.delta ELSE 0)]
            x2 == IF o.fee > 0 THEN RefundDeferredFee(x1, o, discounted) ELSE x1
        IN IF unlink THEN Unlink(x2, i) ELSE x2
      changed(x) ==
        [x EXCEPT !.orders[i] =
               [@ EXCEPT !.base = price[1], !.quote = price[2],
                         !.forSale = @ + u.delta, !.expiration = newExp,
                         !.fee = CoreValue(f),
                         !.paid = IF f.asset = Core THEN 0 ELSE f.amount,
                         !.onFill = action,
                         !.link = IF unlink THEN NoOrder ELSE @]]
      paid == Then(AdjustBalance(TakeFromPool(s, f), who, o.sell, -u.delta), released)
  IN IF \/ ~PrepareFee(s, who, f, UpdateFee)
        \/ u.price # {} /\ price[1] > Max({o.forSale, o.base}) + u.delta
        \/ u.delta < 0 /\ o.forSale <= -u.delta
        \/ /\ u.price # {} \/ u.delta < 0
           /\ Times(o.forSale + u.delta, price[2], price[1]) = 0
        \/ newExp < now
        \/ ~IsAuthorized(s, who)
     THEN Fail(s)
     ELSE PayFee(Then(paid, LAMBDA x : ApplyOrder(changed(x), i)), who, f)

\* try_push_virtual_operation: an operation that throws is undone.
Tried(s, result, id) ==
  IF result.ok THEN [s |-> result, tp |-> id] ELSE [s |-> s, tp |-> NoOrder]

\* process_limit_order_on_fill: [s, tp], tp the take-profit order created, if
\* any.  A take-profit operation that throws is undone and forgotten.
ProcessOnFill(s, i, received) ==
  LET o == s.orders[i]
      act == o.onFill
      amount == TimesUp(received, act.size, Percent100)
      \* (~sell_price) * 100% / (100% + spread), then the least that meets it
      minFor(n) == TimesUp(n, o.base * (Percent100 + act.spread), o.quote * Percent100)
      expires == Min({now + 1, Never})
      create == CreateOrder(s, o.seller, Other(o.sell), <<amount, minFor(amount)>>, expires,
                            [asset |-> act.fee, amount |-> FeeIn(act.fee, CreateFee)],
                            IF act.repeat THEN act ELSE NoAction)
      total == amount + s.orders[o.link].forSale
      update == UpdateOrder(s, o.link,
                  [price |-> IF o.link > i THEN {<<total, minFor(total)>>} ELSE {},
                   delta |-> amount, expiration |-> {expires}, onFill |-> {}],
                  [asset |-> act.fee, amount |-> FeeIn(act.fee, UpdateFee)], TRUE)
  IN IF act = NoAction \/ amount = 0 THEN [s |-> s, tp |-> NoOrder]
     ELSE IF o.link = NoOrder THEN Tried(s, create, s.next)
     ELSE Tried(s, IF o.link \in DOMAIN s.orders THEN update ELSE Fail(s), NoOrder)

\* The rest of fill_limit_order, after the take-profit operation r: the order is
\* linked, and gone when it has nothing left to sell.
FinishFill(r, i, pays, cull) ==
  LET tp == r.tp
      rest == [r.s EXCEPT !.orders =
                [k \in DOMAIN @ |->
                   IF k = i THEN [@[i] EXCEPT !.forSale = @ - pays, !.fee = 0, !.paid = 0,
                                              !.link = IF tp # NoOrder THEN tp ELSE @]
                   ELSE IF k = tp THEN [@[tp] EXCEPT !.link = i] ELSE @[k]]]
  IN IF i \notin DOMAIN r.s.orders THEN InternalError(r.s)
     ELSE IF pays = r.s.orders[i].forSale THEN RemoveOrder(r.s, i)
     ELSE IF tp # NoOrder /\ tp \notin DOMAIN r.s.orders THEN InternalError(r.s)
     ELSE IF cull THEN MaybeCullSmallOrder(rest, i) ELSE rest

\* An order is filled when it is no longer in the book.
FillLimitOrder(s, i, pays, receives, cull, isMaker) ==
  LET o   == s.orders[i]
      a   == Other(o.sell)
      fee == MarketFee(receives, isMaker)
      s1  == PayOrder(PayMarketFees(s, a, fee), o.seller, o.sell, pays, receives - fee)
      s2  == [PayDeferredFee(s1, o, isMaker) EXCEPT
                !.fills = @ \cup {[order |-> i, pays |-> pays, receives |-> receives,
                                   base |-> o.base, quote |-> o.quote, maker |-> isMaker]}]
  IN Then(s2, LAMBDA x : FinishFill(ProcessOnFill(x, i, receives - fee), i, pays, cull))

\* One of two orders that met has been filled.
OneIsFilled(s, i, j) ==
  IF s.ok /\ {i, j} \subseteq DOMAIN s.orders THEN InternalError(s) ELSE s

\* The taker is filled first, then the maker.
FillBoth(s, taker, maker, takerGets, makerGets, cull) ==
  Then(FillLimitOrder(s, taker, makerGets, takerGets, cull, FALSE),
       LAMBDA x : OneIsFilled(IF maker \in DOMAIN x.orders
                              THEN FillLimitOrder(x, maker, takerGets, makerGets, TRUE, TRUE)
                              ELSE InternalError(x), taker, maker))

\* mutant: a taker pays all it has left, for nothing in the end
MatchPayAll(s, taker, maker) ==
  LET t == s.orders[taker]
      m == s.orders[maker]
      takerSmaller == t.forSale <= AmountToReceive(m)
      takerGets == IF takerSmaller THEN Times(t.forSale, m.base, m.quote)
                   ELSE TimesUp(AmountToReceive(m), m.base, m.quote)
      makerGets == IF takerSmaller THEN t.forSale
                   ELSE AmountToReceive(m)
  IN FillBoth(s, taker, maker, takerGets, makerGets, takerSmaller)

\* mutant: the rest of the taker is not culled
MatchNoCull(s, taker, maker) ==
  LET t == s.orders[taker]
      m == s.orders[maker]
      takerSmaller == t.forSale <= AmountToReceive(m)
      takerGets == IF takerSmaller THEN Times(t.forSale, m.base, m.quote)
                   ELSE TimesUp(AmountToReceive(m), m.base, m.quote)
      makerGets == IF takerSmaller THEN TimesUp(takerGets, m.quote, m.base)
                   ELSE AmountToReceive(m)
  IN IF takerSmaller /\ takerGets = 0 THEN s
     ELSE FillBoth(s, taker, maker, takerGets, makerGets, FALSE)

\* match_limit_normal_limit at the maker's price: the smaller order is filled
\* and pays what it receives, rounded up; the remainder is too small to sell.
Match(s, taker, maker) ==
  LET t == s.orders[taker]
      m == s.orders[maker]
      takerSmaller == t.forSale <= AmountToReceive(m)
      takerGets == IF takerSmaller THEN Times(t.forSale, m.base, m.quote)
                   ELSE TimesUp(AmountToReceive(m), m.base, m.quote)
      makerGets == IF takerSmaller THEN TimesUp(takerGets, m.quote, m.base)
                   ELSE AmountToReceive(m)
  IN IF takerSmaller /\ takerGets = 0 THEN s
     ELSE FillBoth(s, taker, maker, takerGets, makerGets, takerSmaller)

\* The loop goes on while the taker is left and the maker is filled.
Continue(s, i, itr, after, end) ==
  IF ~s.ok \/ i \notin DOMAIN s.orders \/ itr \in DOMAIN s.orders THEN s
  ELSE MatchLoop(s, i, after, end)

\* The loop over the opposite side: the iterator moves before the match, and
\* the end was fixed before the loop, both on a book the match may change.
MatchLoop(s, i, itr, end) ==
  IF itr = end THEN s
  ELSE IF itr \notin DOMAIN s.orders THEN InternalError(s)
  ELSE Continue(Match(s, i, itr), i, itr, NextOrder(s.orders, itr), end)

\* What is left of an order that has been applied is dropped when too small.
CullRest(s, i) ==
  IF s.ok /\ i \in DOMAIN s.orders THEN MaybeCullSmallOrder(s, i) ELSE s

\* apply_order: only an order at the front of its side is matched.
ApplyOrder(s, i) ==
  LET os   == s.orders
      opp  == Side(os, Other(os[i].sell))
      hits == {j \in opp : Crosses(os, i, j)}
  IN IF First(os, Side(os, os[i].sell)) # i THEN s
     ELSE CullRest(MatchLoop(s, i, First(os, opp), First(os, opp \ hits)), i)

------------------------------------------------------------------------------
(* Operations *)

Init ==
  /\ now = 0
  /\ ops = 0
  /\ db = [balance |-> [w \in Accounts |-> [a \in Assets |-> Supply]],
           inOrders |-> [w \in Accounts |-> 0],
           spent |-> [w \in Accounts |-> 0],
           orders |-> [k \in {} |-> 0],
           next |-> 1,
           accumulated |-> [a \in Assets |-> 0],
           vesting |-> [b \in Beneficiaries |-> [a \in Assets |-> 0]],
           feePool |-> InitialPool,
           blacklist |-> {},
           fills |-> {},
           ok |-> TRUE, internal |-> FALSE]

\* An operation starts with no fills recorded and commits unless it threw; a
\* failed assertion that should be impossible is remembered.
Apply(s) ==
  /\ ops < MaxOps
  /\ ops' = ops + 1
  /\ UNCHANGED now
  /\ s.ok \/ (s.internal /\ ~db.internal)
  /\ db' = IF s.ok THEN s ELSE [db EXCEPT !.internal = TRUE]

\* Every operation starts a record of its own fills, for the properties.
Fresh == [db EXCEPT !.fills = {}]

\* A fill-or-kill order that is still in the book makes the operation throw.
Killed(s, id) == IF id \in DOMAIN s.orders THEN Fail(s) ELSE s

limit_order_create(who, a, offer, expiration, f, action, fillOrKill) ==
  /\ db.next <= MaxOrders
  /\ Apply(Then(CreateOrder(Fresh, who, a, offer, expiration, f, action),
                LAMBDA s : IF fillOrKill THEN Killed(s, db.next) ELSE s))

limit_order_update(i, u, f) ==
  /\ u.price # {} \/ u.delta # 0 \/ u.onFill # {}
  /\ Apply(UpdateOrder(Fresh, i, u, f, FALSE))

limit_order_cancel(i, f) ==
  LET who == db.orders[i].seller
      s1 == [Fresh EXCEPT !.spent[who] = @ + CoreValue(f),
                          !.accumulated[Coin] = @ + (IF f.asset = Coin THEN f.amount ELSE 0)]
      s2 == CancelLimitOrder(TakeFromPool(s1, f), i, FALSE)
  IN /\ PrepareFee(db, who, f, CancelFee)
     /\ Apply(AdjustBalance(s2, who, f.asset, -f.amount))

\* A new block: clear_expired_orders cancels what has expired.
NewBlock ==
  LET expired == {i \in DOMAIN db.orders : db.orders[i].expiration <= now + 1}
  IN /\ now < MaxTime
     /\ now' = now + 1
     /\ db' = FoldSet(LAMBDA i, s : CancelLimitOrder(s, i, TRUE), Fresh, expired)
     /\ UNCHANGED ops

\* account_whitelist by the issuer's blacklist authority
Blacklist(who) ==
  /\ who \notin db.blacklist
  /\ db' = [Fresh EXCEPT !.blacklist = @ \cup {who}]
  /\ UNCHANGED <<now, ops>>

Next ==
  \/ \E who \in Accounts, a \in Assets, offer \in Offers, f \in FeeOffers,
        action \in OnFills, e \in {now + 1, Never}, k \in BOOLEAN :
       limit_order_create(who, a, offer, e, f, action, k)
  \/ \E i \in DOMAIN db.orders, f \in FeeOffers, p \in {{}} \cup {{o} : o \in Offers},
        d \in Deltas, x \in {{}} \cup {{action} : action \in OnFills} :
       limit_order_update(i, [price |-> p, delta |-> d, expiration |-> {}, onFill |-> x], f)
  \/ \E i \in DOMAIN db.orders, f \in FeeOffers : limit_order_cancel(i, f)
  \/ \E who \in Blacklistable : Blacklist(who)
  \/ NewBlock

Spec == Init /\ [][Next]_vars
------------------------------------------------------------------------------
(* Properties *)

SumOver(S, f(_)) == MapThenSumSet(f, S)

\* Every amount the market may hold is a natural number, and a resting order
\* always has something to sell.
TypeOK ==
  /\ now \in 0..MaxTime
  /\ ops \in 0..MaxOps
  /\ \A w \in Accounts : /\ \A a \in Assets : db.balance[w][a] \in Nat
                           /\ db.inOrders[w] \in Nat /\ db.spent[w] \in Nat
  /\ \A a \in Assets : db.accumulated[a] \in Nat
  /\ db.feePool \in Nat
  /\ \A i \in DOMAIN db.orders :
       /\ db.orders[i].forSale \in Nat \ {0}
       /\ {db.orders[i].fee, db.orders[i].paid} \subseteq Nat
       /\ i < db.next

CoreTotal ==
  LET os == db.orders
  IN SumOver(Accounts, LAMBDA w : db.balance[w][Core] + db.spent[w])
     + SumOver(Side(os, Core), LAMBDA i : os[i].forSale)
     + SumOver(DOMAIN os, LAMBDA i : os[i].fee)
     + SumOver(Beneficiaries, LAMBDA b : db.vesting[b][Core])
     + db.accumulated[Core] + db.feePool

CoinTotal ==
  LET os == db.orders
  IN SumOver(Accounts, LAMBDA w : db.balance[w][Coin])
     + SumOver(Side(os, Coin), LAMBDA i : os[i].forSale)
     + SumOver(DOMAIN os, LAMBDA i : os[i].paid)
     + SumOver(Beneficiaries, LAMBDA b : db.vesting[b][Coin])
     + db.accumulated[Coin]

\* No operation creates or destroys either asset: the roundings of a match, the
\* shares of a market fee, a deferred fee paid from the fee pool and its refund
\* all add up (match_limit_normal_limit, fill_limit_order, pay_market_fees,
\* cancel_limit_order, process_deferred_fee).
Conserved ==
  /\ CoreTotal = Supply * Cardinality(Accounts) + InitialPool
  /\ CoinTotal = Supply * Cardinality(Accounts)

\* A fill always gives something for something, and the rounding of
\* match_limit_normal_limit costs an order less than one unit of what it
\* receives against its own limit price.
FillsWithinLimit ==
  \A f \in db.fills :
    /\ f.pays > 0 /\ f.receives > 0
    /\ (f.receives + 1) * f.base > f.pays * f.quote

\* Between operations no two resting orders could trade with each other: an
\* early return of apply_order (not at the front) or a stopped match loop never
\* leaves a crossed book behind.
BookUncrossed ==
  \A i \in Side(db.orders, Core), j \in Side(db.orders, Coin) :
    db.orders[i].base * db.orders[j].base < db.orders[i].quote * db.orders[j].quote

\* take_profit_order_id never dangles: linked orders point at each other, belong
\* to one seller and sit on opposite sides, whatever fills, culls, updates,
\* cancellations and expiries did to either of them.
LinksMutual ==
  \A i \in DOMAIN db.orders :
    LET l == db.orders[i].link
    IN l # NoOrder =>
         /\ l \in DOMAIN db.orders
         /\ db.orders[l].link = i
         /\ db.orders[l].seller = db.orders[i].seller
         /\ db.orders[l].sell = Other(db.orders[i].sell)

\* total_core_in_orders, which the voting weight of an account is computed from,
\* is the CORE that the account's orders still sell.
CoreInOrdersExact ==
  \A w \in Accounts :
    db.inOrders[w] =
      SumOver({i \in Side(db.orders, Core) : db.orders[i].seller = w},
              LAMBDA i : db.orders[i].forSale)

\* None of the assertions that the matching code calls impossible ever fires:
\* a match always fills one of its orders, the iterators stay valid, a linked
\* order exists, and a fee to refund was backed by CORE.
NoInternalError == ~db.internal

\* Price-time priority: when a resting order is filled, every order of its side
\* that was ahead of it (better price, or the same price and an older id) before
\* the operation has left the book.
PriorityKept ==
  [][\A f \in db'.fills :
       f.maker /\ f.order \in DOMAIN db.orders =>
         \A k \in Side(db.orders, db.orders[f.order].sell) :
           LET o == db.orders[f.order]
               p == db.orders[k]
           IN \/ p.base * o.quote > o.base * p.quote
              \/ p.base * o.quote = o.base * p.quote /\ k < f.order
              => k \notin DOMAIN db'.orders]_vars

\* The book is matched fairly and completely.
MatchingFair == [](FillsWithinLimit /\ BookUncrossed /\ NoInternalError) /\ PriorityKept
==============================================================================
