------------------------------- MODULE Smartcoin -------------------------------
(***************************************************************************)
(* One market-issued asset ("smartcoin") that DefiShares manages: the      *)
(* producers' price feeds and the effective feed derived from them, and    *)
(* the debt positions that are checked against it.                         *)
(*                                                                         *)
(* manages_margin_positions() is true of every market-issued asset that is *)
(* not a prediction market, so such an asset has no margin calls, force    *)
(* settlement or global settlement: its supply moves only by borrowing and *)
(* repaying.  A non-GOLD coin is fed in TARGET/GOLD and its effective      *)
(* price is TARGET/CORE; GOLD's own price follows the block number.        *)
(***************************************************************************)
EXTENDS Integers, FiniteSets, FiniteSetsExt, Sums

CONSTANTS
    Accounts,       \* owners of debt positions
    Producers,      \* feed producers
    IsGold,         \* the coin is GOLD itself
    Fed,            \* witness_fed_asset or committee_fed_asset: the issuer has no say who feeds it
    NoBorrowing,    \* blocks between the hardforks GOLD_RESERVE_REWARD and GOLD_USER_BORROW
    FeedPrices,     \* prices a producer may publish: <<debt amount, quote amount>>
    GoldPrice,      \* GOLD per CORE in each refresh period, a function on 0..n
    RefreshBlocks,  \* DEFISHARES_GOLD_FEED_UPDATE_BLOCKS
    MaintBlocks,    \* blocks in a maintenance interval
    Methods,        \* black swan response methods the issuer may choose
    Lifetimes,      \* feed lifetimes the issuer may choose
    MinFeeds,       \* minimum numbers of feeds the issuer may choose
    VoteLife,       \* how long a vote entitles to borrow (365 days)
    SqueezeRatio,   \* maximum_short_squeeze_ratio, over 10
    DebtDeltas, CollDeltas,   \* what one call_order_update may change
    StartCore,      \* CORE each account starts with
    MaxSupply,      \* max_supply of the coin
    MaxBlock        \* bound on the run

Positive == Nat \ {0}
Periods == 0..(MaxBlock \div RefreshBlocks)

\* What the constants are assumed to be.
SmartcoinAssumption ==
    /\ IsFiniteSet(Accounts) /\ IsFiniteSet(Producers)
    /\ IsGold \in BOOLEAN /\ Fed \in BOOLEAN
    /\ {RefreshBlocks, MaintBlocks, SqueezeRatio, MaxBlock} \subseteq Positive
    /\ Lifetimes \cup MinFeeds \subseteq Positive
    /\ FeedPrices \subseteq Positive \X Positive
    /\ \A k \in Periods : k \in DOMAIN GoldPrice /\ GoldPrice[k] \in Positive \X Positive
    /\ DebtDeltas \cup CollDeltas \subseteq Int
    /\ {VoteLife, StartCore, MaxSupply} \subseteq Nat

\* GOLD per CORE never falls (gold_feed_growth_factor_scaled) and GOLD's squeeze ratio is
\* at most the fixed collateral ratio; of another coin no method derives the effective
\* feed (see "Other disagreements" in the README for instances that do not meet this).
Undistorted ==
    IF IsGold
    THEN /\ "no_settlement" \in Methods => SqueezeRatio <= 20
         /\ \A k \in Periods : k + 1 \in Periods =>
              GoldPrice[k][1] * GoldPrice[k + 1][2] <= GoldPrice[k + 1][1] * GoldPrice[k][2]
    ELSE Methods \cap {"no_settlement", "individual_settlement_to_fund"} = {}

VARIABLES
    block,      \* head_block_num, which also stands for the head block time
    bitasset,   \* asset_bitasset_data_object
    calls,      \* call_order_object of each account: [debt, coll], debt = 0: none
    bal,        \* balances in the coin
    core,       \* balances in CORE
    voted       \* last_vote_time, 0: never
vars == <<block, bitasset, calls, bal, core, voted>>

-----------------------------------------------------------------------------
(* Prices are debt per quote; the quote is CORE or GOLD. *)

Null == [unit |-> "null", n |-> 0, d |-> 1]
Price(u, p) == [unit |-> u, n |-> p[1], d |-> p[2]]

PriceEq(p, q) == p.unit = q.unit /\ p.n * q.d = q.n * p.d

\* operator<: prices of different assets compare by asset id, and CORE's is the least.
PriceLess(p, q) ==
    \/ p.unit = "core" /\ q.unit = "gold"
    \/ p.unit = q.unit /\ p.n * q.d < q.n * p.d

PriceMax(p, q) == IF PriceLess(p, q) THEN q ELSE p

-----------------------------------------------------------------------------
(* The effective feed *)

GoldPerCore(b) == GoldPrice[b \div RefreshBlocks]

\* Feeds alive at block b.
Live(ba, b) == {p \in Producers : ba.feeds[p].time # 0 /\ b - ba.feeds[p].time < ba.life}

\* nth_element at position size/2 of the live feeds.
MedianAt(S) == Cardinality(S) \div 2
Median(ba, b) ==
    LET S == Live(ba, b)
        price(p) == ba.feeds[p].price
        isAt(p) == /\ Cardinality({q \in S : PriceLess(price(q), price(p))}) <= MedianAt(S)
                   /\ Cardinality({q \in S : ~PriceLess(price(p), price(q))}) > MedianAt(S)
    IN  price(CHOOSE p \in S : isAt(p))

\* mutant: the coin expires with its newest feed
PublicationTimeNewest(ba, b) == Max({ba.feeds[p].time : p \in Live(ba, b)})
PublicationTime(ba, b) == Min({ba.feeds[p].time : p \in Live(ba, b)})

update_median_feeds(ba, b) ==
    IF Cardinality(Live(ba, b)) < ba.min
    THEN [ba EXCEPT !.median = Null, !.pub = b]
    ELSE [ba EXCEPT !.median = Median(ba, b), !.pub = PublicationTime(ba, b)]

multiply_feed_prices(p, g) == [unit |-> "core", n |-> p.n * g[1], d |-> p.d * g[2]]

apply_feed_policy(ba, b) ==
    IF IsGold
    THEN LET g == Price("core", GoldPerCore(b)) IN
         [ba EXCEPT !.median = g, !.current = g, !.pub = b]
    ELSE [ba EXCEPT !.current = IF ba.median.unit = "gold"
                                THEN multiply_feed_prices(ba.median, GoldPerCore(b))
                                ELSE ba.median]

\* find_least_collateralized_short: the positions sorted by collateral per debt.
Positions(cs) == {a \in Accounts : cs[a].debt > 0}
LeastCollateralized(cs) ==
    CHOOSE a \in Positions(cs) :
        \A o \in Positions(cs) : cs[a].coll * cs[o].debt <= cs[o].coll * cs[a].debt

get_derived_current_feed_price(ba, cs) ==
    IF ba.median # Null /\ ba.method = "no_settlement" /\ Positions(cs) # {}
    THEN LET c == cs[LeastCollateralized(cs)] IN
         PriceMax(ba.median, [unit |-> "core", n |-> c.debt * SqueezeRatio, d |-> c.coll * 10])
    ELSE ba.median

Derives(ba) == ba.method \in {"no_settlement", "individual_settlement_to_fund"}

SetCurrent(ba, p) == IF PriceEq(p, ba.current) THEN ba ELSE [ba EXCEPT !.current = p]

\* update_bitasset_current_feed with skip_median_update.
SkipMedianUpdate(ba, cs) ==
    SetCurrent(ba, IF Derives(ba) THEN get_derived_current_feed_price(ba, cs) ELSE ba.median)

update_bitasset_current_feed(ba, cs, b) ==
    LET policed == apply_feed_policy(update_median_feeds(ba, b), b) IN
    IF Derives(ba)
    THEN SetCurrent(policed, get_derived_current_feed_price(policed, cs))
    ELSE policed

-----------------------------------------------------------------------------
(* Debt positions *)

\* Collateral covers k times the debt at price p; a price that is not in CORE is
\* above every collateralization, because prices of other assets compare by id.
Covers(c, k, p) == p.unit = "core" /\ c.coll * p.n >= k * c.debt * p.d

\* mutant: the maintenance ratio is used instead of the fixed 2.0
MeetsMCR(c, p) == Covers(c, 1, p)
\* collateralization() >= current_initial_collateralization, the fixed ratio 2.0.
MeetsICR(c, p) == Covers(c, 2, p)

supply == SumOver(bal, Accounts)

HasVoted(a) == voted[a] # 0 /\ block < voted[a] + VoteLife

RepairOnly(old, dd, dc) == ~MeetsICR(old, bitasset.current) => dd <= 0 /\ dc >= 0

\* mutant: every update must end above the fixed ratio
NeverIncreases(old, new) == FALSE
IncreasesCR(old, new) ==
    /\ old.debt > 0
    /\ new.debt <= old.debt
    /\ new.coll * old.debt > old.coll * new.debt

\* mutant: freed collateral is not given back
PayOneWay(a, dd, dc) ==
    /\ bal[a] + dd >= 0
    /\ core[a] - dc >= 0
    /\ bal' = [bal EXCEPT ![a] = @ + dd]
    /\ core' = [core EXCEPT ![a] = IF dc > 0 THEN @ - dc ELSE @]
Pay(a, dd, dc) ==
    /\ bal[a] + dd >= 0
    /\ core[a] - dc >= 0
    /\ bal' = [bal EXCEPT ![a] = @ + dd]
    /\ core' = [core EXCEPT ![a] = @ - dc]

\* What do_evaluate of call_order_update asks of a change that does not close the position.
Admissible(a, dd, dc) ==
    LET old == calls[a] IN
    /\ dd # 0 \/ dc # 0
    /\ dd > 0 /\ IsGold => block \notin NoBorrowing
    /\ old.debt + dd > 0 /\ old.coll + dc > 0
    /\ supply + dd <= MaxSupply
    /\ old.debt = 0 => dd > 0 /\ dc > 0
    /\ bitasset.current # Null
    /\ dd > 0 => HasVoted(a)
    /\ old.debt > 0 => RepairOnly(old, dd, dc)

Changed(c, dd, dc) == [debt |-> c.debt + dd, coll |-> c.coll + dc]

\* What do_apply asks after the change, except that the account can pay.
Accepted(a, dd, dc) ==
    LET new == Changed(calls[a], dd, dc) IN
    /\ Admissible(a, dd, dc)
    /\ IncreasesCR(calls[a], new) \/ MeetsICR(new, bitasset.current)

\* call_order_update that opens or changes a position.
UpdatePosition(a, dd, dc) ==
    /\ Accepted(a, dd, dc)
    /\ Pay(a, dd, dc)
    /\ calls' = [calls EXCEPT ![a] = Changed(@, dd, dc)]
    /\ bitasset' = IF bitasset.method = "no_settlement"
                   THEN SkipMedianUpdate(bitasset, calls') ELSE bitasset
    /\ UNCHANGED <<block, voted>>

\* call_order_update that closes a position: the whole debt for the whole collateral,
\* with or without a feed.
ClosePosition(a) ==
    /\ calls[a].debt > 0
    /\ Pay(a, - calls[a].debt, - calls[a].coll)
    /\ calls' = [calls EXCEPT ![a] = [debt |-> 0, coll |-> 0]]
    /\ bitasset' = IF bitasset.method = "no_settlement"
                   THEN SkipMedianUpdate(bitasset, calls') ELSE bitasset
    /\ UNCHANGED <<block, voted>>

\* The coin changes hands (a transfer or a trade).
Transfer(a, b, x) ==
    /\ a # b
    /\ x \in 1..bal[a]
    /\ bal' = [bal EXCEPT ![a] = @ - x, ![b] = @ + x]
    /\ UNCHANGED <<block, bitasset, calls, core, voted>>

\* account_update that changes the votes.
CastVote(a) ==
    /\ voted[a] # block
    /\ voted' = [voted EXCEPT ![a] = block]
    /\ UNCHANGED <<block, bitasset, calls, bal, core>>

-----------------------------------------------------------------------------
(* Feeds, options and blocks *)

asset_publish_feed(p, x) ==
    LET fed == [bitasset EXCEPT !.feeds[p] =
                   [time |-> block, price |-> Price(IF IsGold THEN "core" ELSE "gold", x)]]
    IN
    /\ bitasset' = update_bitasset_current_feed(fed, calls, block)
    /\ UNCHANGED <<block, calls, bal, core, voted>>

\* asset_update_bitasset: the median is recomputed when the lifetime or the minimum
\* changes, the effective feed alone when only the method changes to or from
\* no_settlement.
UpdateOptions(m, life, min) ==
    LET ba == [bitasset EXCEPT !.method = m, !.life = life, !.min = min] IN
    IF life # bitasset.life \/ min # bitasset.min
    THEN update_bitasset_current_feed(ba, calls, block)
    ELSE IF "no_settlement" \in {m, bitasset.method}
    THEN SkipMedianUpdate(ba, calls)
    ELSE ba

asset_update_bitasset(m, life, min) ==
    /\ <<m, life, min>> # <<bitasset.method, bitasset.life, bitasset.min>>
    /\ bitasset' = UpdateOptions(m, life, min)
    /\ UNCHANGED <<block, calls, bal, core, voted>>

\* asset_update_feed_producers: the feeds of those who are no producers any more go.
asset_update_feed_producers(S) ==
    /\ ~Fed
    /\ \E p \in Producers \ S : bitasset.feeds[p].time # 0
    /\ bitasset' = update_bitasset_current_feed(
                     [bitasset EXCEPT !.feeds = [p \in Producers |->
                         IF p \in S THEN @[p] ELSE [time |-> 0, price |-> Null]]],
                     calls, block)
    /\ UNCHANGED <<block, calls, bal, core, voted>>

refresh_scheduled_feeds(ba, b) ==
    IF b % RefreshBlocks = 0 THEN update_bitasset_current_feed(ba, calls, b) ELSE ba

\* process_bitassets at maintenance: expired feeds of witnesses or committee members are
\* erased, the effective feed is not recomputed.
process_bitassets(ba, b) ==
    IF Fed /\ b % MaintBlocks = 0
    THEN [ba EXCEPT !.feeds = [p \in Producers |->
             IF @[p].time < b - ba.life THEN [time |-> 0, price |-> Null] ELSE @[p]]]
    ELSE ba

feed_is_expired(ba, b) == ba.pub + ba.life <= b

update_expired_feeds(ba, b) ==
    IF feed_is_expired(ba, b) THEN update_bitasset_current_feed(ba, calls, b) ELSE ba

\* A block without operations: scheduled refresh, maintenance, expiry.
Block ==
    /\ block < MaxBlock
    /\ block' = block + 1
    /\ bitasset' = update_expired_feeds(
                     process_bitassets(
                       refresh_scheduled_feeds(bitasset, block'), block'), block')
    /\ UNCHANGED <<calls, bal, core, voted>>

-----------------------------------------------------------------------------
\* asset_create (GOLD gets its feed at once) by an issuer with the first options.
Init ==
    LET ba(m, life, min) ==
          [feeds |-> [p \in Producers |-> [time |-> 0, price |-> Null]],
           median |-> Null, current |-> Null, pub |-> 1,
           method |-> m, life |-> life, min |-> min]
    IN
    /\ block = 1
    /\ \E m \in Methods, life \in Lifetimes, min \in MinFeeds :
          bitasset = IF IsGold THEN update_bitasset_current_feed(
                                      ba(m, life, min),
                                      [a \in Accounts |-> [debt |-> 0, coll |-> 0]], 1)
                     ELSE ba(m, life, min)
    /\ calls = [a \in Accounts |-> [debt |-> 0, coll |-> 0]]
    /\ bal = [a \in Accounts |-> 0]
    /\ core = [a \in Accounts |-> StartCore]
    /\ voted = [a \in Accounts |-> 0]

Next ==
    \/ \E a \in Accounts, dd \in DebtDeltas, dc \in CollDeltas : UpdatePosition(a, dd, dc)
    \/ \E a \in Accounts : ClosePosition(a)
    \/ \E a, b \in Accounts : \E x \in 1..MaxSupply : Transfer(a, b, x)
    \/ \E a \in Accounts : CastVote(a)
    \/ \E p \in Producers, x \in FeedPrices : asset_publish_feed(p, x)
    \/ \E m \in Methods, life \in Lifetimes, min \in MinFeeds : asset_update_bitasset(m, life, min)
    \/ \E S \in SUBSET Producers : asset_update_feed_producers(S)
    \/ Block

Spec == Init /\ [][Next]_vars

-----------------------------------------------------------------------------
(* Properties *)

TypeOK ==
    /\ block \in 1..MaxBlock
    /\ bitasset.method \in Methods
    /\ {bitasset.median.unit, bitasset.current.unit} \subseteq {"null", "core", "gold"}
    /\ \A p \in Producers : bitasset.feeds[p].time \in 0..block
    /\ bitasset.pub \in 0..block
    /\ \A a \in Accounts : /\ calls[a].debt \in Nat
                           /\ calls[a].coll \in Nat
                           /\ bal[a] \in Nat
                           /\ core[a] \in Nat
                           /\ voted[a] \in 0..block

\* What the feeds alive now say the coin is worth in CORE, independently of when and by
\* which path the object's fields were computed.
Worth(p) == multiply_feed_prices(bitasset.feeds[p].price, GoldPerCore(block))

\* The effective feed is never stale and never an outlier: whenever operations can be
\* applied it is null exactly when too few feeds are alive, and otherwise at least half
\* of the feeds alive now, at the anchor price of now, are at or below it and at least
\* half at or above it; GOLD's is the anchor price itself.  It is kept so by publishing,
\* expiry, the scheduled refresh and the changes of options and producers together.
FeedOfTheMoment ==
    LET S == Live(bitasset, block)
        cur == bitasset.current
        atOrBelow == {p \in S : ~PriceLess(cur, Worth(p))}
        atOrAbove == {p \in S : ~PriceLess(Worth(p), cur)}
    IN
    IF IsGold THEN PriceEq(cur, Price("core", GoldPerCore(block)))
    ELSE /\ cur = Null <=> Cardinality(S) < bitasset.min
         /\ cur # Null => /\ 2 * Cardinality(atOrBelow) >= Cardinality(S)
                          /\ 2 * Cardinality(atOrAbove) >= Cardinality(S)

\* The effective feed of a managed coin is in CORE, as the README and the feed policy say
\* (TARGET/DFS in current_feed), whatever the black swan response method.
\* It does not hold: see "Other disagreements" in the README.
EffectiveInCore == bitasset.current.unit # "gold"

\* The debt of each account, and the CORE that it has or gave as collateral.
DebtOf == [a \in Accounts |-> calls[a].debt]
CoreOf == [a \in Accounts |-> core[a] + calls[a].coll]

\* Supply equals debt, and collateral is exactly what borrowers gave: no update of a
\* position, in whatever order with transfers of the coin, mints coin without debt or
\* loses CORE.
Backed ==
    /\ supply = SumOver(DebtOf, Accounts)
    /\ SumOver(CoreOf, Accounts) = StartCore * Cardinality(Accounts)

\* A step that adds debt to a position or takes collateral out of it leaves the position
\* closed or covered at least twice at what the feeds alive now are worth, so a stale,
\* capped or converted feed never lets anybody borrow too much.
RiskyStep ==
    \A a \in Accounts :
      (\/ calls'[a].debt > calls[a].debt
       \/ calls'[a].coll < calls[a].coll)
      => \/ calls'[a].debt = 0
         \/ /\ ~IsGold
            /\ LET S == Live(bitasset, block) IN
               2 * Cardinality({p \in S : Covers(calls'[a], 2, Worth(p))}) >= Cardinality(S)
         \/ /\ IsGold
            /\ Covers(calls'[a], 2, Price("core", GoldPerCore(block)))

\* Every step is of that kind.
RiskOnlyAboveICR == [][RiskyStep]_vars

\* Whoever adds collateral to a position that has fallen below 2.0, or repays part of it,
\* is never refused for what is left being below 2.0 (the policy calls it repair-only: a
\* position must not get stuck).
RepairNeverRefused ==
    \A a \in Accounts : \A dd \in DebtDeltas, dc \in CollDeltas :
        /\ bitasset.current # Null
        /\ calls[a].debt + dd > 0
        /\ ~MeetsICR(calls[a], bitasset.current)
        /\ dd <= 0 /\ dc >= 0
        /\ dd # 0 \/ dc # 0
        /\ bal[a] + dd >= 0
        /\ core[a] - dc >= 0
        => Accepted(a, dd, dc)

\* Positions are backed, may be repaired and may not be made too risky.
DebtSound == [](Backed /\ RepairNeverRefused) /\ RiskOnlyAboveICR
=============================================================================
