------------------------------ MODULE MCMarkets ------------------------------
(***************************************************************************)
(* The markets, each in small instances of its own.  A behaviour is one of *)
(* one market: part says of which, and the others stand still.             *)
(***************************************************************************)
EXTENDS Integers, Sequences, FiniteSets, TLC

CONSTANTS a1, a2   \* traders that cannot be told apart

VARIABLES
  part,
  db, mNow, mOps,
  block, bitasset, calls, fBal, fCore, voted

mVars == <<db, mNow, mOps>>
fVars == <<block, bitasset, calls, fBal, fCore, voted>>
vars == <<part, mVars, fVars>>

Traders == Permutations({a1, a2})

NoAction == [spread |-> 0, size |-> 0, repeat |-> FALSE, fee |-> "core"]

-----------------------------------------------------------------------------
\* Orders of two traders without automatic actions, fees in both assets.
M == INSTANCE LimitMarket WITH
  Accounts <- {a1, a2}, Core <- "core", Coin <- "coin", Supply <- 6, InitialPool <- 4,
  Offers <- {<<3, 5>>, <<3, 1>>, <<5, 3>>}, OnFills <- {NoAction}, Deltas <- {0, -1},
  FeeOffers <- {[asset |-> "core", amount |-> 2], [asset |-> "coin", amount |-> 3]},
  CreateFee <- 2, UpdateFee <- 1, CancelFee <- 1, CoinPerCore <- <<2, 3>>,
  MakerPercent <- 3, TakerPercent <- 5, MaxMarketFee <- 1, NetworkPercent <- 4,
  RewardPercent <- 5, ReferrerPercent <- 5, MakerDiscount <- 5, Percent100 <- 10,
  Blacklistable <- {}, MaxOrders <- 3, MaxOps <- 4, MaxTime <- 1,
  now <- mNow, ops <- mOps

\* Orders that send a take-profit order when filled, and link to it.
R == INSTANCE LimitMarket WITH
  Accounts <- {"a", "b"}, Core <- "core", Coin <- "coin", Supply <- 9, InitialPool <- 4,
  Offers <- {<<1, 1>>, <<4, 4>>},
  OnFills <- {NoAction, [spread |-> 5, size |-> 10, repeat |-> TRUE, fee |-> "core"]}, Deltas <- {0},
  FeeOffers <- {[asset |-> "core", amount |-> 1]},
  CreateFee <- 1, UpdateFee <- 1, CancelFee <- 1, CoinPerCore <- <<1, 1>>,
  MakerPercent <- 3, TakerPercent <- 5, MaxMarketFee <- 1, NetworkPercent <- 4,
  RewardPercent <- 5, ReferrerPercent <- 5, MakerDiscount <- 5, Percent100 <- 10,
  Blacklistable <- {"a"}, MaxOrders <- 3, MaxOps <- 3, MaxTime <- 1,
  now <- mNow, ops <- mOps

\* The feeds of three producers, options and anchor prices that change.
F == INSTANCE Smartcoin WITH
  Accounts <- {}, Producers <- {"p", "q", "r"}, IsGold <- FALSE, Fed <- FALSE, NoBorrowing <- {},
  FeedPrices <- {<<1, 1>>, <<2, 1>>, <<1, 2>>}, GoldPrice <- [k \in 0..3 |-> <<k + 1, 1>>],
  RefreshBlocks <- 2, MaintBlocks <- 3,
  Methods <- {"global_settlement", "individual_settlement_to_order"},
  Lifetimes <- {2, 3}, MinFeeds <- {1, 2}, VoteLife <- 2, SqueezeRatio <- 11,
  DebtDeltas <- {}, CollDeltas <- {}, StartCore <- 0, MaxSupply <- 0, MaxBlock <- 4,
  bal <- fBal, core <- fCore

\* The same coin fed by witnesses.
E == INSTANCE Smartcoin WITH
  Accounts <- {}, Producers <- {"p", "q", "r"}, IsGold <- FALSE, Fed <- TRUE, NoBorrowing <- {},
  FeedPrices <- {<<1, 1>>, <<2, 1>>, <<1, 2>>}, GoldPrice <- [k \in 0..3 |-> <<k + 1, 1>>],
  RefreshBlocks <- 2, MaintBlocks <- 3,
  Methods <- {"global_settlement", "individual_settlement_to_order"},
  Lifetimes <- {2, 3}, MinFeeds <- {1, 2}, VoteLife <- 2, SqueezeRatio <- 11,
  DebtDeltas <- {}, CollDeltas <- {}, StartCore <- 0, MaxSupply <- 0, MaxBlock <- 4,
  bal <- fBal, core <- fCore

\* Debt positions of two accounts under one feed.
D == INSTANCE Smartcoin WITH
  Accounts <- {"a", "b"}, Producers <- {"p"}, IsGold <- FALSE, Fed <- TRUE, NoBorrowing <- {},
  FeedPrices <- {<<2, 1>>, <<1, 1>>}, GoldPrice <- [k \in 0..3 |-> <<k + 2, 2>>],
  RefreshBlocks <- 2, MaintBlocks <- 3, Methods <- {"global_settlement"},
  Lifetimes <- {2}, MinFeeds <- {1}, VoteLife <- 2, SqueezeRatio <- 11,
  DebtDeltas <- -2..2, CollDeltas <- {-2, -1, 0, 2, 3}, StartCore <- 5, MaxSupply <- 4, MaxBlock <- 3,
  bal <- fBal, core <- fCore

\* GOLD itself, whose feed is the anchor price; it cannot be borrowed in block 2.
G == INSTANCE Smartcoin WITH
  Accounts <- {"a", "b"}, Producers <- {"p"}, IsGold <- TRUE, Fed <- FALSE, NoBorrowing <- {2},
  FeedPrices <- {<<2, 1>>, <<1, 1>>}, GoldPrice <- [k \in 0..3 |-> <<k + 2, 2>>],
  RefreshBlocks <- 2, MaintBlocks <- 3, Methods <- {"global_settlement", "no_settlement"},
  Lifetimes <- {2}, MinFeeds <- {1}, VoteLife <- 2, SqueezeRatio <- 11,
  DebtDeltas <- {-1, 1}, CollDeltas <- -1..2, StartCore <- 4, MaxSupply <- 3, MaxBlock <- 3,
  bal <- fBal, core <- fCore

\* The instances meet what the modules assume.
ASSUME MarketsAssumption ==
  /\ M!MarketAssumption /\ R!MarketAssumption
  /\ F!SmartcoinAssumption /\ E!SmartcoinAssumption /\ D!SmartcoinAssumption /\ G!SmartcoinAssumption
  /\ F!Undistorted /\ E!Undistorted /\ D!Undistorted /\ G!Undistorted

-----------------------------------------------------------------------------
\* A part that is not run stands still in one of its initial states.
Init ==
  /\ part \in {"orders", "profit", "feeds", "fed", "debt", "gold"}
  /\ IF part = "profit" THEN R!Init ELSE M!Init
  /\ CASE part = "feeds" -> F!Init [] part = "fed" -> E!Init [] part = "gold" -> G!Init [] OTHER -> D!Init

Next ==
  /\ UNCHANGED part
  /\ IF part = "orders" THEN M!Next
     ELSE IF part = "profit" THEN R!Next
     ELSE UNCHANGED mVars
  /\ IF part = "feeds" THEN F!Next
     ELSE IF part = "fed" THEN E!Next
     ELSE IF part = "debt" THEN D!Next
     ELSE IF part = "gold" THEN G!Next
     ELSE UNCHANGED fVars

Spec == Init /\ [][Next]_vars

-----------------------------------------------------------------------------
(* Properties: those of the part that is run, as its module defines them.      *)

\* No market creates or destroys an amount or lets a balance become negative: the
\* roundings of matches, the shares of market fees, deferred fees and their
\* refunds add up.
Conserved ==
  CASE part = "orders" -> M!TypeOK /\ M!Conserved
    [] part = "profit" -> R!TypeOK /\ R!Conserved
    [] part = "feeds" -> F!TypeOK
    [] part = "fed" -> E!TypeOK
    [] part = "debt" -> D!TypeOK
    [] part = "gold" -> G!TypeOK

\* A fill gives something for something at the order's limit to within a unit
\* (match_limit_normal_limit), no crossed book is left behind (apply_order), none
\* of the assertions called impossible fires, and orders are filled by price and
\* then by age.
MatchingFair ==
  [](part = "orders" => M!FillsWithinLimit /\ M!BookUncrossed /\ M!NoInternalError) /\ M!PriorityKept

\* take_profit_order_id never dangles: linked orders point at each other whatever
\* fills, culls, updates, cancellations and expiries did to either of them; the
\* book stays uncrossed and total_core_in_orders exact all the while.
LinksMutual == part = "profit" => R!LinksMutual /\ R!BookUncrossed /\ R!CoreInOrdersExact

\* The effective feed is the median of the feeds alive now at the anchor price of
\* now, or null when they are too few; GOLD's is the anchor price
\* (update_bitasset_current_feed, update_expired_feeds, refresh_scheduled_feeds).
FeedOfTheMoment ==
  /\ part = "feeds" => F!FeedOfTheMoment
  /\ part = "fed" => E!FeedOfTheMoment
  /\ part = "gold" => G!FeedOfTheMoment

\* The supply of a coin is its debt, collateral is what borrowers gave, whoever
\* repairs a position that has fallen below 2.0 is never refused, and a step that
\* makes a position riskier leaves it covered twice at what the coin is worth now
\* (call_order_update_evaluator).
DebtSound ==
  /\ [](part = "debt" => D!Backed /\ D!RepairNeverRefused)
  /\ [](part = "gold" => G!Backed /\ G!RepairNeverRefused)
  /\ [][(part = "debt" => D!RiskyStep) /\ (part = "gold" => G!RiskyStep)]_vars
==============================================================================
