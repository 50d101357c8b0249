---------------------------- MODULE LockupProofs ----------------------------
(***************************************************************************)
(* Proofs about what accounts give away for a while: SametFund, for any    *)
(* finite set of accounts, any number of funds and any depth of nested     *)
(* sessions, Ticket, for any accounts, amounts and steps of time, and      *)
(* Vesting, for any accounts, policies, fees, shares and periods.          *)
(***************************************************************************)
EXTENDS SametFund, DataLemmas

\* Tickets, with constants and variables of their own.
CONSTANTS
  Holders, TicketSupply, TicketAmounts, Steps, ChargingStep, CancelTime, DowngradeTime, ForeverStep,
  MaxTickets, TicketTime, TicketUpdates

VARIABLES tBalance, tickets, tNext, stats, totals, tNow, cause, concerned, tUpdates

T == INSTANCE Ticket WITH
  Accounts <- Holders, Supply <- TicketSupply, Amounts <- TicketAmounts, MaxTime <- TicketTime,
  MaxUpdates <- TicketUpdates,
  balance <- tBalance, next <- tNext, now <- tNow, updates <- tUpdates

\* Vesting balances, with constants and variables of their own.
CONSTANTS
  Members, VestingSupply, Reserved, Payer, Referrer, LifetimeReferrer, Registrar, MemberUntil,
  NetworkCut, LifetimeCut, ReferrerCut, Fees, Threshold, VestingAmounts, Cliff, VestingDuration,
  VestingPeriods, GenesisVesting, Day, VestingTime, MaxFees, MaxCreated, VestingChanges
VARIABLES
  vBalance, vbs, cashback, vPending, referrer, accumulated, burned, period, genesis,
  vNow, vFees, vCreated, vChanges
V == INSTANCE Vesting WITH
  Accounts <- Members, Supply <- VestingSupply, Amounts <- VestingAmounts, Duration <- VestingDuration,
  Genesis <- GenesisVesting, MaxTime <- VestingTime, MaxChanges <- VestingChanges,
  balance <- vBalance, pending <- vPending, now <- vNow, fees <- vFees, created <- vCreated,
  changes <- vChanges

-----------------------------------------------------------------------------
(* SameT funds: the inductive invariant.                                   *)

Fund == [owner : Accounts, balance : Nat, rate : Nat, unpaid : Nat]

\* What State and the saved states are.
States == [bal : [Accounts -> Nat], funds : Maps(Fund), put : Maps(Int), due : Maps(Int)]

\* Of the funds of s, created up to number n, each has what it should, and all
\* amounts add up.
Sound(s, n) ==
  /\ DOMAIN s.funds \subseteq 1..n
  /\ DOMAIN s.funds \subseteq DOMAIN s.put /\ DOMAIN s.funds \subseteq DOMAIN s.due
  /\ \A f \in DOMAIN s.funds :
       /\ FundOK(s.funds[f])
       /\ (s.funds[f].balance - s.put[f]) * RateDenom >= s.due[f]
  /\ Total(s) = Wealth * Cardinality(Accounts)

Repaid(s) == \A f \in DOMAIN s.funds : s.funds[f].unpaid = 0

\* The state now and every state that a session restores are sound; in the
\* outermost one, and now if there is no session, nothing is lent.
IInv ==
  /\ created \in Nat
  /\ State \in States
  /\ sessions \in Seq(States) /\ Len(sessions) <= MaxNesting
  /\ Sound(State, created)
  /\ \A i \in 1..Len(sessions) : Sound(sessions[i], created)
  /\ sessions = <<>> => Repaid(State)
  /\ sessions # <<>> => Repaid(sessions[1])

-----------------------------------------------------------------------------
(* Lemmas.                                                                 *)

\* Free amounts of funds.
LEMMA FreeType ==
  ASSUME NEW fs \in Maps(Fund), NEW n \in Nat, DOMAIN fs \subseteq 1..n
  PROVE  /\ IsFiniteSet(DOMAIN fs)
         /\ \A f \in DOMAIN fs : Free(fs)[f] = fs[f].balance - fs[f].unpaid /\ Free(fs)[f] \in Int
         /\ SumOver(Free(fs), DOMAIN fs) \in Int
<1>1. IsFiniteSet(1..n)
  BY FS_Interval
<1>2. IsFiniteSet(DOMAIN fs)
  BY <1>1, FS_Subset
<1>3. \A f \in DOMAIN fs : Free(fs)[f] = fs[f].balance - fs[f].unpaid /\ Free(fs)[f] \in Int
  BY DEF Free, Maps, Fund
<1> QED
  BY <1>2, <1>3, SumType

\* A balance changes.
LEMMA BalanceChanges ==
  ASSUME SametAssumption, NEW b \in [Accounts -> Nat], NEW a \in Accounts, NEW v \in Nat
  PROVE  /\ [b EXCEPT ![a] = v] \in [Accounts -> Nat]
         /\ SumOver([b EXCEPT ![a] = v], Accounts) = SumOver(b, Accounts) + v - b[a]
         /\ SumOver(b, Accounts) \in Int
<1> DEFINE c == [b EXCEPT ![a] = v]
<1>1. c \in [Accounts -> Nat] /\ c[a] = v /\ \A x \in Accounts \ {a} : b[x] = c[x]
  OBVIOUS
<1>2. IsFiniteSet(Accounts)
  BY DEF SametAssumption
<1>3. \A x \in Accounts : b[x] \in Int /\ c[x] \in Int
  BY <1>1
<1> HIDE DEF c
<1>4. SumOver(c, Accounts) = SumOver(b, Accounts) + c[a] - b[a]
  BY <1>1, <1>2, <1>3, SumChange
<1>5. SumOver(b, Accounts) \in Int
  BY <1>2, <1>3, SumType
<1> QED
  BY <1>1, <1>4, <1>5 DEF c

\* A fund changes.
LEMMA FundChanges ==
  ASSUME NEW fs \in Maps(Fund), NEW n \in Nat, DOMAIN fs \subseteq 1..n,
         NEW f \in DOMAIN fs, NEW r \in Fund
  PROVE  /\ [fs EXCEPT ![f] = r] \in Maps(Fund)
         /\ DOMAIN [fs EXCEPT ![f] = r] = DOMAIN fs
         /\ SumOver(Free([fs EXCEPT ![f] = r]), DOMAIN fs)
            = SumOver(Free(fs), DOMAIN fs) + (r.balance - r.unpaid) - (fs[f].balance - fs[f].unpaid)
<1> DEFINE D == DOMAIN fs
           gs == [fs EXCEPT ![f] = r]
<1>1. fs \in [D -> Fund] /\ D \in SUBSET Nat
  BY DEF Maps
<1>2. gs \in [D -> Fund] /\ gs[f] = r /\ \A x \in D \ {f} : gs[x] = fs[x]
  BY <1>1
<1>3. gs \in Maps(Fund) /\ DOMAIN gs = D
  BY <1>1, <1>2 DEF Maps
<1> HIDE DEF gs
<1>4. /\ IsFiniteSet(D)
      /\ \A x \in D : Free(fs)[x] = fs[x].balance - fs[x].unpaid /\ Free(fs)[x] \in Int
      /\ \A x \in D : Free(gs)[x] = gs[x].balance - gs[x].unpaid /\ Free(gs)[x] \in Int
  BY <1>3, FreeType
<1>5. \A x \in D \ {f} : Free(fs)[x] = Free(gs)[x]
  BY <1>2, <1>4
<1>6. SumOver(Free(gs), D) = SumOver(Free(fs), D) + Free(gs)[f] - Free(fs)[f]
  BY <1>4, <1>5, SumChange
<1> QED
  BY <1>2, <1>3, <1>4, <1>6 DEF gs

\* A fund is created.
LEMMA FundPut ==
  ASSUME NEW fs \in Maps(Fund), NEW n \in Nat, DOMAIN fs \subseteq 1..n, NEW r \in Fund,
         NEW k, k = n + 1, NEW gs, gs = Put(fs, k, r)
  PROVE  /\ gs \in Maps(Fund)
         /\ DOMAIN gs = DOMAIN fs \cup {k}
         /\ DOMAIN gs \subseteq 1..k
         /\ gs[k] = r
         /\ \A x \in DOMAIN fs : gs[x] = fs[x] /\ x # k
         /\ SumOver(Free(gs), DOMAIN gs)
            = SumOver(Free(fs), DOMAIN fs) + (r.balance - r.unpaid)
<1> DEFINE D == DOMAIN fs
<1>1. fs \in [D -> Fund] /\ D \in SUBSET Nat /\ k \notin D
  BY DEF Maps
<1>2. /\ gs \in [D \cup {k} -> Fund] /\ gs[k] = r
      /\ \A x \in D : gs[x] = fs[x] /\ x # k
  BY <1>1 DEF Put
<1>3. gs \in Maps(Fund) /\ DOMAIN gs = D \cup {k} /\ DOMAIN gs \subseteq 1..k
  BY <1>1, <1>2 DEF Maps
<1>4. /\ IsFiniteSet(D)
      /\ \A x \in D : Free(fs)[x] = fs[x].balance - fs[x].unpaid
  BY FreeType
<1>5. \A x \in D \cup {k} : Free(gs)[x] = gs[x].balance - gs[x].unpaid /\ Free(gs)[x] \in Int
  BY <1>3, FreeType
<1>6. SumOver(Free(gs), D \cup {k}) = Free(gs)[k] + SumOver(Free(gs), D)
  BY <1>1, <1>4, <1>5, SumAdd, ZenonT(60)
<1>7. SumOver(Free(gs), D) = SumOver(Free(fs), D)
  <2>1. \A x \in D : Free(gs)[x] = Free(fs)[x]
    BY <1>2, <1>4, <1>5
  <2> QED
    BY <1>4, <2>1, SumSame
<1>8. SumOver(Free(fs), D) \in Int
  BY FreeType
<1>9. SumOver(Free(gs), DOMAIN gs) = SumOver(Free(fs), D) + (r.balance - r.unpaid)
  <2>1. Free(gs)[k] = r.balance - r.unpaid /\ r.balance - r.unpaid \in Int
    BY <1>2, <1>5
  <2> QED
    BY <1>3, <1>6, <1>7, <1>8, <2>1
<1> QED
  BY <1>2, <1>3, <1>9 

\* A fund is deleted.
LEMMA FundWithout ==
  ASSUME NEW fs \in Maps(Fund), NEW n \in Nat, DOMAIN fs \subseteq 1..n, NEW f \in DOMAIN fs
  PROVE  /\ Without(fs, f) \in Maps(Fund)
         /\ DOMAIN Without(fs, f) = DOMAIN fs \ {f}
         /\ \A x \in DOMAIN fs \ {f} : Without(fs, f)[x] = fs[x]
         /\ SumOver(Free(Without(fs, f)), DOMAIN Without(fs, f))
            = SumOver(Free(fs), DOMAIN fs) - (fs[f].balance - fs[f].unpaid)
<1> DEFINE D == DOMAIN fs
           gs == Without(fs, f)
<1>1. fs \in [D -> Fund] /\ D \in SUBSET Nat
  BY DEF Maps
<1>2. gs \in [D \ {f} -> Fund] /\ \A x \in D \ {f} : gs[x] = fs[x]
  BY <1>1 DEF Without, Restrict
<1>3. gs \in Maps(Fund) /\ DOMAIN gs = D \ {f} /\ DOMAIN gs \subseteq 1..n
  BY <1>1, <1>2 DEF Maps
<1> HIDE DEF gs
<1>4. /\ IsFiniteSet(D)
      /\ \A x \in D : Free(fs)[x] = fs[x].balance - fs[x].unpaid /\ Free(fs)[x] \in Int
      /\ SumOver(Free(fs), D) \in Int
  BY FreeType
<1>5. /\ IsFiniteSet(D \ {f})
      /\ \A x \in D \ {f} : Free(gs)[x] = gs[x].balance - gs[x].unpaid
      /\ SumOver(Free(gs), D \ {f}) \in Int
  BY <1>3, FreeType
<1>6. SumOver(Free(fs), D) = Free(fs)[f] + SumOver(Free(fs), D \ {f})
  BY <1>4, SumRemove
<1>7. SumOver(Free(gs), D \ {f}) = SumOver(Free(fs), D \ {f})
  <2>1. \A x \in D \ {f} : Free(gs)[x] = Free(fs)[x]
    BY <1>2, <1>4, <1>5
  <2> QED
    BY <1>5, <2>1, SumSame
<1>8. SumOver(Free(gs), DOMAIN gs) = SumOver(Free(fs), D) - (fs[f].balance - fs[f].unpaid)
  BY <1>3, <1>4, <1>5, <1>6, <1>7
<1> QED
  BY <1>2, <1>3, <1>8 DEF gs

\* The fee of a repayment is at least its exact share.
LEMMA FeeCovers ==
  ASSUME SametAssumption, NEW n \in Nat, NEW f, funds[f].rate \in Nat
  PROVE  /\ RequiredFee(f, n) \in Nat
         /\ n * funds[f].rate <= RequiredFee(f, n) * RateDenom
<1> DEFINE p == n * funds[f].rate
           q == (p + RateDenom - 1) \div RateDenom
<1>1. p \in Nat /\ RateDenom \in Nat \ {0}
  BY MulNat DEF SametAssumption
<1>2. RequiredFee(f, n) = q
  BY DEF RequiredFee, CeilDiv
<1> HIDE DEF p
<1>3. q \in Nat /\ p <= RateDenom * q
  BY <1>1, CeilFloor
<1> HIDE DEF q
<1>4. RateDenom * q = q * RateDenom
  BY <1>1, <1>3
<1> QED
  BY <1>2, <1>3, <1>4 DEF p

\* States that are sound stay so when more funds are created.
LEMMA SoundLater ==
  ASSUME NEW s, NEW n \in Nat, NEW m \in Nat, n <= m, Sound(s, n)
  PROVE  Sound(s, m)
<1>1. 1..n \subseteq 1..m
  OBVIOUS
<1> QED
  BY <1>1 DEF Sound

\* An operation keeps the sessions; it is enough that the new state is sound.
LEMMA OperationKeeps ==
  ASSUME IInv, Operates, created' \in Nat, created <= created',
         State' \in States, Sound(State', created')
  PROVE  IInv'
<1>1. sessions' = sessions /\ sessions # <<>>
  BY DEF Operates
<1>2. \A i \in 1..Len(sessions) : Sound(sessions[i], created')
  BY SoundLater DEF IInv
<1> QED
  BY <1>1, <1>2 DEF IInv, Sound, Repaid, Total

\* What the invariant says of the state now.
LEMMA Now ==
  ASSUME IInv
  PROVE  /\ bal \in [Accounts -> Nat] /\ funds \in Maps(Fund)
         /\ put \in Maps(Int) /\ due \in Maps(Int) /\ created \in Nat
         /\ DOMAIN funds \subseteq 1..created
         /\ DOMAIN funds \subseteq DOMAIN put /\ DOMAIN funds \subseteq DOMAIN due
         /\ \A f \in DOMAIN funds :
              /\ funds[f] \in Fund /\ FundOK(funds[f])
              /\ put[f] \in Int /\ due[f] \in Int
              /\ (funds[f].balance - put[f]) * RateDenom >= due[f]
         /\ SumOver(bal, Accounts) + SumOver(Free(funds), DOMAIN funds) = Wealth * Cardinality(Accounts)
<1>1. /\ bal \in [Accounts -> Nat] /\ funds \in Maps(Fund)
      /\ put \in Maps(Int) /\ due \in Maps(Int) /\ created \in Nat
  BY DEF IInv, State, States
<1>2. \A f \in DOMAIN funds : funds[f] \in Fund
  BY <1>1, MapType
<1>3. (\A f \in DOMAIN put : put[f] \in Int) /\ (\A f \in DOMAIN due : due[f] \in Int)
  BY <1>1, MapType
<1> QED
  BY <1>1, <1>2, <1>3 DEF IInv, Sound, Total, State

\* A changed map of integers.
LEMMA MapChanges ==
  ASSUME NEW m \in Maps(Int), NEW k \in DOMAIN m, NEW v \in Int
  PROVE  /\ [m EXCEPT ![k] = v] \in Maps(Int)
         /\ DOMAIN [m EXCEPT ![k] = v] = DOMAIN m
<1>1. m \in [DOMAIN m -> Int] /\ DOMAIN m \in SUBSET Nat
  BY DEF Maps
<1>2. [m EXCEPT ![k] = v] \in [DOMAIN m -> Int]
  BY <1>1
<1> QED
  BY <1>1, <1>2 DEF Maps

\* A new entry in a map of integers.
LEMMA MapPut ==
  ASSUME NEW m \in Maps(Int), NEW k \in Nat, NEW v \in Int
  PROVE  /\ Put(m, k, v) \in Maps(Int)
         /\ DOMAIN Put(m, k, v) = DOMAIN m \cup {k}
         /\ Put(m, k, v)[k] = v
         /\ \A x \in DOMAIN m : x # k => Put(m, k, v)[x] = m[x]
<1>1. m \in [DOMAIN m -> Int] /\ DOMAIN m \in SUBSET Nat
  BY DEF Maps
<1>2. Put(m, k, v) \in [DOMAIN m \cup {k} -> Int]
  BY <1>1 DEF Put
<1>3. Put(m, k, v) \in Maps(Int)
  BY <1>1, <1>2 DEF Maps
<1> QED
  BY <1>3 DEF Put

-----------------------------------------------------------------------------
(* Every operation keeps the invariant.                                    *)

\* It is enough to look at the new values of the variables.
LEMMA NewStateSound ==
  ASSUME IInv, Operates, created' \in Nat, created <= created',
         bal' \in [Accounts -> Nat], funds' \in Maps(Fund), put' \in Maps(Int), due' \in Maps(Int),
         DOMAIN funds' \subseteq 1..created',
         DOMAIN funds' \subseteq DOMAIN put', DOMAIN funds' \subseteq DOMAIN due',
         \A f \in DOMAIN funds' : /\ FundOK(funds'[f])
                                  /\ (funds'[f].balance - put'[f]) * RateDenom >= due'[f],
         SumOver(bal', Accounts) + SumOver(Free(funds'), DOMAIN funds')
           = SumOver(bal, Accounts) + SumOver(Free(funds), DOMAIN funds)
  PROVE  IInv'
<1>1. State' \in States
  BY DEF State, States
<1>2. Sound(State', created')
  BY Now DEF State, Sound, Total
<1> QED
  BY <1>1, <1>2, OperationKeeps

\* A new fund takes its amount from the owner.
LEMMA CreateKeeps ==
  ASSUME SametAssumption, IInv, NEW a \in Accounts, NEW n \in Amounts, NEW rate \in Rates,
         samet_fund_create(a, n, rate)
  PROVE  IInv'
<1> DEFINE r == [owner |-> a, balance |-> n, rate |-> rate, unpaid |-> 0]
           k == created + 1
<1>1. n \in Nat \ {0} /\ rate \in Nat /\ RateDenom \in Nat \ {0}
  BY DEF SametAssumption
<1>2. r \in Fund /\ r.balance = n /\ r.unpaid = 0
  BY <1>1 DEF Fund
<1>3. /\ Operates /\ created' = k /\ bal[a] >= n
      /\ bal' = [bal EXCEPT ![a] = bal[a] - n]
      /\ funds' = Put(funds, k, r) /\ put' = Put(put, k, n) /\ due' = Put(due, k, 0)
  BY DEF samet_fund_create
<1> HIDE DEF r
<1>4. k \in Nat /\ created <= k
  BY Now
<1>5. /\ bal' \in [Accounts -> Nat]
      /\ SumOver(bal', Accounts) = SumOver(bal, Accounts) - n
      /\ SumOver(bal, Accounts) \in Int
  <2> DEFINE v == bal[a] - n
  <2>1. v \in Nat /\ bal[a] \in Nat /\ bal \in [Accounts -> Nat]
    BY <1>1, <1>3, Now
  <2>2. bal' = [bal EXCEPT ![a] = v] /\ v = bal[a] - n
    BY <1>3
  <2> HIDE DEF v
  <2>3. /\ bal' \in [Accounts -> Nat] /\ SumOver(bal, Accounts) \in Int
        /\ SumOver(bal', Accounts) = SumOver(bal, Accounts) + v - bal[a]
    BY <2>1, <2>2, BalanceChanges
  <2> QED
    BY <1>1, <2>1, <2>2, <2>3
<1>6. /\ funds' \in Maps(Fund) /\ DOMAIN funds' = DOMAIN funds \cup {k} /\ DOMAIN funds' \subseteq 1..k
      /\ funds'[k] = r /\ \A x \in DOMAIN funds : funds'[x] = funds[x] /\ x # k
      /\ SumOver(Free(funds'), DOMAIN funds') = SumOver(Free(funds), DOMAIN funds) + n
  <2>1. r.balance - r.unpaid = n
    BY <1>1, <1>2
  <2>2. funds \in Maps(Fund) /\ created \in Nat /\ DOMAIN funds \subseteq 1..created
    BY Now
  <2>3. k = created + 1
    OBVIOUS
  <2> HIDE DEF k
  <2> DEFINE gs == Put(funds, k, r)
  <2>6. gs = Put(funds, k, r)
    OBVIOUS
  <2> HIDE DEF gs
  <2>4. /\ gs \in Maps(Fund) /\ DOMAIN gs = DOMAIN funds \cup {k} /\ DOMAIN gs \subseteq 1..k
        /\ gs[k] = r /\ \A x \in DOMAIN funds : gs[x] = funds[x] /\ x # k
        /\ SumOver(Free(gs), DOMAIN gs) = SumOver(Free(funds), DOMAIN funds) + (r.balance - r.unpaid)
    BY ONLY <1>2, <2>2, <2>3, <2>6, FundPut
  <2>5. funds' = gs
    BY <1>3, <2>6
  <2> QED
    BY <2>1, <2>4, <2>5
<1>7. SumOver(Free(funds), DOMAIN funds) \in Int
  BY Now, FreeType
<1>8. /\ put' \in Maps(Int) /\ due' \in Maps(Int)
      /\ DOMAIN put' = DOMAIN put \cup {k} /\ DOMAIN due' = DOMAIN due \cup {k}
      /\ put'[k] = n /\ due'[k] = 0
      /\ \A x \in DOMAIN put : x # k => put'[x] = put[x]
      /\ \A x \in DOMAIN due : x # k => due'[x] = due[x]
  <2>1. put \in Maps(Int) /\ due \in Maps(Int) /\ n \in Int /\ 0 \in Int
    BY <1>1, Now
  <2> HIDE DEF k
  <2> QED
    BY <1>3, <1>4, <2>1, MapPut, ZenonT(60)
<1>9. ASSUME NEW f \in DOMAIN funds'
      PROVE  FundOK(funds'[f]) /\ (funds'[f].balance - put'[f]) * RateDenom >= due'[f]
  <2>1. CASE f = k
    BY <2>1, <1>1, <1>2, <1>6, <1>8 DEF FundOK
  <2>2. CASE f \in DOMAIN funds
    BY <2>2, <1>6, <1>8, Now
  <2> QED
    BY <1>6, <2>1, <2>2
<1>10. /\ DOMAIN funds' \subseteq 1..created'
       /\ DOMAIN funds' \subseteq DOMAIN put' /\ DOMAIN funds' \subseteq DOMAIN due'
  BY <1>3, <1>6, <1>8, Now
<1>11. SumOver(bal', Accounts) + SumOver(Free(funds'), DOMAIN funds')
         = SumOver(bal, Accounts) + SumOver(Free(funds), DOMAIN funds)
  BY <1>1, <1>5, <1>6, <1>7
<1> QED
  BY <1>3, <1>4, <1>5, <1>6, <1>8, <1>9, <1>10, <1>11, NewStateSound

\* A fund that is not lent returns to its owner.
LEMMA DeleteKeeps ==
  ASSUME SametAssumption, IInv, NEW f \in DOMAIN funds, samet_fund_delete(f)
  PROVE  IInv'
<1> DEFINE r == funds[f]
<1>1. r \in Fund /\ FundOK(r)
  BY Now
<1>2. /\ Operates /\ created' = created /\ r.unpaid = 0
      /\ bal' = [bal EXCEPT ![r.owner] = bal[r.owner] + r.balance]
      /\ funds' = Without(funds, f) /\ put' = put /\ due' = due
  BY DEF samet_fund_delete
<1>3. r.owner \in Accounts /\ r.balance \in Nat
  BY <1>1 DEF Fund
<1>4. /\ bal' \in [Accounts -> Nat]
      /\ SumOver(bal', Accounts) = SumOver(bal, Accounts) + r.balance
      /\ SumOver(bal, Accounts) \in Int
  <2> DEFINE v == bal[r.owner] + r.balance
  <2>1. v \in Nat /\ bal[r.owner] \in Nat /\ bal \in [Accounts -> Nat]
    BY <1>3, Now
  <2>2. bal' = [bal EXCEPT ![r.owner] = v] /\ v = bal[r.owner] + r.balance
    BY <1>2
  <2> HIDE DEF v, r
  <2>3. /\ bal' \in [Accounts -> Nat] /\ SumOver(bal, Accounts) \in Int
        /\ SumOver(bal', Accounts) = SumOver(bal, Accounts) + v - bal[r.owner]
    BY <1>3, <2>1, <2>2, BalanceChanges
  <2> QED
    BY <1>3, <2>1, <2>2, <2>3
<1>5. /\ funds' \in Maps(Fund) /\ DOMAIN funds' = DOMAIN funds \ {f}
      /\ \A x \in DOMAIN funds \ {f} : funds'[x] = funds[x]
      /\ SumOver(Free(funds'), DOMAIN funds') = SumOver(Free(funds), DOMAIN funds) - (r.balance - r.unpaid)
  BY <1>2, Now, FundWithout
<1>6. SumOver(Free(funds), DOMAIN funds) \in Int
  BY Now, FreeType
<1>7. SumOver(bal', Accounts) + SumOver(Free(funds'), DOMAIN funds')
         = SumOver(bal, Accounts) + SumOver(Free(funds), DOMAIN funds)
  BY <1>2, <1>3, <1>4, <1>5, <1>6
<1>8. \A g \in DOMAIN funds' : FundOK(funds'[g]) /\ (funds'[g].balance - put'[g]) * RateDenom >= due'[g]
  BY <1>2, <1>5, Now
<1>9. /\ DOMAIN funds' \subseteq 1..created'
      /\ DOMAIN funds' \subseteq DOMAIN put' /\ DOMAIN funds' \subseteq DOMAIN due'
      /\ put' \in Maps(Int) /\ due' \in Maps(Int) /\ created' \in Nat /\ created <= created'
  BY <1>2, <1>5, Now
<1> QED
  BY <1>2, <1>4, <1>5, <1>7, <1>8, <1>9, NewStateSound

\* The owner pays in or takes out.
LEMMA UpdateKeeps ==
  ASSUME SametAssumption, IInv, NEW f \in DOMAIN funds, NEW delta \in Int, samet_fund_update(f, delta)
  PROVE  IInv'
<1> DEFINE r == funds[f]
           q == [r EXCEPT !.balance = r.balance + delta]
           w == bal[r.owner] - delta
           v == put[f] + delta
<1>1. r \in Fund /\ FundOK(r) /\ r.owner \in Accounts /\ r.balance \in Nat /\ bal[r.owner] \in Nat
  BY Now DEF Fund
<1>2. /\ Operates /\ created' = created /\ r.unpaid = 0 /\ due' = due
      /\ delta > 0 => bal[r.owner] >= delta
      /\ delta < 0 => r.balance > -delta
      /\ bal' = [bal EXCEPT ![r.owner] = w]
      /\ funds' = [funds EXCEPT ![f] = q]
      /\ put' = [put EXCEPT ![f] = v]
  BY DEF samet_fund_update
<1>3. w \in Nat /\ v \in Int /\ w = bal[r.owner] - delta /\ v = put[f] + delta
  BY <1>1, <1>2, Now
<1>4. q \in Fund /\ q.balance = r.balance + delta /\ q.unpaid = 0 /\ q.balance > 0
  BY <1>1, <1>2 DEF Fund, FundOK
<1> HIDE DEF w, v, q
<1>5. /\ bal' \in [Accounts -> Nat]
      /\ SumOver(bal', Accounts) = SumOver(bal, Accounts) + w - bal[r.owner]
      /\ SumOver(bal, Accounts) \in Int
  <2>1. bal \in [Accounts -> Nat]
    BY Now
  <2> QED
    BY <1>1, <1>2, <1>3, <2>1, BalanceChanges
<1>6. /\ funds' \in Maps(Fund) /\ DOMAIN funds' = DOMAIN funds
      /\ SumOver(Free(funds'), DOMAIN funds')
         = SumOver(Free(funds), DOMAIN funds) + (q.balance - q.unpaid) - (r.balance - r.unpaid)
      /\ SumOver(Free(funds), DOMAIN funds) \in Int
  <2>1. funds \in Maps(Fund) /\ created \in Nat /\ DOMAIN funds \subseteq 1..created
    BY Now
  <2> QED
    BY <1>2, <1>4, <2>1, FundChanges, FreeType
<1>7. /\ put' \in Maps(Int) /\ DOMAIN put' = DOMAIN put /\ put'[f] = v
      /\ \A x \in DOMAIN put : x # f => put'[x] = put[x]
  <2>1. put \in Maps(Int) /\ f \in DOMAIN put
    BY Now
  <2> QED
    BY <1>2, <1>3, <2>1, MapChanges
<1>8. funds'[f] = q /\ \A x \in DOMAIN funds : x # f => funds'[x] = funds[x]
  BY <1>2
<1>9. ASSUME NEW g \in DOMAIN funds'
      PROVE  FundOK(funds'[g]) /\ (funds'[g].balance - put'[g]) * RateDenom >= due'[g]
  <2>1. CASE g = f
    <3>1. q.balance - v = r.balance - put[f]
      BY <1>1, <1>3, <1>4, Now
    <3> QED
      BY <2>1, <3>1, <1>2, <1>4, <1>7, <1>8, Now DEF FundOK, Fund
  <2>2. CASE g # f
    BY <2>2, <1>2, <1>6, <1>7, <1>8, Now
  <2> QED
    BY <2>1, <2>2
<1>10. /\ DOMAIN funds' \subseteq 1..created'
       /\ DOMAIN funds' \subseteq DOMAIN put' /\ DOMAIN funds' \subseteq DOMAIN due'
       /\ due' \in Maps(Int) /\ created' \in Nat /\ created <= created'
  BY <1>2, <1>6, <1>7, Now
<1>11. SumOver(bal', Accounts) + SumOver(Free(funds'), DOMAIN funds')
         = SumOver(bal, Accounts) + SumOver(Free(funds), DOMAIN funds)
  BY <1>1, <1>2, <1>3, <1>4, <1>5, <1>6
<1> QED
  BY <1>2, <1>5, <1>6, <1>7, <1>9, <1>10, <1>11, NewStateSound

\* A new fee rate moves nothing.
LEMMA UpdateRateKeeps ==
  ASSUME SametAssumption, IInv, NEW f \in DOMAIN funds, NEW rate \in Rates, samet_fund_update_rate(f, rate)
  PROVE  IInv'
<1> DEFINE r == funds[f]
           q == [r EXCEPT !.rate = rate]
<1>1. r \in Fund /\ FundOK(r) /\ rate \in Nat
  BY Now DEF SametAssumption
<1>2. /\ Operates /\ created' = created /\ due' = due /\ put' = put /\ bal' = bal
      /\ funds' = [funds EXCEPT ![f] = q]
  BY DEF samet_fund_update_rate
<1>3. q \in Fund /\ q.balance = r.balance /\ q.unpaid = r.unpaid /\ r.balance \in Nat /\ r.unpaid \in Nat
  BY <1>1 DEF Fund
<1> HIDE DEF q
<1>4. /\ funds' \in Maps(Fund) /\ DOMAIN funds' = DOMAIN funds
      /\ SumOver(Free(funds'), DOMAIN funds')
         = SumOver(Free(funds), DOMAIN funds) + (q.balance - q.unpaid) - (r.balance - r.unpaid)
      /\ SumOver(Free(funds), DOMAIN funds) \in Int
  <2>1. funds \in Maps(Fund) /\ created \in Nat /\ DOMAIN funds \subseteq 1..created
    BY Now
  <2> QED
    BY <1>2, <1>3, <2>1, FundChanges, FreeType
<1>5. funds'[f] = q /\ \A x \in DOMAIN funds : x # f => funds'[x] = funds[x]
  BY <1>2
<1>6. \A g \in DOMAIN funds' : FundOK(funds'[g]) /\ (funds'[g].balance - put'[g]) * RateDenom >= due'[g]
  BY <1>1, <1>2, <1>3, <1>4, <1>5, Now DEF FundOK
<1>7. /\ DOMAIN funds' \subseteq 1..created'
      /\ DOMAIN funds' \subseteq DOMAIN put' /\ DOMAIN funds' \subseteq DOMAIN due'
      /\ put' \in Maps(Int) /\ due' \in Maps(Int) /\ created' \in Nat /\ created <= created'
      /\ bal' \in [Accounts -> Nat]
  BY <1>2, <1>4, Now
<1>8. SumOver(bal', Accounts) + SumOver(Free(funds'), DOMAIN funds')
         = SumOver(bal, Accounts) + SumOver(Free(funds), DOMAIN funds)
  BY <1>2, <1>3, <1>4
<1> QED
  BY <1>2, <1>4, <1>6, <1>7, <1>8, NewStateSound

\* What is lent was free.
LEMMA BorrowKeeps ==
  ASSUME SametAssumption, IInv, NEW f \in DOMAIN funds, NEW a \in Accounts, NEW n \in Amounts,
         samet_fund_borrow(f, a, n)
  PROVE  IInv'
<1> DEFINE r == funds[f]
           q == [r EXCEPT !.unpaid = r.unpaid + n]
           w == bal[a] + n
<1>1. /\ r \in Fund /\ FundOK(r) /\ r.balance \in Nat /\ r.unpaid \in Nat /\ bal[a] \in Nat
      /\ n \in Nat \ {0}
  BY Now DEF SametAssumption, Fund
<1>2. /\ Operates /\ created' = created /\ due' = due /\ put' = put
      /\ r.balance >= r.unpaid + n
      /\ bal' = [bal EXCEPT ![a] = w]
      /\ funds' = [funds EXCEPT ![f] = q]
  BY DEF samet_fund_borrow
<1>3. w \in Nat /\ w = bal[a] + n
  BY <1>1
<1>4. q \in Fund /\ q.balance = r.balance /\ q.unpaid = r.unpaid + n /\ FundOK(q)
  BY <1>1, <1>2 DEF Fund, FundOK
<1> HIDE DEF w, q
<1>5. /\ bal' \in [Accounts -> Nat]
      /\ SumOver(bal', Accounts) = SumOver(bal, Accounts) + w - bal[a]
      /\ SumOver(bal, Accounts) \in Int
  <2>1. bal \in [Accounts -> Nat]
    BY Now
  <2> QED
    BY <1>2, <1>3, <2>1, BalanceChanges
<1>6. /\ funds' \in Maps(Fund) /\ DOMAIN funds' = DOMAIN funds
      /\ SumOver(Free(funds'), DOMAIN funds')
         = SumOver(Free(funds), DOMAIN funds) + (q.balance - q.unpaid) - (r.balance - r.unpaid)
      /\ SumOver(Free(funds), DOMAIN funds) \in Int
  <2>1. funds \in Maps(Fund) /\ created \in Nat /\ DOMAIN funds \subseteq 1..created
    BY Now
  <2> QED
    BY <1>2, <1>4, <2>1, FundChanges, FreeType
<1>7. funds'[f] = q /\ \A x \in DOMAIN funds : x # f => funds'[x] = funds[x]
  BY <1>2
<1>8. \A g \in DOMAIN funds' : FundOK(funds'[g]) /\ (funds'[g].balance - put'[g]) * RateDenom >= due'[g]
  BY <1>2, <1>4, <1>6, <1>7, Now
<1>9. /\ DOMAIN funds' \subseteq 1..created'
      /\ DOMAIN funds' \subseteq DOMAIN put' /\ DOMAIN funds' \subseteq DOMAIN due'
      /\ put' \in Maps(Int) /\ due' \in Maps(Int) /\ created' \in Nat /\ created <= created'
  BY <1>2, <1>6, Now
<1>10. SumOver(bal', Accounts) + SumOver(Free(funds'), DOMAIN funds')
         = SumOver(bal, Accounts) + SumOver(Free(funds), DOMAIN funds)
  BY <1>1, <1>3, <1>4, <1>5, <1>6
<1> QED
  BY <1>2, <1>5, <1>6, <1>8, <1>9, <1>10, NewStateSound

\* A repayment frees what was lent; its fee covers the exact share.
LEMMA RepayKeeps ==
  ASSUME SametAssumption, IInv, NEW f \in DOMAIN funds, NEW a \in Accounts, NEW n \in Amounts,
         samet_fund_repay(f, a, n)
  PROVE  IInv'
<1> DEFINE r == funds[f]
           fee == RequiredFee(f, n)
           q == [r EXCEPT !.balance = r.balance + fee, !.unpaid = r.unpaid - n]
           w == bal[a] - (n + fee)
           v == due[f] + n * r.rate
<1>1. /\ r \in Fund /\ FundOK(r) /\ r.balance \in Nat /\ r.unpaid \in Nat /\ r.rate \in Nat
      /\ bal[a] \in Nat /\ n \in Nat \ {0} /\ RateDenom \in Nat \ {0}
  BY Now DEF SametAssumption, Fund
<1>2. /\ Operates /\ created' = created /\ put' = put
      /\ n <= r.unpaid /\ bal[a] >= n + fee
      /\ bal' = [bal EXCEPT ![a] = w]
      /\ funds' = [funds EXCEPT ![f] = q]
      /\ due' = [due EXCEPT ![f] = v]
  BY DEF samet_fund_repay
<1>3. fee \in Nat /\ n * r.rate <= fee * RateDenom /\ n * r.rate \in Nat /\ fee * RateDenom \in Nat
  BY <1>1, FeeCovers, MulNat
<1> HIDE DEF fee
<1>4. w \in Nat /\ w = bal[a] - (n + fee) /\ v \in Int /\ v = due[f] + n * r.rate
  BY <1>1, <1>2, <1>3, Now
<1>5. q \in Fund /\ q.balance = r.balance + fee /\ q.unpaid = r.unpaid - n /\ FundOK(q)
  <2> DEFINE b == r.balance + fee
             u == r.unpaid - n
  <2>1. b \in Nat /\ u \in Nat /\ u <= b /\ b > 0
    BY <1>1, <1>2, <1>3 DEF FundOK
  <2>2. q = [r EXCEPT !.balance = b, !.unpaid = u]
    OBVIOUS
  <2> HIDE DEF b, u, q, r
  <2>3. q \in Fund /\ q.balance = b /\ q.unpaid = u
    BY <1>1, <2>1, <2>2 DEF Fund
  <2> QED
    BY <2>1, <2>3 DEF FundOK, b, u
<1> HIDE DEF w, q, v
<1>6. /\ bal' \in [Accounts -> Nat]
      /\ SumOver(bal', Accounts) = SumOver(bal, Accounts) + w - bal[a]
      /\ SumOver(bal, Accounts) \in Int
  <2>1. bal \in [Accounts -> Nat]
    BY Now
  <2> QED
    BY <1>2, <1>4, <2>1, BalanceChanges
<1>7. /\ funds' \in Maps(Fund) /\ DOMAIN funds' = DOMAIN funds
      /\ SumOver(Free(funds'), DOMAIN funds')
         = SumOver(Free(funds), DOMAIN funds) + (q.balance - q.unpaid) - (r.balance - r.unpaid)
      /\ SumOver(Free(funds), DOMAIN funds) \in Int
  <2>1. funds \in Maps(Fund) /\ created \in Nat /\ DOMAIN funds \subseteq 1..created
    BY Now
  <2> QED
    BY <1>2, <1>5, <2>1, FundChanges, FreeType
<1>8. /\ due' \in Maps(Int) /\ DOMAIN due' = DOMAIN due /\ due'[f] = v
      /\ \A x \in DOMAIN due : x # f => due'[x] = due[x]
  <2>1. due \in Maps(Int) /\ f \in DOMAIN due
    BY Now
  <2> QED
    BY <1>2, <1>4, <2>1, MapChanges
<1>9. funds'[f] = q /\ \A x \in DOMAIN funds : x # f => funds'[x] = funds[x]
  BY <1>2
<1>10. (q.balance - put[f]) * RateDenom >= v
  <2> DEFINE s == r.balance - put[f]
  <2>1. s \in Int /\ s * RateDenom >= due[f] /\ due[f] \in Int /\ put[f] \in Int
    BY <1>1, Now
  <2>2. q.balance - put[f] = s + fee
    BY <1>1, <1>3, <1>5, <2>1
  <2> HIDE DEF s
  <2>3. (s + fee) * RateDenom = s * RateDenom + fee * RateDenom /\ s * RateDenom \in Int
    BY <1>1, <1>3, <2>1
  <2> DEFINE y == s * RateDenom
             z == fee * RateDenom
             x == n * r.rate
  <2>4. y >= due[f] /\ x <= z /\ y \in Int /\ z \in Int /\ x \in Int /\ v = due[f] + x
    BY <1>3, <1>4, <2>1, <2>3
  <2> HIDE DEF x, y, z
  <2>5. y + z >= v
    BY <2>1, <2>4
  <2> QED
    BY <2>2, <2>3, <2>5 DEF y, z
<1>11. \A g \in DOMAIN funds' : FundOK(funds'[g]) /\ (funds'[g].balance - put'[g]) * RateDenom >= due'[g]
  BY <1>2, <1>5, <1>7, <1>8, <1>9, <1>10, Now
<1>12. /\ DOMAIN funds' \subseteq 1..created'
       /\ DOMAIN funds' \subseteq DOMAIN put' /\ DOMAIN funds' \subseteq DOMAIN due'
       /\ put' \in Maps(Int) /\ created' \in Nat /\ created <= created'
  BY <1>2, <1>7, <1>8, Now
<1>13. SumOver(bal', Accounts) + SumOver(Free(funds'), DOMAIN funds')
         = SumOver(bal, Accounts) + SumOver(Free(funds), DOMAIN funds)
  BY <1>1, <1>3, <1>4, <1>5, <1>6, <1>7
<1> QED
  BY <1>2, <1>6, <1>7, <1>8, <1>11, <1>12, <1>13, NewStateSound

-----------------------------------------------------------------------------
(* Sessions keep the invariant.                                            *)

\* The state is saved as it is; before the outermost session nothing is lent.
LEMMA BeginKeeps ==
  ASSUME SametAssumption, IInv, Begin \/ BeginNested
  PROVE  IInv'
<1>1. State' = State /\ created' = created
  BY DEF Begin, BeginNested, State
<1>2. sessions \in Seq(States) /\ State \in States /\ Len(sessions) <= MaxNesting
  BY DEF IInv
<1>3. MaxNesting \in Nat \ {0}
  BY DEF SametAssumption
<1>4. /\ Len(sessions') <= MaxNesting
      /\ sessions' \in Seq(States) /\ sessions' # <<>>
      /\ \A i \in 1..Len(sessions') : Sound(sessions'[i], created)
      /\ Repaid(sessions'[1])
  <2>1. CASE Begin
    <3>1. sessions = <<>> /\ sessions' = <<State>>
      BY <2>1 DEF Begin
    <3>2. Len(sessions') = 1 /\ sessions'[1] = State /\ sessions' \in Seq(States)
      BY <1>2, <3>1
    <3>3. Sound(State, created) /\ Repaid(State)
      BY <3>1 DEF IInv
    <3>4. \A i \in 1..Len(sessions') : i = 1
      BY <3>2
    <3>5. sessions' # <<>>
      BY <3>1
    <3>6. Len(sessions') <= MaxNesting
      BY <1>3, <3>2
    <3> QED
      BY <3>2, <3>3, <3>4, <3>5, <3>6
  <2>2. CASE BeginNested
    <3>1. sessions # <<>> /\ Len(sessions) < MaxNesting /\ sessions' = Append(sessions, State)
      BY <2>2 DEF BeginNested
    <3>2. Len(sessions) \in Nat \ {0}
      BY <1>2, <3>1
    <3>3. /\ Len(sessions') = Len(sessions) + 1 /\ sessions' \in Seq(States)
          /\ sessions'[Len(sessions) + 1] = State
          /\ \A i \in 1..Len(sessions) : sessions'[i] = sessions[i]
      BY <1>2, <3>1
    <3>4. /\ \A i \in 1..Len(sessions') : i = Len(sessions) + 1 \/ i \in 1..Len(sessions)
          /\ 1 \in 1..Len(sessions) /\ Len(sessions') <= MaxNesting
      BY <1>3, <3>1, <3>2, <3>3
    <3>5. sessions' # <<>>
      BY <3>2, <3>3
    <3>6. Sound(State, created) /\ Repaid(sessions[1]) /\ \A i \in 1..Len(sessions) : Sound(sessions[i], created)
      BY <3>1 DEF IInv
    <3> QED
      BY <3>3, <3>4, <3>5, <3>6
  <2> QED
    BY <2>1, <2>2
<1> QED
  BY <1>1, <1>4 DEF IInv, Sound, Repaid, Total

\* Nothing is lent when a session is merged.
LEMMA EndKeeps ==
  ASSUME SametAssumption, IInv, End
  PROVE  IInv'
<1>1. State' = State /\ created' = created /\ sessions # <<>> /\ sessions' = Front(sessions) /\ Repaid(State)
  BY DEF End, AllPaid, State, Repaid
<1>2. sessions \in Seq(States) /\ Len(sessions) <= MaxNesting
  BY DEF IInv
<1>3. /\ sessions' \in Seq(States) /\ Len(sessions') = Len(sessions) - 1 /\ Len(sessions) \in Nat \ {0}
      /\ \A i \in 1..(Len(sessions) - 1) : sessions'[i] = sessions[i]
  BY <1>1, <1>2, FrontOf
<1>4. Len(sessions') <= MaxNesting
  <2>1. Len(sessions) - 1 <= Len(sessions) /\ MaxNesting \in Nat
    BY <1>3 DEF SametAssumption
  <2> QED
    BY <1>2, <1>3, <2>1
<1>5. \A i \in 1..Len(sessions') : Sound(sessions'[i], created)
  BY <1>3 DEF IInv
<1>6. sessions' # <<>> => sessions'[1] = sessions[1]
  BY <1>3
<1> QED
  BY <1>1, <1>3, <1>4, <1>5, <1>6 DEF IInv, Sound, Repaid, Total

\* The state that the innermost session saved was sound; the outermost one restores
\* a state in which nothing was lent.
LEMMA FailKeeps ==
  ASSUME SametAssumption, IInv, Fail
  PROVE  IInv'
<1>1. created' = created /\ sessions # <<>> /\ sessions' = Front(sessions)
  BY DEF Fail
<1>2. sessions \in Seq(States) /\ Len(sessions) <= MaxNesting
  BY DEF IInv
<1>3. /\ sessions' \in Seq(States) /\ Len(sessions') = Len(sessions) - 1 /\ Len(sessions) \in Nat \ {0}
      /\ \A i \in 1..(Len(sessions) - 1) : sessions'[i] = sessions[i]
      /\ Last(sessions) = sessions[Len(sessions)] /\ Last(sessions) \in States
  BY <1>1, <1>2, FrontOf
<1>4. State' = Last(sessions)
  <2>1. State' = [bal |-> Last(sessions).bal, funds |-> Last(sessions).funds,
                  put |-> Last(sessions).put, due |-> Last(sessions).due]
    BY DEF Fail, State
  <2> QED
    BY <1>3, <2>1 DEF States
<1>5. Len(sessions') <= MaxNesting
  <2>1. Len(sessions) - 1 <= Len(sessions) /\ MaxNesting \in Nat
    BY <1>3 DEF SametAssumption
  <2> QED
    BY <1>2, <1>3, <2>1
<1>6. Sound(State', created)
  BY <1>3, <1>4 DEF IInv
<1>7. \A i \in 1..Len(sessions') : Sound(sessions'[i], created)
  BY <1>3 DEF IInv
<1>8. sessions' # <<>> => sessions'[1] = sessions[1]
  BY <1>3
<1>9. sessions' = <<>> => State' = sessions[1]
  <2>1. sessions' = <<>> => Len(sessions) = 1
    BY <1>3
  <2> QED
    BY <1>3, <1>4, <2>1
<1> QED
  BY <1>1, <1>3, <1>4, <1>5, <1>6, <1>7, <1>8, <1>9 DEF IInv, Repaid

-----------------------------------------------------------------------------
(* Theorems.                                                               *)

\* The invariant holds at the start.
LEMMA InitSound ==
  ASSUME SametAssumption, Init
  PROVE  IInv
<1>1. Wealth \in Nat /\ IsFiniteSet(Accounts) /\ MaxNesting \in Nat
  BY DEF SametAssumption
<1>2. /\ DOMAIN Empty = {} /\ DOMAIN Free(Empty) = {}
      /\ Empty \in [{} -> Fund] /\ Empty \in [{} -> Int]
  BY DEF Empty, Free
<1>3. Empty \in Maps(Fund) /\ Empty \in Maps(Int)
  BY <1>2 DEF Maps
<1>4. State \in States
  BY <1>1, <1>3 DEF Init, State, States
<1>5. Total(State) = Wealth * Cardinality(Accounts)
  <2>1. bal \in [Accounts -> Nat] /\ \A a \in Accounts : bal[a] = Wealth
    BY <1>1 DEF Init
  <2>2. SumOver(bal, Accounts) = Wealth * Cardinality(Accounts)
    BY <1>1, <2>1, SumConstant
  <2>3. SumOver(Free(funds), DOMAIN funds) = 0
    BY <1>2, SumEmpty DEF Init
  <2>4. Cardinality(Accounts) \in Nat
    BY <1>1, FS_CardinalityType
  <2>5. SumOver(bal, Accounts) \in Int
    BY <1>1, <2>2, <2>4
  <2> QED
    BY <2>2, <2>3, <2>5 DEF Total, State
<1>6. Sound(State, created)
  BY <1>2, <1>5 DEF Init, State, Sound
<1>7. Repaid(State)
  BY <1>2 DEF Init, State, Repaid
<1> QED
  BY <1>1, <1>4, <1>6, <1>7 DEF Init, IInv

\* Every step keeps the invariant.
LEMMA StepKeeps ==
  ASSUME SametAssumption, IInv, [Next]_vars
  PROVE  IInv'
<1>1. CASE Begin \/ BeginNested
  BY <1>1, BeginKeeps
<1>2. CASE End
  BY <1>2, EndKeeps
<1>3. CASE Fail
  BY <1>3, FailKeeps
<1>4. CASE \E a \in Accounts, n \in Amounts, r \in Rates : samet_fund_create(a, n, r)
  BY <1>4, CreateKeeps
<1>5. CASE \E f \in DOMAIN funds : samet_fund_delete(f)
  BY <1>5, DeleteKeeps
<1>6. CASE \E f \in DOMAIN funds, d \in Amounts \cup {-n : n \in Amounts} : samet_fund_update(f, d)
  <2>1. PICK f \in DOMAIN funds, d \in Amounts \cup {-n : n \in Amounts} : samet_fund_update(f, d)
    BY <1>6
  <2>2. d \in Int
    BY DEF SametAssumption
  <2> QED
    BY <2>1, <2>2, UpdateKeeps
<1>7. CASE \E f \in DOMAIN funds, r \in Rates : samet_fund_update_rate(f, r)
  BY <1>7, UpdateRateKeeps
<1>8. CASE \E f \in DOMAIN funds, a \in Accounts, n \in Amounts : samet_fund_borrow(f, a, n)
  BY <1>8, BorrowKeeps
<1>9. CASE \E f \in DOMAIN funds, a \in Accounts, n \in Amounts : samet_fund_repay(f, a, n)
  BY <1>9, RepayKeeps
<1>10. CASE UNCHANGED vars
  BY <1>10 DEF vars, IInv, State, Sound, Repaid, Total
<1> QED
  BY <1>1, <1>2, <1>3, <1>4, <1>5, <1>6, <1>7, <1>8, <1>9, <1>10 DEF Next

\* The inductive invariant of the funds (samet_fund_evaluator.cpp and the undo
\* sessions of transactions and proposals).
THEOREM SametInvariant ==
  ASSUME SametAssumption
  PROVE  Spec => []IInv
<1>1. Init => IInv
  BY InitSound
<1>2. IInv /\ [Next]_vars => IInv'
  BY StepKeeps
<1> QED
  BY <1>1, <1>2, PTL DEF Spec

\* The invariant gives the types, the sums, and that funds are repaid.
LEMMA InvSound ==
  ASSUME SametAssumption, IInv
  PROVE  TypeOK /\ Conserved /\ FundsRepaid
<1>1. TypeOK
  BY Now DEF IInv, TypeOK
<1>2. Conserved
  <2>1. ASSUME NEW s \in ToSet(sessions) PROVE Total(s) = Wealth * Cardinality(Accounts)
    BY <2>1 DEF ToSet, IInv, Sound
  <2>2. Total(State) = Wealth * Cardinality(Accounts)
    BY DEF IInv, Sound
  <2> QED
    BY <2>1, <2>2 DEF Conserved
<1>3. FundsRepaid
  BY Now DEF IInv, Repaid, State, FundsRepaid, NoUnpaidBetween, OwnerNeverLoses
<1> QED
  BY <1>1, <1>2, <1>3

\* Balances are never negative, no fund is lent beyond its balance, and the sessions
\* nest no deeper than allowed.
THEOREM SametTypeCorrect ==
  ASSUME SametAssumption
  PROVE  Spec => []TypeOK
<1>1. IInv => TypeOK
  BY InvSound
<1> QED
  BY <1>1, SametInvariant, PTL

\* Borrowing, repaying, updating and deleting funds create and destroy nothing, now
\* or in any state that a session would restore.
THEOREM SametConserves ==
  ASSUME SametAssumption
  PROVE  Spec => []Conserved
<1>1. IInv => Conserved
  BY InvSound
<1> QED
  BY <1>1, SametInvariant, PTL

\* Between transactions nothing is lent, however sessions nested and failed, and no
\* fund has less than its owner put in plus the exact fees of what was repaid.
THEOREM SametFundsRepaid ==
  ASSUME SametAssumption
  PROVE  Spec => []FundsRepaid
<1>1. IInv => FundsRepaid
  BY InvSound
<1> QED
  BY <1>1, SametInvariant, PTL

-----------------------------------------------------------------------------
(* Tickets: the inductive invariant.                                       *)

Ticket ==
  [account : Holders, target : T!Types, amount : Nat \ {0}, type : T!Types,
   status : {"charging", "withdrawing", "stable"}, value : Nat, nextUpdate : Nat, downgrade : Nat, floor : Nat]

\* A downgrade that ends at time d was started at time s or before.
StartedBy(d, type, s) == d <= s + CancelTime \/ (type <= 2 /\ d <= s + DowngradeTime[type])

\* What is known of a ticket at time s.  One that charges although a downgrade was
\* started began to charge before the end of that downgrade; whatever has been
\* started, floor is less than a charging step after the time it can be paid out.
TicketOK(t, s) ==
  /\ t.status = "charging" =>
       /\ t.type < t.target
       /\ t.downgrade # T!Never =>
            /\ t.nextUpdate < t.downgrade + ChargingStep /\ t.nextUpdate <= s + ChargingStep
            /\ StartedBy(t.downgrade + ChargingStep, t.type, t.nextUpdate)
  /\ t.status = "withdrawing" =>
       IF t.type = 4 THEN t.value > 0
       ELSE t.target <= t.type /\ t.downgrade = t.nextUpdate /\ StartedBy(t.downgrade, t.type, s)
  /\ t.status = "stable" => t.nextUpdate = T!Never /\ (t.type # 4 => t.downgrade = T!Never)
  /\ t.type # 4 =>
       t.floor < (IF t.downgrade = T!Never THEN s ELSE t.downgrade) + T!LockTime(t.type) + ChargingStep

\* What the constants are.
LEMMA TicketConstants ==
  ASSUME T!TicketAssumption
  PROVE  /\ IsFiniteSet(Holders) /\ TicketSupply \in Nat /\ MaxTickets \in Nat /\ TicketTime \in Nat
         /\ TicketUpdates \in Nat /\ TicketAmounts \subseteq Nat \ {0} /\ Steps \subseteq Nat \ {0}
         /\ ChargingStep \in Nat \ {0} /\ CancelTime \in Nat \ {0} /\ ForeverStep \in Nat \ {0}
         /\ DowngradeTime[0] \in Nat \ {0} /\ DowngradeTime[1] \in Nat \ {0} /\ DowngradeTime[2] \in Nat \ {0}
         /\ CancelTime < ChargingStep
<1>1. IsFiniteSet(Holders)
  BY DEF T!TicketAssumption, T!IsFiniteSet, IsFiniteSet
<1>2. 0 \in 0..2 /\ 1 \in 0..2 /\ 2 \in 0..2
  OBVIOUS
<1>3. DowngradeTime[0] \in Nat \ {0} /\ DowngradeTime[1] \in Nat \ {0} /\ DowngradeTime[2] \in Nat \ {0}
  BY <1>2 DEF T!TicketAssumption
<1> QED
  BY <1>1, <1>3 DEF T!TicketAssumption

\* The types, and how long each keeps a ticket locked.
LEMMA TypesAre ==
  ASSUME T!TicketAssumption
  PROVE  /\ T!Types = {0, 1, 2, 3, 4} /\ T!liquid = 0 /\ T!lock_forever = 4
         /\ T!LockTime(0) = 0 /\ T!LockTime(1) = DowngradeTime[0]
         /\ T!LockTime(2) = DowngradeTime[0] + DowngradeTime[1]
         /\ T!LockTime(3) = DowngradeTime[0] + DowngradeTime[1] + DowngradeTime[2]
         /\ T!LockTime(4) = DowngradeTime[0] + DowngradeTime[1] + DowngradeTime[2]
         /\ \A k \in T!Types : T!LockTime(k) \in Nat
         /\ \A k \in T!Types : T!Multiplier[k] \in Nat
         /\ T!Multiplier[4] = 8
<1>1. T!Types = 0..4 /\ T!liquid = 0 /\ T!lock_forever = 4
  BY DEF T!Types, T!liquid, T!lock_forever
<1>2. T!Types = {0, 1, 2, 3, 4}
  BY <1>1
<1>3. /\ T!LockTime(0) = 0 /\ T!LockTime(1) = DowngradeTime[0]
      /\ T!LockTime(2) = DowngradeTime[0] + DowngradeTime[1]
      /\ T!LockTime(3) = DowngradeTime[0] + DowngradeTime[1] + DowngradeTime[2]
      /\ T!LockTime(4) = DowngradeTime[0] + DowngradeTime[1] + DowngradeTime[2]
  BY TicketConstants DEF T!LockTime
<1>4. \A k \in T!Types : T!LockTime(k) \in Nat
  BY <1>2, <1>3, TicketConstants
<1>5. \A k \in T!Types : T!Multiplier[k] \in Nat
  BY <1>1 DEF T!Multiplier
<1>6. T!Multiplier[4] = 8
  BY <1>1 DEF T!Multiplier
<1> QED
  BY <1>1, <1>2, <1>3, <1>4, <1>5, <1>6

\* The larger of two numbers.
LEMMA MaxOfTwo ==
  ASSUME NEW a \in Int, NEW b \in Int
  PROVE  T!Max({a, b}) = IF a > b THEN a ELSE b
<1> DEFINE m == IF a > b THEN a ELSE b
<1>1. m \in {a, b} /\ \A y \in {a, b} : m >= y
  OBVIOUS
<1>2. \A x \in {a, b} : (\A y \in {a, b} : x >= y) => x = m
  OBVIOUS
<1> QED
  BY <1>1, <1>2 DEF T!Max

\* What a ticket is made of.
LEMMA TicketType ==
  ASSUME NEW t \in Ticket
  PROVE  /\ t.account \in Holders /\ t.target \in T!Types /\ t.amount \in Nat \ {0} /\ t.type \in T!Types
         /\ t.status \in {"charging", "withdrawing", "stable"} /\ t.value \in Nat /\ t.nextUpdate \in Nat
         /\ t.downgrade \in Nat /\ t.floor \in Nat
BY DEF Ticket

\* Never is later than any time a ticket is given.
LEMMA NeverIsLate ==
  ASSUME T!TicketAssumption
  PROVE  /\ T!Never \in Nat /\ T!Never > TicketTime
         /\ \A s \in 0..TicketTime :
              /\ T!Never > s /\ T!Never > s + ChargingStep /\ T!Never > s + CancelTime /\ T!Never > s + ForeverStep
              /\ \A k \in 0..2 : T!Never > s + DowngradeTime[k] /\ DowngradeTime[k] \in Nat \ {0}
<1>1. \A k \in 0..2 : k = 0 \/ k = 1 \/ k = 2
  OBVIOUS
<1>2. TicketTime \in Nat /\ T!Never \in Nat /\ T!Never > TicketTime
  BY TicketConstants DEF T!Never
<1>3. ASSUME NEW s \in 0..TicketTime
      PROVE  T!Never > s /\ T!Never > s + ChargingStep /\ T!Never > s + CancelTime /\ T!Never > s + ForeverStep
  BY TicketConstants DEF T!Never
<1>4. ASSUME NEW s \in 0..TicketTime, NEW k \in 0..2
      PROVE  T!Never > s + DowngradeTime[k] /\ DowngradeTime[k] \in Nat \ {0}
  <2>1. CASE k = 0
    BY <2>1, TicketConstants DEF T!Never
  <2>2. CASE k = 1
    BY <2>2, TicketConstants DEF T!Never
  <2>3. CASE k = 2
    BY <2>3, TicketConstants DEF T!Never
  <2> QED
    BY <1>1, <2>1, <2>2, <2>3
<1> QED
  BY <1>2, <1>3, <1>4

\* A new ticket (init_new).
LEMMA NewTicketOK ==
  ASSUME T!TicketAssumption, tNow \in 0..TicketTime, NEW a \in Holders, NEW k \in T!Types, k # T!liquid,
         NEW n \in TicketAmounts
  PROVE  /\ T!NewTicket(a, k, n) \in Ticket /\ TicketOK(T!NewTicket(a, k, n), tNow)
         /\ T!NewTicket(a, k, n).account = a /\ T!NewTicket(a, k, n).amount = n
         /\ T!NewTicket(a, k, n).type = 0 /\ T!NewTicket(a, k, n).nextUpdate > tNow
<1> DEFINE t == [account |-> a, target |-> k, amount |-> n, type |-> 0, status |-> "charging",
                 value |-> 0, nextUpdate |-> tNow + ChargingStep, downgrade |-> T!Never, floor |-> tNow]
           u == T!NewTicket(a, k, n)
<1>1. u = [t EXCEPT !.value = n * T!Multiplier[0]]
  BY TypesAre DEF T!NewTicket, T!WithValue
<1>2. n \in Nat \ {0} /\ n * T!Multiplier[0] \in Nat
  BY TypesAre, TicketConstants, MulNat
<1>3. tNow \in Nat /\ ChargingStep \in Nat \ {0} /\ T!Never \in Nat /\ 0 \in T!Types
  BY TypesAre, TicketConstants, NeverIsLate
<1>4. u \in Ticket
  BY <1>1, <1>2, <1>3 DEF Ticket
<1>5. /\ u.account = a /\ u.target = k /\ u.amount = n /\ u.type = 0 /\ u.status = "charging"
      /\ u.nextUpdate = tNow + ChargingStep /\ u.downgrade = T!Never /\ u.floor = tNow
  BY <1>1
<1>6. 0 < k
  BY TypesAre
<1>7. TicketOK(u, tNow)
  BY <1>3, <1>5, <1>6, TypesAre DEF TicketOK
<1> QED
  BY <1>3, <1>4, <1>5, <1>7

\* A part of a ticket is as sound as the whole.
LEMMA SplitOK ==
  ASSUME T!TicketAssumption, NEW t \in Ticket, NEW s, TicketOK(t, s), t.type # 4, NEW n \in Nat \ {0}
  PROVE  LET p == [t EXCEPT !.amount = n]
             u == T!WithValue(p)
         IN /\ p \in Ticket /\ TicketOK(p, s) /\ p.amount = n /\ p.account = t.account
            /\ p.type = t.type /\ p.nextUpdate = t.nextUpdate
            /\ u \in Ticket /\ TicketOK(u, s) /\ u.amount = n /\ u.account = t.account
            /\ u.type = t.type /\ u.nextUpdate = t.nextUpdate
<1> DEFINE p == [t EXCEPT !.amount = n]
           v == n * T!Multiplier[t.type]
           u == T!WithValue(p)
<1>1. v \in Nat
  BY TypesAre, MulNat, TicketType
<1>2. p.type = t.type /\ p.amount = n
  BY DEF Ticket
<1>3. u = [p EXCEPT !.value = v]
  BY <1>2, TypesAre DEF T!WithValue
<1> HIDE DEF v, u
<1>4. /\ p \in Ticket /\ p.account = t.account /\ p.target = t.target /\ p.status = t.status
      /\ p.nextUpdate = t.nextUpdate /\ p.downgrade = t.downgrade /\ p.floor = t.floor
  BY DEF Ticket
<1> HIDE DEF p
<1>5. /\ u \in Ticket /\ u.account = p.account /\ u.target = p.target /\ u.status = p.status
      /\ u.nextUpdate = p.nextUpdate /\ u.downgrade = p.downgrade /\ u.floor = p.floor
      /\ u.type = p.type /\ u.amount = p.amount
  BY <1>1, <1>3, <1>4 DEF Ticket
<1>6. TicketOK(p, s)
  BY <1>2, <1>4 DEF TicketOK
<1>7. TicketOK(u, s)
  BY <1>2, <1>4, <1>5 DEF TicketOK
<1> QED
  BY <1>2, <1>4, <1>5, <1>6, <1>7 DEF p, u

\* A ticket with another status and time, and with another type and end of a
\* downgrade.
StatusPut(t, st, c) == [t EXCEPT !.status = st, !.nextUpdate = c]
TypePut(t, k, e) == [t EXCEPT !.type = k, !.downgrade = e]

\* What StatusPut changes.
LEMMA PutStatus ==
  ASSUME NEW t \in Ticket, NEW st \in {"charging", "withdrawing", "stable"}, NEW c \in Nat, NEW x,
         x = StatusPut(t, st, c)
  PROVE  /\ x \in Ticket /\ x.account = t.account /\ x.amount = t.amount /\ x.target = t.target
         /\ x.value = t.value /\ x.type = t.type /\ x.status = st /\ x.nextUpdate = c
         /\ x.downgrade = t.downgrade /\ x.floor = t.floor
<1>1. x \in Ticket
  BY DEF Ticket, StatusPut
<1>2. /\ x.account = t.account /\ x.amount = t.amount /\ x.target = t.target /\ x.value = t.value
      /\ x.type = t.type /\ x.status = st /\ x.nextUpdate = c
      /\ x.downgrade = t.downgrade /\ x.floor = t.floor
  BY DEF Ticket, StatusPut
<1> QED
  BY <1>1, <1>2

\* What TypePut changes.
LEMMA PutType ==
  ASSUME NEW t \in Ticket, NEW k \in T!Types, NEW e \in Nat, NEW x,
         x = TypePut(t, k, e)
  PROVE  /\ x \in Ticket /\ x.account = t.account /\ x.amount = t.amount /\ x.target = t.target
         /\ x.value = t.value /\ x.type = k /\ x.status = t.status /\ x.nextUpdate = t.nextUpdate
         /\ x.downgrade = e /\ x.floor = t.floor
<1>1. x \in Ticket
  BY DEF Ticket, TypePut
<1>2. /\ x.account = t.account /\ x.amount = t.amount /\ x.target = t.target /\ x.value = t.value
      /\ x.type = k /\ x.status = t.status /\ x.nextUpdate = t.nextUpdate
      /\ x.downgrade = e /\ x.floor = t.floor
  BY DEF Ticket, TypePut
<1> QED
  BY <1>1, <1>2

\* What update_value changes, if anything.
LEMMA WithValueOK ==
  ASSUME T!TicketAssumption, NEW x \in Ticket
  PROVE  /\ x.type = 4 => T!WithValue(x) = x
         /\ x.type # 4 =>
              /\ T!WithValue(x) \in Ticket /\ T!WithValue(x).account = x.account /\ T!WithValue(x).target = x.target
              /\ T!WithValue(x).amount = x.amount /\ T!WithValue(x).type = x.type
              /\ T!WithValue(x).status = x.status /\ T!WithValue(x).nextUpdate = x.nextUpdate
              /\ T!WithValue(x).downgrade = x.downgrade /\ T!WithValue(x).floor = x.floor
<1>1. ASSUME x.type = 4 PROVE T!WithValue(x) = x
  BY <1>1, TypesAre DEF T!WithValue
<1>2. ASSUME x.type # 4
      PROVE  /\ T!WithValue(x) \in Ticket /\ T!WithValue(x).account = x.account /\ T!WithValue(x).target = x.target
             /\ T!WithValue(x).amount = x.amount /\ T!WithValue(x).type = x.type
             /\ T!WithValue(x).status = x.status /\ T!WithValue(x).nextUpdate = x.nextUpdate
             /\ T!WithValue(x).downgrade = x.downgrade /\ T!WithValue(x).floor = x.floor
  <2>1. x.amount * T!Multiplier[x.type] \in Nat
    BY TypesAre, MulNat, TicketType
  <2>2. T!WithValue(x) = [x EXCEPT !.value = x.amount * T!Multiplier[x.type]]
    BY <1>2, TypesAre DEF T!WithValue
  <2> QED
    BY <2>1, <2>2 DEF Ticket
<1> QED
  BY <1>1, <1>2

\* A change of the target (update_target_type) keeps what is known of a ticket.
LEMMA RetargetedOK ==
  ASSUME T!TicketAssumption, tNow \in 0..TicketTime, NEW t \in Ticket, TicketOK(t, tNow), t.type # 4,
         t.nextUpdate > tNow, NEW target \in T!Types
  PROVE  LET u == T!Retargeted(t, target)
         IN /\ u \in Ticket /\ TicketOK(u, tNow) /\ u.amount = t.amount /\ u.account = t.account /\ u.type # 4
<1> DEFINE l == tNow + T!LockTime(t.type)
           f == IF t.floor > l THEN t.floor ELSE l
           held == [t EXCEPT !.floor = f]
           d == T!Downgraded(held, target)
           u == T!Retargeted(t, target)
<1>1. /\ t.account \in Holders /\ t.target \in T!Types /\ t.amount \in Nat \ {0} /\ t.type \in T!Types
      /\ t.status \in {"charging", "withdrawing", "stable"} /\ t.value \in Nat /\ t.nextUpdate \in Nat
      /\ t.downgrade \in Nat /\ t.floor \in Nat
  BY TicketType
<1>2. /\ tNow \in Nat /\ l \in Nat /\ f \in Nat /\ T!LockTime(t.type) \in Nat /\ T!Never \in Nat
      /\ ChargingStep \in Nat \ {0} /\ CancelTime \in Nat \ {0} /\ CancelTime < ChargingStep
      /\ t.type \in {0, 1, 2, 3} /\ target \in Int
  BY <1>1, TypesAre, TicketConstants, NeverIsLate
<1>3. T!Max({t.floor, l}) = f
  BY <1>1, <1>2, MaxOfTwo
<1>4. /\ held \in Ticket /\ held.floor = f /\ held.account = t.account /\ held.target = t.target
      /\ held.amount = t.amount /\ held.type = t.type /\ held.status = t.status /\ held.value = t.value
      /\ held.nextUpdate = t.nextUpdate /\ held.downgrade = t.downgrade
  BY <1>2 DEF Ticket
<1>5. u = T!WithValue([IF t.type < target
                       THEN IF t.status = "charging" THEN held
                            ELSE [held EXCEPT !.status = "charging", !.nextUpdate = tNow + ChargingStep]
                       ELSE [d EXCEPT !.status = "withdrawing", !.nextUpdate = d.downgrade]
                       EXCEPT !.target = target])
  BY <1>3 DEF T!Retargeted
<1>6. t.floor < (IF t.downgrade = T!Never THEN tNow ELSE t.downgrade) + T!LockTime(t.type) + ChargingStep
  BY DEF TicketOK
<1> HIDE DEF held, d, u, l, f
<1>8. ASSUME NEW x \in Ticket, x.type # 4, x.account = t.account, x.amount = t.amount,
             u = T!WithValue(x), TicketOK(x, tNow)
      PROVE  u \in Ticket /\ TicketOK(u, tNow) /\ u.amount = t.amount /\ u.account = t.account /\ u.type # 4
  BY <1>8, WithValueOK DEF TicketOK
<1>9. ASSUME NEW x \in Ticket
      PROVE  LET y == [x EXCEPT !.target = target]
             IN /\ y \in Ticket /\ y.account = x.account /\ y.target = target /\ y.amount = x.amount
                /\ y.type = x.type /\ y.status = x.status /\ y.nextUpdate = x.nextUpdate
                /\ y.downgrade = x.downgrade /\ y.floor = x.floor
  BY <1>9 DEF Ticket
<1>10. f < (IF t.downgrade = T!Never THEN tNow ELSE t.downgrade) + T!LockTime(t.type) + ChargingStep
  <2>1. t.downgrade # T!Never => tNow < t.downgrade + ChargingStep
    BY <1>1, <1>2 DEF TicketOK
  <2> QED
    BY <1>1, <1>2, <1>6, <2>1 DEF f, l
<1>11. CASE t.type < target /\ t.status = "charging"
  <2> DEFINE y == [held EXCEPT !.target = target]
  <2>1. u = T!WithValue(y)
    BY <1>5, <1>11
  <2>2. /\ y \in Ticket /\ y.account = t.account /\ y.target = target /\ y.amount = t.amount
        /\ y.type = t.type /\ y.status = "charging" /\ y.nextUpdate = t.nextUpdate
        /\ y.downgrade = t.downgrade /\ y.floor = f
    BY <1>4, <1>9, <1>11
  <2> HIDE DEF y
  <2>3. TicketOK(y, tNow)
    BY <1>10, <1>11, <2>2 DEF TicketOK
  <2> QED
    BY <1>8, <2>1, <2>2, <2>3 DEF u
<1>12. CASE t.type < target /\ t.status # "charging"
  <2> DEFINE x == [held EXCEPT !.status = "charging", !.nextUpdate = tNow + ChargingStep]
             y == [x EXCEPT !.target = target]
  <2>1. u = T!WithValue(y)
    BY <1>5, <1>12
  <2>2. /\ x \in Ticket /\ x.account = t.account /\ x.amount = t.amount
        /\ x.type = t.type /\ x.status = "charging" /\ x.nextUpdate = tNow + ChargingStep
        /\ x.downgrade = t.downgrade /\ x.floor = f
    <3>1. PICK c \in Nat : c = tNow + ChargingStep
      BY <1>2
    <3>2. x = StatusPut(held, "charging", c)
      BY <3>1 DEF StatusPut
    <3> HIDE DEF x
    <3>3. /\ x \in Ticket /\ x.account = held.account /\ x.amount = held.amount
          /\ x.type = held.type /\ x.status = "charging" /\ x.nextUpdate = c
          /\ x.downgrade = held.downgrade /\ x.floor = held.floor
      BY ONLY <1>4, c \in Nat, <3>2, PutStatus
    <3> QED
      BY <1>4, <3>1, <3>3
  <2> HIDE DEF x
  <2>3. /\ y \in Ticket /\ y.account = t.account /\ y.target = target /\ y.amount = t.amount
        /\ y.type = t.type /\ y.status = "charging" /\ y.nextUpdate = tNow + ChargingStep
        /\ y.downgrade = t.downgrade /\ y.floor = f
    BY <1>9, <2>2
  <2> HIDE DEF y
  <2>4. t.downgrade # T!Never => t.downgrade = t.nextUpdate /\ StartedBy(t.downgrade, t.type, tNow)
    BY <1>1, <1>2, <1>12 DEF TicketOK
  <2>5. t.downgrade # T!Never => /\ tNow + ChargingStep < t.downgrade + ChargingStep
                                 /\ StartedBy(t.downgrade + ChargingStep, t.type, tNow + ChargingStep)
    <3>1. \A k \in {0, 1, 2} : DowngradeTime[k] \in Nat
      BY TicketConstants
    <3> QED
      BY <1>1, <1>2, <2>4, <3>1 DEF StartedBy
  <2>6. TicketOK(y, tNow)
    BY <1>2, <1>10, <1>12, <2>3, <2>5 DEF TicketOK
  <2> QED
    BY <1>8, <2>1, <2>3, <2>6 DEF u
<1>13. CASE ~(t.type < target)
  <2> DEFINE x == [d EXCEPT !.status = "withdrawing", !.nextUpdate = d.downgrade]
             y == [x EXCEPT !.target = target]
  <2>1. u = T!WithValue(y)
    BY <1>5, <1>13
  <2>2. target <= t.type /\ target \in {0, 1, 2, 3}
    BY <1>2, <1>13, TypesAre
  <2>3. ASSUME d \in Ticket, d.account = t.account, d.amount = t.amount, d.type \in {0, 1, 2, 3}, target <= d.type,
               StartedBy(d.downgrade, d.type, tNow), d.downgrade # T!Never,
               d.floor < d.downgrade + T!LockTime(d.type) + ChargingStep
        PROVE  u \in Ticket /\ TicketOK(u, tNow) /\ u.amount = t.amount /\ u.account = t.account /\ u.type # 4
    <3>1. /\ x \in Ticket /\ x.account = t.account /\ x.amount = t.amount
          /\ x.type = d.type /\ x.status = "withdrawing" /\ x.nextUpdate = d.downgrade
          /\ x.downgrade = d.downgrade /\ x.floor = d.floor
      <4>1. d.downgrade \in Nat
        BY <2>3, TicketType
      <4> QED
        BY <2>3, <4>1 DEF Ticket
    <3> HIDE DEF x
    <3>2. /\ y \in Ticket /\ y.account = t.account /\ y.target = target /\ y.amount = t.amount
          /\ y.type = d.type /\ y.status = "withdrawing" /\ y.nextUpdate = d.downgrade
          /\ y.downgrade = d.downgrade /\ y.floor = d.floor
      BY <1>9, <3>1
    <3> HIDE DEF y
    <3>3. TicketOK(y, tNow) /\ y.type # 4
      BY <2>3, <3>2 DEF TicketOK
    <3> QED
      BY <1>8, <2>1, <3>2, <3>3
  <2> HIDE DEF x, y
  <2>4. CASE t.downgrade # T!Never
    <3>1. d = held
      BY <1>4, <2>4 DEF d, T!Downgraded
    <3>2. StartedBy(t.downgrade, t.type, tNow)
      <4>1. CASE t.status = "withdrawing"
        BY <4>1 DEF TicketOK
      <4>2. CASE t.status = "charging"
        <5>1. StartedBy(t.downgrade + ChargingStep, t.type, t.nextUpdate) /\ t.nextUpdate <= tNow + ChargingStep
          BY <2>4, <4>2 DEF TicketOK
        <5>2. \A k \in {0, 1, 2} : DowngradeTime[k] \in Nat
          BY TicketConstants
        <5> QED
          BY <1>1, <1>2, <5>1, <5>2 DEF StartedBy
      <4> QED
        BY <1>1, <2>4, <4>1, <4>2 DEF TicketOK
    <3> QED
      BY <1>2, <1>4, <1>10, <2>2, <2>3, <2>4, <3>1, <3>2 DEF u
  <2>5. CASE t.downgrade = T!Never /\ t.type = target
    <3>1. d = [held EXCEPT !.downgrade = tNow + CancelTime]
      BY <1>4, <2>5 DEF d, T!Downgraded
    <3>2. /\ d \in Ticket /\ d.account = t.account /\ d.amount = t.amount /\ d.type = t.type
          /\ d.downgrade = tNow + CancelTime /\ d.floor = f
      BY <1>2, <1>4, <3>1 DEF Ticket
    <3>3. StartedBy(d.downgrade, d.type, tNow) /\ d.downgrade # T!Never
      BY <1>2, <3>2, NeverIsLate DEF StartedBy
    <3>4. d.floor < d.downgrade + T!LockTime(d.type) + ChargingStep
      BY <1>2, <1>10, <2>5, <3>2
    <3> QED
      BY <1>2, <2>2, <2>3, <3>2, <3>3, <3>4 DEF u
  <2>6. CASE t.downgrade = T!Never /\ t.type # target
    <3> DEFINE k == t.type - 1
    <3>0. k \in {0, 1, 2} /\ k \in T!Types /\ DowngradeTime[k] \in Nat /\ target <= k /\ t.type = k + 1
      BY <1>2, <2>2, <2>6, TypesAre, TicketConstants
    <3>1. d = [held EXCEPT !.type = k, !.downgrade = tNow + DowngradeTime[k]]
      BY <1>4, <2>6 DEF d, T!Downgraded
    <3> HIDE DEF k
    <3>2. /\ d \in Ticket /\ d.account = t.account /\ d.amount = t.amount /\ d.type = k
          /\ d.downgrade = tNow + DowngradeTime[k] /\ d.floor = f
      <4>1. PICK e \in Nat : e = tNow + DowngradeTime[k]
        BY <1>2, <3>0
      <4>2. d = TypePut(held, k, e)
        BY <3>1, <4>1 DEF TypePut
      <4>3. /\ d \in Ticket /\ d.account = held.account /\ d.amount = held.amount /\ d.type = k
            /\ d.downgrade = e /\ d.floor = held.floor
        <5>1. held \in Ticket /\ k \in T!Types /\ e \in Nat
          BY <1>4, <3>0, <4>1
        <5> QED
          BY ONLY <4>2, <5>1, PutType
      <4> QED
        BY <1>4, <4>1, <4>3
    <3>3. StartedBy(d.downgrade, d.type, tNow) /\ d.downgrade # T!Never
      BY <1>2, <3>0, <3>2, NeverIsLate DEF StartedBy
    <3>4. T!LockTime(t.type) = DowngradeTime[k] + T!LockTime(k) /\ T!LockTime(k) \in Nat
      BY <1>2, <3>0, TypesAre, TicketConstants
    <3>5. d.floor < d.downgrade + T!LockTime(d.type) + ChargingStep
      BY <1>2, <1>10, <2>6, <3>0, <3>2, <3>4
    <3> QED
      BY <1>2, <2>3, <3>0, <3>2, <3>3, <3>5 DEF u
  <2> QED
    BY <2>4, <2>5, <2>6
<1> QED
  BY <1>11, <1>12, <1>13 DEF u

\* What an automatic update does to a ticket that is due (auto_update).
UpdatedOK(t, u) ==
  /\ u \in Ticket /\ TicketOK(u, tNow) /\ u.amount = t.amount /\ u.account = t.account
  /\ u.nextUpdate > t.nextUpdate
  /\ t.type = 4 => u.type = 4 /\ u.value < t.value
  /\ t.type # 4 /\ u.type = 4 => u.value > 0

\* The fields of a ticket with a later floor.
LEMMA FloorOK ==
  ASSUME NEW t \in Ticket, NEW f \in Nat
  PROVE  LET x == [t EXCEPT !.floor = f]
         IN /\ x \in Ticket /\ x.account = t.account /\ x.amount = t.amount /\ x.target = t.target
            /\ x.value = t.value /\ x.type = t.type /\ x.status = t.status /\ x.nextUpdate = t.nextUpdate
            /\ x.downgrade = t.downgrade /\ x.floor = f
BY DEF Ticket

\* The fields of a ticket with another time of its next update.
LEMMA NextOK ==
  ASSUME NEW t \in Ticket, NEW c \in Nat
  PROVE  LET x == [t EXCEPT !.nextUpdate = c]
         IN /\ x \in Ticket /\ x.account = t.account /\ x.amount = t.amount /\ x.target = t.target
            /\ x.value = t.value /\ x.type = t.type /\ x.status = t.status /\ x.nextUpdate = c
            /\ x.downgrade = t.downgrade /\ x.floor = t.floor
BY DEF Ticket

\* A charging ticket that is due gains a type, and forgets a downgrade.
LEMMA ChargedOK ==
  ASSUME T!TicketAssumption, tNow \in 0..TicketTime, NEW t \in Ticket, TicketOK(t, tNow),
         t.nextUpdate <= tNow, t.status = "charging", NEW f \in Nat, NEW x \in Ticket,
         f = (IF t.floor > t.nextUpdate + T!LockTime(t.type) THEN t.floor ELSE t.nextUpdate + T!LockTime(t.type)),
         x = [t EXCEPT !.floor = f]
  PROVE  UpdatedOK(t, T!WithValue(T!Charged(x)))
<1>1. /\ t.account \in Holders /\ t.target \in T!Types /\ t.amount \in Nat \ {0} /\ t.type \in T!Types
      /\ t.status \in {"charging", "withdrawing", "stable"} /\ t.value \in Nat /\ t.nextUpdate \in Nat
      /\ t.downgrade \in Nat /\ t.floor \in Nat
  BY TicketType
<1> DEFINE k == t.type + 1
           v == TypePut(x, k, T!Never)
           u == T!WithValue(T!Charged(x))
<1>2. t.type < t.target /\ t.type \in {0, 1, 2, 3} /\ k \in {1, 2, 3, 4} /\ k \in T!Types /\ k <= t.target
  <2>1. t.type < t.target
    BY DEF TicketOK
  <2> QED
    BY <1>1, <2>1, TypesAre
<1>3. /\ tNow \in Nat /\ T!Never \in Nat /\ ChargingStep \in Nat \ {0} /\ CancelTime \in Nat \ {0} /\ T!Never > tNow
      /\ CancelTime < ChargingStep /\ ForeverStep \in Nat \ {0} /\ T!LockTime(t.type) \in Nat /\ T!LockTime(k) \in Nat
  BY <1>1, <1>2, TypesAre, TicketConstants, NeverIsLate
<1>4. /\ x.account = t.account /\ x.amount = t.amount /\ x.target = t.target
      /\ x.value = t.value /\ x.type = t.type /\ x.status = t.status /\ x.nextUpdate = t.nextUpdate
      /\ x.downgrade = t.downgrade /\ x.floor = f
  BY FloorOK
<1> DEFINE more == [v EXCEPT !.nextUpdate = @ + ChargingStep]
           full == StatusPut(v, "stable", T!Never)
           forever == [v EXCEPT !.status = "withdrawing", !.nextUpdate = @ + ForeverStep,
                                !.value = v.amount * T!Multiplier[v.type]]
<1>5. T!Charged(x) = CASE v.type < v.target -> more
                       [] v.type >= v.target /\ v.type # T!lock_forever -> full
                       [] OTHER -> forever
  BY <1>4 DEF T!Charged, TypePut, StatusPut
<1> HIDE DEF v, u, k, more, full, forever
<1>6. /\ v \in Ticket /\ v.account = t.account /\ v.amount = t.amount /\ v.target = t.target
      /\ v.value = t.value /\ v.type = k /\ v.status = "charging" /\ v.nextUpdate = t.nextUpdate
      /\ v.downgrade = T!Never /\ v.floor = f
  <2>1. v = TypePut(x, k, T!Never)
    BY DEF v
  <2>2. /\ v \in Ticket /\ v.account = x.account /\ v.amount = x.amount /\ v.target = x.target
        /\ v.value = x.value /\ v.type = k /\ v.status = x.status /\ v.nextUpdate = x.nextUpdate
        /\ v.downgrade = T!Never /\ v.floor = x.floor
    <3>1. k \in T!Types /\ T!Never \in Nat /\ x \in Ticket
      BY <1>2, <1>3
    <3> QED
      BY ONLY <2>1, <3>1, PutType
  <2> QED
    BY <1>4, <2>2
<1>7. f < tNow + T!LockTime(k) + ChargingStep
  <2>1. k <= 3 => T!LockTime(k) = T!LockTime(t.type) + DowngradeTime[t.type] /\ DowngradeTime[t.type] \in Nat
    BY <1>2, TypesAre, TicketConstants DEF k
  <2>2. k = 4 => T!LockTime(k) = T!LockTime(t.type) /\ t.type = 3
    BY <1>2, TypesAre, TicketConstants DEF k
  <2>3. t.floor < (IF t.downgrade = T!Never THEN tNow ELSE t.downgrade) + T!LockTime(t.type) + ChargingStep
    BY <1>2 DEF TicketOK
  <2>4. t.downgrade # T!Never => StartedBy(t.downgrade + ChargingStep, t.type, t.nextUpdate)
    BY DEF TicketOK
  <2>5. t.downgrade # T!Never =>
          t.downgrade < tNow \/ (t.type <= 2 /\ t.downgrade <= tNow + DowngradeTime[t.type])
    BY <1>1, <1>2, <1>3, <2>1, <2>4 DEF StartedBy, k
  <2> QED
    BY <1>1, <1>2, <1>3, <2>1, <2>2, <2>3, <2>5 DEF k
<1>8. ASSUME NEW y \in Ticket, y.type = k, y.account = t.account, y.amount = t.amount, y.nextUpdate > t.nextUpdate,
             u = T!WithValue(y), TicketOK(y, tNow), k = 4 => y.value > 0
      PROVE  UpdatedOK(t, u)
  <2>1. t.type # 4
    BY <1>2
  <2>2. CASE k = 4
    BY <1>8, <2>1, <2>2, WithValueOK DEF UpdatedOK
  <2>3. CASE k # 4
    BY <1>8, <2>1, <2>3, WithValueOK DEF UpdatedOK, TicketOK
  <2> QED
    BY <2>2, <2>3
<1>9. CASE k < t.target
  <2>1. PICK c \in Nat : c = t.nextUpdate + ChargingStep
    BY <1>1, <1>3
  <2> DEFINE y == [v EXCEPT !.nextUpdate = c]
  <2>2. u = T!WithValue(y)
    <3>0. v.type < v.target /\ ~(v.type >= v.target)
      BY <1>1, <1>2, <1>6, <1>9, TypesAre
    <3>1. T!Charged(x) = more
      BY ONLY <1>5, <3>0
    <3>2. T!Charged(x) = y
      BY <1>6, <2>1, <3>1 DEF more
    <3> QED
      BY <3>2 DEF u
  <2>3. /\ y \in Ticket /\ y.account = t.account /\ y.target = t.target /\ y.amount = t.amount
        /\ y.type = k /\ y.status = "charging" /\ y.nextUpdate = c
        /\ y.downgrade = T!Never /\ y.floor = f
    BY <1>6, NextOK
  <2> HIDE DEF y
  <2>4. TicketOK(y, tNow) /\ k # 4
    BY <1>1, <1>2, <1>7, <1>9, <2>3, TypesAre DEF TicketOK
  <2>5. y.nextUpdate > t.nextUpdate
    BY <1>1, <1>3, <2>1, <2>3
  <2> QED
    BY <1>8, <2>2, <2>3, <2>4, <2>5 DEF u
<1>10. CASE ~(k < t.target) /\ k # 4
  <2>0. PICK m \in Nat : m = T!Never
    BY <1>3
  <2> DEFINE y == StatusPut(v, "stable", m)
  <2>1. k >= t.target
    BY <1>1, <1>2, <1>10, TypesAre
  <2>2. u = T!WithValue(y)
    <3>1. T!Charged(x) = full
      BY <1>5, <1>6, <1>10, <2>1, TypesAre
    <3> QED
      BY <2>0, <3>1 DEF u, full
  <2>3. /\ y \in Ticket /\ y.account = t.account /\ y.target = t.target /\ y.amount = t.amount
        /\ y.type = k /\ y.status = "stable" /\ y.nextUpdate = T!Never
        /\ y.downgrade = T!Never /\ y.floor = f
    <3>1. PICK st \in {"charging", "withdrawing", "stable"} : st = "stable"
      OBVIOUS
    <3>2. PICK w : w = v
      OBVIOUS
    <3>3. y = StatusPut(w, st, m) /\ w \in Ticket /\ m \in Nat
      BY <1>6, <3>1, <3>2
    <3> HIDE DEF y
    <3>4. /\ y \in Ticket /\ y.account = w.account /\ y.amount = w.amount /\ y.target = w.target
          /\ y.value = w.value /\ y.type = w.type /\ y.status = st /\ y.nextUpdate = m
          /\ y.downgrade = w.downgrade /\ y.floor = w.floor
      <4>1. y \in Ticket
        BY ONLY <3>1, <3>3 DEF Ticket, StatusPut
      <4>2. /\ y.account = w.account /\ y.amount = w.amount /\ y.target = w.target
            /\ y.value = w.value /\ y.type = w.type /\ y.status = st /\ y.nextUpdate = m
            /\ y.downgrade = w.downgrade /\ y.floor = w.floor
        BY ONLY <3>1, <3>3 DEF Ticket, StatusPut
      <4> QED
        BY ONLY <4>1, <4>2
    <3> QED
      BY <1>6, <2>0, <3>1, <3>2, <3>4
  <2> HIDE DEF y
  <2>4. TicketOK(y, tNow)
    BY <1>7, <1>10, <2>3 DEF TicketOK
  <2>5. y.nextUpdate > t.nextUpdate
    BY <1>1, <1>3, <2>3
  <2> QED
    BY <1>8, <1>10, <2>2, <2>3, <2>4, <2>5 DEF u
<1>11. CASE ~(k < t.target) /\ k = 4
  <2>1. PICK c \in Nat, e \in Nat \ {0} : c = t.nextUpdate + ForeverStep /\ e = t.amount * T!Multiplier[4]
    <3>1. t.nextUpdate + ForeverStep \in Nat
      BY <1>1, <1>3
    <3>2. t.amount * T!Multiplier[4] \in Nat \ {0}
      BY <1>1, TypesAre
    <3> QED
      BY <3>1, <3>2
  <2> DEFINE y == [v EXCEPT !.status = "withdrawing", !.nextUpdate = c, !.value = e]
  <2>2. T!Charged(x) = y
    <3>1. T!Charged(x) = forever
      BY <1>5, <1>6, <1>11, TypesAre
    <3> QED
      BY <1>6, <1>11, <2>1, <3>1 DEF forever
  <2>3. u = T!WithValue(y)
    BY <2>2 DEF u
  <2>4. /\ y \in Ticket /\ y.account = t.account /\ y.amount = t.amount /\ y.type = 4 /\ y.status = "withdrawing"
        /\ y.nextUpdate = c /\ y.value = e
    <3>1. /\ y.account = v.account /\ y.amount = v.amount /\ y.type = v.type /\ y.status = "withdrawing"
          /\ y.nextUpdate = c /\ y.value = e
      BY <1>6 DEF Ticket
    <3>2. y \in Ticket
      BY ONLY <1>6, c \in Nat, e \in Nat \ {0} DEF Ticket
    <3> QED
      BY <1>6, <1>11, <3>1, <3>2
  <2> HIDE DEF y
  <2>5. TicketOK(y, tNow)
    BY <2>1, <2>4 DEF TicketOK
  <2>6. y.nextUpdate > t.nextUpdate /\ y.value > 0
    BY <1>1, <1>3, <2>1, <2>4
  <2> QED
    BY <1>8, <1>11, <2>3, <2>4, <2>5, <2>6 DEF u
<1> QED
  BY <1>9, <1>10, <1>11 DEF u


\* A ticket that is locked forever and due loses value.
LEMMA DecayedOK ==
  ASSUME T!TicketAssumption, tNow \in 0..TicketTime, NEW t \in Ticket, TicketOK(t, tNow),
         t.nextUpdate <= tNow, t.status # "charging", t.type = 4, NEW f \in Nat, NEW x \in Ticket,
         x = [t EXCEPT !.floor = f]
  PROVE  UpdatedOK(t, T!WithValue(T!Decayed(x)))
<1>1. /\ t.account \in Holders /\ t.target \in T!Types /\ t.amount \in Nat \ {0} /\ t.type \in T!Types
      /\ t.status \in {"charging", "withdrawing", "stable"} /\ t.value \in Nat /\ t.nextUpdate \in Nat
  BY TicketType
<1>2. tNow \in Nat /\ T!Never \in Nat /\ ForeverStep \in Nat \ {0} /\ T!Never > tNow
  BY TicketConstants, NeverIsLate
<1>3. t.status = "withdrawing" /\ t.value > 0
  BY <1>1, <1>2 DEF TicketOK
<1>4. /\ x.account = t.account /\ x.amount = t.amount /\ x.target = t.target
      /\ x.value = t.value /\ x.type = t.type /\ x.status = t.status /\ x.nextUpdate = t.nextUpdate
      /\ x.downgrade = t.downgrade /\ x.floor = f
  BY FloorOK
<1> DEFINE delta == T!Max({1, (x.amount * T!Multiplier[x.type]) \div 4})
<1>5. delta \in Nat /\ delta >= 1
  <2> DEFINE q == (x.amount * T!Multiplier[x.type]) \div 4
  <2>1. x.amount * T!Multiplier[x.type] \in Nat
    BY <1>1, <1>4, TypesAre, MulNat
  <2>2. q \in Nat
    BY <2>1, DivFloor
  <2> HIDE DEF q
  <2>3. T!Max({1, q}) = IF 1 > q THEN 1 ELSE q
    BY <2>2, MaxOfTwo
  <2> QED
    BY <2>2, <2>3 DEF q
<1> DEFINE u == T!Decayed(x)
           none == [x EXCEPT !.value = 0, !.status = "stable", !.nextUpdate = T!Never]
           less == [x EXCEPT !.value = @ - delta, !.nextUpdate = @ + ForeverStep]
<1>6. u = IF x.value <= delta THEN none ELSE less
  BY DEF T!Decayed
<1> HIDE DEF delta, u, none, less
<1>7. ASSUME u \in Ticket, u.type = 4, u.amount = t.amount, u.account = t.account, u.value < t.value,
             u.nextUpdate > t.nextUpdate, u.status = "stable" => u.nextUpdate = T!Never,
             u.status = "withdrawing" => u.value > 0, u.status # "charging"
      PROVE  UpdatedOK(t, T!WithValue(u))
  <2>1. TicketOK(u, tNow)
    BY <1>7 DEF TicketOK
  <2>2. T!WithValue(u) = u
    BY <1>7, WithValueOK
  <2> QED
    BY <1>7, <2>1, <2>2 DEF UpdatedOK
<1>8. CASE x.value <= delta
  <2>1. u = none
    BY <1>6, <1>8
  <2>2. PICK m \in Nat : m = T!Never
    BY <1>2
  <2>3. u = [x EXCEPT !.value = 0, !.status = "stable", !.nextUpdate = m]
    BY <2>1, <2>2 DEF none
  <2>4. u \in Ticket
    BY <2>3 DEF Ticket
  <2>5. /\ u.type = x.type /\ u.amount = x.amount /\ u.account = x.account /\ u.value = 0 /\ u.status = "stable"
        /\ u.nextUpdate = m
    BY <2>3 DEF Ticket
  <2> QED
    BY <1>1, <1>2, <1>3, <1>4, <1>7, <2>2, <2>4, <2>5 DEF u
<1>9. CASE ~(x.value <= delta)
  <2>1. u = less
    BY <1>6, <1>9
  <2>2. PICK m \in Nat, e \in Nat : m = x.nextUpdate + ForeverStep /\ e = x.value - delta
    <3>1. x.nextUpdate + ForeverStep \in Nat /\ x.value - delta \in Nat
      BY <1>1, <1>2, <1>4, <1>5, <1>9
    <3> QED
      BY <3>1
  <2>3. u = [x EXCEPT !.value = e, !.nextUpdate = m]
    BY <2>1, <2>2 DEF less
  <2>4. u \in Ticket
    BY <2>3 DEF Ticket
  <2>5. /\ u.type = x.type /\ u.amount = x.amount /\ u.account = x.account /\ u.value = e /\ u.status = x.status
        /\ u.nextUpdate = m
    BY <2>3 DEF Ticket
  <2>6. e < t.value /\ e > 0 /\ m > t.nextUpdate
    BY <1>1, <1>2, <1>4, <1>5, <1>9, <2>2
  <2> QED
    BY <1>3, <1>4, <1>7, <2>4, <2>5, <2>6 DEF u
<1> QED
  BY <1>8, <1>9 DEF u

\* A ticket that loses its types and is due loses one, or has reached its target.
LEMMA WithdrawnOK ==
  ASSUME T!TicketAssumption, tNow \in 0..TicketTime, NEW t \in Ticket, TicketOK(t, tNow),
         t.nextUpdate <= tNow, t.status # "charging", t.type # 4, t.type # 0, NEW f \in Nat, NEW x \in Ticket,
         f = (IF t.floor > t.nextUpdate + T!LockTime(t.type) THEN t.floor ELSE t.nextUpdate + T!LockTime(t.type)),
         x = [t EXCEPT !.floor = f]
  PROVE  UpdatedOK(t, T!WithValue(T!Withdrawn(x)))
<1>1. /\ t.account \in Holders /\ t.target \in T!Types /\ t.amount \in Nat \ {0} /\ t.type \in T!Types
      /\ t.status \in {"charging", "withdrawing", "stable"} /\ t.value \in Nat /\ t.nextUpdate \in Nat
      /\ t.downgrade \in Nat /\ t.floor \in Nat
  BY TicketType
<1>2. tNow \in Nat /\ T!Never \in Nat /\ ChargingStep \in Nat \ {0} /\ T!Never > tNow /\ T!LockTime(t.type) \in Nat
  BY <1>1, TypesAre, TicketConstants, NeverIsLate
<1>3. t.status = "withdrawing"
  BY <1>1, <1>2 DEF TicketOK
<1>4. t.target <= t.type /\ t.downgrade = t.nextUpdate /\ t.type \in {1, 2, 3} /\ t.downgrade # T!Never
  <2>1. t.target <= t.type /\ t.downgrade = t.nextUpdate
    BY <1>3 DEF TicketOK
  <2> QED
    BY <1>1, <1>2, <2>1, TypesAre
<1>5. /\ x.account = t.account /\ x.amount = t.amount /\ x.target = t.target
      /\ x.value = t.value /\ x.type = t.type /\ x.status = t.status /\ x.nextUpdate = t.nextUpdate
      /\ x.downgrade = t.downgrade /\ x.floor = f
  BY FloorOK
<1>6. f < t.downgrade + T!LockTime(t.type) + ChargingStep
  <2>1. t.floor < t.downgrade + T!LockTime(t.type) + ChargingStep
    BY <1>4 DEF TicketOK
  <2> QED
    BY <1>1, <1>2, <1>4, <2>1
<1> DEFINE k == t.type - 1
           e == x.downgrade + DowngradeTime[x.type - 1]
           u == T!Withdrawn(x)
           done == [x EXCEPT !.status = "stable", !.downgrade = T!Never, !.nextUpdate = T!Never]
           down == [x EXCEPT !.type = @ - 1, !.downgrade = e, !.nextUpdate = e]
<1>7. u = IF x.type = x.target THEN done ELSE down
  BY DEF T!Withdrawn
<1>8. k \in {0, 1, 2} /\ k \in T!Types /\ DowngradeTime[k] \in Nat \ {0} /\ t.type = k + 1
  BY <1>4, TypesAre, TicketConstants
<1>9. e = t.nextUpdate + DowngradeTime[k] /\ e \in Nat
  BY <1>1, <1>4, <1>5, <1>8
<1>10. T!LockTime(t.type) = DowngradeTime[k] + T!LockTime(k) /\ T!LockTime(k) \in Nat
  BY <1>4, <1>8, TypesAre, TicketConstants
<1> HIDE DEF k, e, u, done, down
<1>11. ASSUME u \in Ticket, u.type # 4, u.amount = t.amount, u.account = t.account, TicketOK(u, tNow),
              u.nextUpdate > t.nextUpdate
       PROVE  UpdatedOK(t, T!WithValue(u))
  BY <1>11, WithValueOK DEF UpdatedOK, TicketOK
<1>12. CASE t.type = t.target
  <2>1. u = done
    BY <1>5, <1>7, <1>12
  <2>2. PICK m \in Nat : m = T!Never
    BY <1>2
  <2>3. u = [x EXCEPT !.status = "stable", !.downgrade = m, !.nextUpdate = m]
    BY <2>1, <2>2 DEF done
  <2>4. u \in Ticket
    BY <2>3 DEF Ticket
  <2>5. /\ u.type = x.type /\ u.amount = x.amount /\ u.account = x.account /\ u.status = "stable"
        /\ u.downgrade = m /\ u.nextUpdate = m /\ u.floor = x.floor
    BY <2>3 DEF Ticket
  <2>6. f < tNow + T!LockTime(t.type) + ChargingStep
    BY <1>1, <1>2, <1>4, <1>6
  <2>7. TicketOK(u, tNow)
    BY <1>5, <2>2, <2>5, <2>6 DEF TicketOK
  <2>8. u.nextUpdate > t.nextUpdate /\ u.type # 4 /\ u.amount = t.amount /\ u.account = t.account
    BY <1>1, <1>2, <1>5, <2>2, <2>5
  <2> QED
    BY <1>11, <2>4, <2>7, <2>8 DEF u
<1>13. CASE t.type # t.target
  <2>1. u = down
    BY <1>5, <1>7, <1>13
  <2>2. PICK m \in Nat : m = e
    BY <1>9
  <2>3. u = [x EXCEPT !.type = k, !.downgrade = m, !.nextUpdate = m]
    BY <1>5, <2>1, <2>2 DEF down, k
  <2>4. u \in Ticket
    BY <1>8, <2>3 DEF Ticket
  <2>5. /\ u.type = k /\ u.amount = x.amount /\ u.account = x.account /\ u.status = x.status
        /\ u.downgrade = m /\ u.nextUpdate = m /\ u.floor = x.floor /\ u.target = x.target
    BY <2>3 DEF Ticket
  <2>6. m # T!Never /\ m > t.nextUpdate
    <3>1. T!Never > tNow + DowngradeTime[k]
      BY <1>8, NeverIsLate
    <3> QED
      BY <1>1, <1>2, <1>8, <1>9, <2>2, <3>1
  <2>7. StartedBy(m, k, tNow) /\ f < m + T!LockTime(k) + ChargingStep /\ t.target <= k
    <3>1. t.target \in Int
      BY <1>1, TypesAre
    <3> QED
      BY <1>1, <1>2, <1>4, <1>6, <1>8, <1>9, <1>10, <1>13, <2>2, <3>1 DEF StartedBy
  <2>8. TicketOK(u, tNow) /\ u.type # 4
    BY <1>3, <1>5, <1>8, <2>5, <2>6, <2>7 DEF TicketOK
  <2> QED
    BY <1>5, <1>11, <2>4, <2>5, <2>6, <2>8 DEF u
<1> QED
  BY <1>12, <1>13 DEF u

\* An automatic update of a ticket that is due and not to be paid out.
LEMMA AutoUpdatedOK ==
  ASSUME T!TicketAssumption, tNow \in 0..TicketTime, NEW t \in Ticket, TicketOK(t, tNow),
         t.nextUpdate <= tNow, ~(t.status = "withdrawing" /\ t.type = 0)
  PROVE  UpdatedOK(t, T!AutoUpdated([t EXCEPT !.floor = T!Max({@, t.nextUpdate + T!LockTime(t.type)})]))
<1> DEFINE f == T!Max({t.floor, t.nextUpdate + T!LockTime(t.type)})
           x == [t EXCEPT !.floor = f]
<1>1. t.floor \in Nat /\ t.nextUpdate + T!LockTime(t.type) \in Nat /\ t.nextUpdate \in Nat /\ t.type \in T!Types
      /\ t.status \in {"charging", "withdrawing", "stable"}
  BY TicketType, TypesAre
<1>2. f = (IF t.floor > t.nextUpdate + T!LockTime(t.type) THEN t.floor ELSE t.nextUpdate + T!LockTime(t.type))
      /\ f \in Nat
  BY <1>1, MaxOfTwo
<1>3. [t EXCEPT !.floor = T!Max({@, t.nextUpdate + T!LockTime(t.type)})] = x
  OBVIOUS
<1> HIDE DEF f
<1>4. x \in Ticket /\ x.status = t.status /\ x.type = t.type
  BY <1>2, FloorOK
<1>5. x = [t EXCEPT !.floor = f]
  OBVIOUS
<1> HIDE DEF x
<1>6. CASE t.status = "charging"
  <2>1. T!AutoUpdated(x) = T!WithValue(T!Charged(x))
    BY <1>4, <1>6 DEF T!AutoUpdated
  <2> QED
    BY <1>2, <1>3, <1>4, <1>5, <1>6, <2>1, ChargedOK
<1>7. CASE t.status # "charging" /\ t.type = 4
  <2>1. T!AutoUpdated(x) = T!WithValue(T!Decayed(x))
    BY <1>4, <1>7, TypesAre DEF T!AutoUpdated
  <2> QED
    BY <1>2, <1>3, <1>4, <1>5, <1>7, <2>1, DecayedOK
<1>8. CASE t.status # "charging" /\ t.type # 4
  <2>1. T!AutoUpdated(x) = T!WithValue(T!Withdrawn(x))
    BY <1>4, <1>8, TypesAre DEF T!AutoUpdated
  <2>2. t.type # 0
    <3>1. tNow \in Nat /\ T!Never > tNow
      BY TicketConstants, NeverIsLate
    <3>2. t.status # "stable"
      BY <1>1, <3>1 DEF TicketOK
    <3> QED
      BY <1>1, <1>8, <3>2
  <2> QED
    BY <1>2, <1>3, <1>4, <1>5, <1>8, <2>1, <2>2, WithdrawnOK
<1> QED
  BY <1>6, <1>7, <1>8

-----------------------------------------------------------------------------
(* Tickets: what they count for.                                           *)

StatKeys == {"inactive", "pob", "pol", "pobValue", "polValue"}

Statistics == [inactive : Int, pob : Int, pol : Int, pobValue : Int, polValue : Int]

\* What ticket t counts for: its amount, or a number in the statistics of account a.
Weight(t, a, k) ==
  IF k = "amount" THEN t.amount ELSE IF t.account = a THEN T!Share(t)[k] ELSE 0

Weights(m, a, k) == [i \in DOMAIN m |-> Weight(m[i], a, k)]

\* What all tickets of m count for.
TotalOf(m, a, k) == SumOver(Weights(m, a, k), DOMAIN m)

\* The numbers of the statistics.
LEMMA StatType ==
  ASSUME NEW r \in Statistics, NEW k \in StatKeys
  PROVE  r[k] \in Int
BY DEF Statistics, StatKeys

\* A ticket counts for a number.
LEMMA WeightType ==
  ASSUME NEW t \in Ticket, NEW a, NEW k \in StatKeys \cup {"amount"}
  PROVE  Weight(t, a, k) \in Int
<1>1. k \in StatKeys => T!Share(t)[k] \in Int
  BY DEF Ticket, T!Share, StatKeys
<1>2. t.amount \in Int
  BY TicketType
<1> QED
  BY <1>1, <1>2 DEF Weight

\* n is m with ticket u put in place i.
Puts(m, i, u, n) ==
  /\ m \in Maps(Ticket) /\ IsFiniteSet(DOMAIN m) /\ i \in Nat /\ u \in Ticket
  /\ DOMAIN n = DOMAIN m \cup {i} /\ n = [j \in DOMAIN n |-> n[j]] /\ n[i] = u
  /\ \A j \in DOMAIN m \ {i} : n[j] = m[j]

\* A ticket is put in the place of another one, or in a new place.
LEMMA TotalPut ==
  ASSUME NEW m, NEW i, NEW u, NEW n, Puts(m, i, u, n)
  PROVE  /\ n \in Maps(Ticket) /\ IsFiniteSet(DOMAIN n)
         /\ \A a, k : k \in StatKeys \cup {"amount"} =>
              TotalOf(n, a, k) = TotalOf(m, a, k) + Weight(u, a, k)
                               - (IF i \in DOMAIN m THEN Weight(m[i], a, k) ELSE 0)
<1>0. /\ m \in Maps(Ticket) /\ IsFiniteSet(DOMAIN m) /\ i \in Nat /\ u \in Ticket
      /\ DOMAIN n = DOMAIN m \cup {i} /\ n = [j \in DOMAIN n |-> n[j]] /\ n[i] = u
      /\ \A j \in DOMAIN m \ {i} : n[j] = m[j]
  BY DEF Puts
<1> USE <1>0
<1>1. \A j \in DOMAIN m : m[j] \in Ticket /\ j \in Nat
  BY MapType
<1>2. \A j \in DOMAIN n : n[j] \in Ticket /\ j \in Nat
  BY <1>1
<1>3. n \in Maps(Ticket)
  <2>1. n \in [DOMAIN n -> Ticket] /\ DOMAIN n \in SUBSET Nat
    BY <1>2
  <2> QED
    BY <2>1 DEF Maps
<1>4. IsFiniteSet(DOMAIN n)
  BY FS_AddElement
<1>5. ASSUME NEW a, NEW k \in StatKeys \cup {"amount"}
      PROVE  TotalOf(n, a, k) = TotalOf(m, a, k) + Weight(u, a, k)
                              - (IF i \in DOMAIN m THEN Weight(m[i], a, k) ELSE 0)
  <2> DEFINE f == Weights(m, a, k)
             g == Weights(n, a, k)
             S == DOMAIN m
  <2>1. /\ \A j \in S : f[j] = Weight(m[j], a, k) /\ f[j] \in Int
        /\ \A j \in DOMAIN n : g[j] = Weight(n[j], a, k) /\ g[j] \in Int
    BY <1>1, <1>2, WeightType DEF Weights
  <2>2. \A j \in S \ {i} : f[j] = g[j]
    BY <2>1
  <2>3. g[i] = Weight(u, a, k)
    BY <2>1
  <2>4. TotalOf(m, a, k) = SumOver(f, S) /\ TotalOf(n, a, k) = SumOver(g, DOMAIN n)
    BY DEF TotalOf
  <2> HIDE DEF f, g
  <2>5. CASE i \in S
    <3>1. DOMAIN n = S
      BY <2>5
    <3>2. SumOver(g, S) = SumOver(f, S) + g[i] - f[i]
      BY <2>1, <2>2, <2>5, <3>1, SumChange
    <3> QED
      BY <2>1, <2>3, <2>4, <2>5, <3>1, <3>2
  <2>6. CASE i \notin S
    <3>1. \A j \in S \cup {i} : g[j] \in Int
      BY <2>1
    <3>2. SumOver(g, S \cup {i}) = g[i] + SumOver(g, S)
      BY <2>6, <3>1, SumAdd
    <3>3. SumOver(g, S) = SumOver(f, S)
      BY <2>2, <2>6, SumSame
    <3>4. SumOver(f, S) \in Int /\ g[i] \in Int
      BY <2>1, SumType
    <3> QED
      BY <2>3, <2>4, <2>6, <3>2, <3>3, <3>4
  <2> QED
    BY <2>5, <2>6
<1> QED
  BY <1>3, <1>4, <1>5

\* A ticket is removed.
LEMMA TotalRemove ==
  ASSUME NEW m \in Maps(Ticket), IsFiniteSet(DOMAIN m), NEW i \in DOMAIN m, NEW n,
         n = Restrict(m, DOMAIN m \ {i})
  PROVE  /\ n \in Maps(Ticket) /\ IsFiniteSet(DOMAIN n) /\ DOMAIN n = DOMAIN m \ {i}
         /\ \A j \in DOMAIN n : n[j] = m[j]
         /\ \A a, k : k \in StatKeys \cup {"amount"} => TotalOf(n, a, k) = TotalOf(m, a, k) - Weight(m[i], a, k)
<1>1. \A j \in DOMAIN m : m[j] \in Ticket /\ j \in Nat
  BY MapType
<1>2. DOMAIN n = DOMAIN m \ {i} /\ \A j \in DOMAIN n : n[j] = m[j]
  BY DEF Restrict
<1>3. n \in Maps(Ticket)
  <2>1. n \in [DOMAIN n -> Ticket] /\ DOMAIN n \in SUBSET Nat
    BY <1>1, <1>2 DEF Restrict
  <2> QED
    BY <2>1 DEF Maps
<1>4. IsFiniteSet(DOMAIN n)
  BY <1>2, FS_Subset
<1>5. ASSUME NEW a, NEW k \in StatKeys \cup {"amount"}
      PROVE  TotalOf(n, a, k) = TotalOf(m, a, k) - Weight(m[i], a, k)
  <2> DEFINE f == Weights(m, a, k)
             g == Weights(n, a, k)
             S == DOMAIN m
  <2>1. \A j \in S : f[j] = Weight(m[j], a, k) /\ f[j] \in Int
    BY <1>1, WeightType DEF Weights
  <2>2. \A j \in S \ {i} : f[j] = g[j]
    BY <1>2, <2>1 DEF Weights
  <2>4. TotalOf(m, a, k) = SumOver(f, S) /\ TotalOf(n, a, k) = SumOver(g, S \ {i})
    BY <1>2 DEF TotalOf
  <2> HIDE DEF f, g
  <2>5. SumOver(f, S) = f[i] + SumOver(f, S \ {i})
    BY <2>1, SumRemove
  <2>6. IsFiniteSet(S \ {i})
    BY <1>2, <1>4
  <2>7. SumOver(f, S \ {i}) = SumOver(g, S \ {i}) /\ SumOver(f, S \ {i}) \in Int
    BY <2>1, <2>2, <2>6, SumSame, SumType
  <2> QED
    BY <2>1, <2>4, <2>5, <2>7
<1> QED
  BY <1>2, <1>3, <1>4, <1>5

\* The statistics s and totals q are those of the tickets of m.
Exact(m, s, q) ==
  /\ s \in [Holders -> Statistics]
  /\ \A a \in Holders, k \in StatKeys : s[a][k] = TotalOf(m, a, k)
  /\ q \in [pob : Int, inactive : Int]
  /\ q.pob = SumOver([a \in Holders |-> s[a].pob], Holders)
  /\ q.inactive = SumOver([a \in Holders |-> s[a].inactive], Holders)

\* The statistics of b become r, and the totals move by as much.
LEMMA ExactMoves ==
  ASSUME T!TicketAssumption, NEW m, NEW s, NEW q, Exact(m, s, q), NEW b \in Holders, NEW r \in Statistics, NEW n,
         \A k \in StatKeys : TotalOf(n, b, k) = TotalOf(m, b, k) + (r[k] - s[b][k]),
         \A a \in Holders \ {b}, k \in StatKeys : TotalOf(n, a, k) = TotalOf(m, a, k)
  PROVE  Exact(n, [s EXCEPT ![b] = r],
               [pob |-> q.pob + (r.pob - s[b].pob), inactive |-> q.inactive + (r.inactive - s[b].inactive)])
<1> DEFINE s2 == [s EXCEPT ![b] = r]
           q2 == [pob |-> q.pob + (r.pob - s[b].pob), inactive |-> q.inactive + (r.inactive - s[b].inactive)]
<1>1. s \in [Holders -> Statistics] /\ q.pob \in Int /\ q.inactive \in Int /\ IsFiniteSet(Holders)
  BY TicketConstants DEF Exact
<1>2. s2 \in [Holders -> Statistics] /\ s2[b] = r /\ \A a \in Holders \ {b} : s2[a] = s[a]
  BY <1>1
<1>3. \A x \in Statistics : x.pob \in Int /\ x.inactive \in Int
  BY DEF Statistics
<1> HIDE DEF s2
<1>4. ASSUME NEW a \in Holders, NEW k \in StatKeys PROVE s2[a][k] = TotalOf(n, a, k)
  <2>1. CASE a = b
    <3>1. s[b][k] = TotalOf(m, b, k) /\ s[b][k] \in Int /\ r[k] \in Int
      BY <1>1, StatType DEF Exact
    <3> QED
      BY <1>2, <2>1, <3>1
  <2>2. CASE a # b
    BY <1>2, <2>2 DEF Exact
  <2> QED
    BY <2>1, <2>2
<1>5. SumOver([a \in Holders |-> s2[a].pob], Holders) = q.pob + (r.pob - s[b].pob)
  <2> DEFINE f == [a \in Holders |-> s[a].pob]
             g == [a \in Holders |-> s2[a].pob]
  <2>1. /\ \A a \in Holders : f[a] \in Int /\ g[a] \in Int
        /\ \A a \in Holders \ {b} : f[a] = g[a]
        /\ f[b] = s[b].pob /\ g[b] = r.pob /\ q.pob = SumOver(f, Holders)
    BY <1>1, <1>2, <1>3 DEF Exact
  <2> HIDE DEF f, g
  <2>2. SumOver(g, Holders) = SumOver(f, Holders) + g[b] - f[b]
    BY <1>1, <2>1, SumChange
  <2>3. SumOver(g, Holders) = q.pob + (r.pob - s[b].pob)
    BY <1>1, <2>1, <2>2
  <2> QED
    BY <2>3 DEF g
<1>6. SumOver([a \in Holders |-> s2[a].inactive], Holders) = q.inactive + (r.inactive - s[b].inactive)
  <2> DEFINE f == [a \in Holders |-> s[a].inactive]
             g == [a \in Holders |-> s2[a].inactive]
  <2>1. /\ \A a \in Holders : f[a] \in Int /\ g[a] \in Int
        /\ \A a \in Holders \ {b} : f[a] = g[a]
        /\ f[b] = s[b].inactive /\ g[b] = r.inactive /\ q.inactive = SumOver(f, Holders)
    BY <1>1, <1>2, <1>3 DEF Exact
  <2> HIDE DEF f, g
  <2>2. SumOver(g, Holders) = SumOver(f, Holders) + g[b] - f[b]
    BY <1>1, <2>1, SumChange
  <2>3. SumOver(g, Holders) = q.inactive + (r.inactive - s[b].inactive)
    BY <1>1, <2>1, <2>2
  <2> QED
    BY <2>3 DEF g
<1>7. q2 \in [pob : Int, inactive : Int] /\ q2.pob = q.pob + (r.pob - s[b].pob)
      /\ q2.inactive = q.inactive + (r.inactive - s[b].inactive)
  <2>1. s[b].pob \in Int /\ r.pob \in Int /\ s[b].inactive \in Int /\ r.inactive \in Int
    BY <1>1, <1>3
  <2> QED
    BY <1>1, <2>1
<1> HIDE DEF q2
<1>8. Exact(n, s2, q2)
  BY <1>2, <1>4, <1>5, <1>6, <1>7 DEF Exact
<1> QED
  BY <1>8 DEF s2, q2

\* The totals stay when burnt and inactive amounts do.
LEMMA ExactStays ==
  ASSUME T!TicketAssumption, NEW m, NEW s, NEW q, Exact(m, s, q), NEW b \in Holders, NEW r \in Statistics, NEW n,
         r.pob = s[b].pob, r.inactive = s[b].inactive,
         \A k \in StatKeys : TotalOf(n, b, k) = TotalOf(m, b, k) + (r[k] - s[b][k]),
         \A a \in Holders \ {b}, k \in StatKeys : TotalOf(n, a, k) = TotalOf(m, a, k)
  PROVE  Exact(n, [s EXCEPT ![b] = r], q)
<1> DEFINE q2 == [pob |-> q.pob + (r.pob - s[b].pob), inactive |-> q.inactive + (r.inactive - s[b].inactive)]
<1>1. Exact(n, [s EXCEPT ![b] = r], q2)
  BY ExactMoves
<1>2. q \in [pob : Int, inactive : Int] /\ s[b] \in Statistics
  BY DEF Exact
<1>3. r.pob \in Int /\ r.inactive \in Int
  BY DEF Statistics
<1>4. r.pob - s[b].pob = 0 /\ r.inactive - s[b].inactive = 0
  BY <1>3
<1>5. q2 = [pob |-> q.pob + 0, inactive |-> q.inactive + 0]
  BY <1>4
<1>6. q2 = q
  <2>1. q.pob + 0 = q.pob /\ q.inactive + 0 = q.inactive
    BY <1>2
  <2>2. q2 = [pob |-> q.pob, inactive |-> q.inactive]
    BY <1>5, <2>1
  <2> QED
    BY <1>2, <2>2
<1> QED
  BY <1>1, <1>6

\* What a ticket is in the statistics.
LEMMA ShareIs ==
  ASSUME T!TicketAssumption, NEW t \in Ticket
  PROVE  /\ t.type # 4 =>
              /\ T!Share(t)["inactive"] = 0 /\ T!Share(t)["pob"] = 0 /\ T!Share(t)["pobValue"] = 0
              /\ T!Share(t)["pol"] = t.amount /\ T!Share(t)["polValue"] = t.value
         /\ t.type = 4 /\ t.value > 0 =>
              /\ T!Share(t)["inactive"] = 0 /\ T!Share(t)["pob"] = t.amount /\ T!Share(t)["pobValue"] = t.value
              /\ T!Share(t)["pol"] = 0 /\ T!Share(t)["polValue"] = 0
         /\ t.type = 4 /\ t.value = 0 =>
              /\ T!Share(t)["inactive"] = t.amount /\ T!Share(t)["pob"] = 0 /\ T!Share(t)["pobValue"] = 0
              /\ T!Share(t)["pol"] = 0 /\ T!Share(t)["polValue"] = 0
BY TypesAre DEF T!Share

\* What WithLocked adds.
LEMMA WithLockedIs ==
  ASSUME NEW s \in Statistics, NEW n \in Int, NEW v \in Int
  PROVE  LET r == T!WithLocked(s, n, v)
         IN /\ r \in Statistics /\ r.pob = s.pob /\ r.inactive = s.inactive
            /\ r["inactive"] = s["inactive"] + 0 /\ r["pob"] = s["pob"] + 0 /\ r["pobValue"] = s["pobValue"] + 0
            /\ r["pol"] = s["pol"] + n /\ r["polValue"] = s["polValue"] + v
<1> DEFINE r == T!WithLocked(s, n, v)
<1>1. r = [s EXCEPT !.pol = s.pol + n, !.polValue = s.polValue + v]
  BY DEF T!WithLocked
<1>2. /\ s.pol \in Int /\ s.polValue \in Int /\ s.pob \in Int /\ s.pobValue \in Int /\ s.inactive \in Int
      /\ s.pol + n \in Int /\ s.polValue + v \in Int
  BY DEF Statistics
<1> HIDE DEF r
<1>3. r \in Statistics
  BY <1>1, <1>2 DEF Statistics
<1>4. r.pob = s.pob /\ r.inactive = s.inactive /\ r.pobValue = s.pobValue /\ r.pol = s.pol + n /\ r.polValue = s.polValue + v
  BY <1>1 DEF Statistics
<1> QED
  BY <1>2, <1>3, <1>4 DEF r

\* What UpdateStats adds.
LEMMA UpdateStatsIs ==
  ASSUME NEW s \in Statistics, NEW t \in Ticket, NEW u \in Ticket, NEW v \in Int, NEW r, r = T!UpdateStats(s, t, u, v)
  PROVE  /\ r \in Statistics /\ r.pob = s.pob /\ r.inactive = s.inactive
         /\ r["inactive"] = s["inactive"] /\ r["pob"] = s["pob"] /\ r["pobValue"] = s["pobValue"]
         /\ r["pol"] = s["pol"] /\ r["polValue"] = s["polValue"] + (v + u.value - t.value)
<1>1. r = [s EXCEPT !.polValue = s.polValue + (v + u.value - t.value)]
  BY DEF T!UpdateStats
<1>2. s.polValue + (v + u.value - t.value) \in Int
  BY DEF Statistics, Ticket
<1>3. r \in Statistics
  BY <1>1, <1>2 DEF Statistics
<1>4. r.pob = s.pob /\ r.inactive = s.inactive /\ r.pobValue = s.pobValue /\ r.pol = s.pol
      /\ r.polValue = s.polValue + (v + u.value - t.value)
  BY <1>1 DEF Statistics
<1> QED
  BY <1>3, <1>4

\* An automatic update moves the statistics by what the ticket counts for.
LEMMA AutoStatsIs ==
  ASSUME T!TicketAssumption, NEW s \in Statistics, NEW t \in Ticket, NEW u, UpdatedOK(t, u)
  PROVE  LET r == T!AutoStats(s, t, u)
         IN /\ r \in Statistics
            /\ \A k \in StatKeys : r[k] = s[k] + (T!Share(u)[k] - T!Share(t)[k])
<1> DEFINE r == T!AutoStats(s, t, u)
<1>1. /\ u \in Ticket /\ u.amount = t.amount /\ t.amount \in Nat /\ u.value \in Nat /\ t.value \in Nat
      /\ (t.type = 4 => u.type = 4 /\ u.value < t.value) /\ (t.type # 4 /\ u.type = 4 => u.value > 0)
  BY TicketType DEF UpdatedOK
<1>2. s.pol \in Int /\ s.polValue \in Int /\ s.pob \in Int /\ s.pobValue \in Int /\ s.inactive \in Int
  BY DEF Statistics
<1>3. /\ T!Share(t)["inactive"] \in Int /\ T!Share(t)["pob"] \in Int /\ T!Share(t)["pobValue"] \in Int
      /\ T!Share(t)["pol"] \in Int /\ T!Share(t)["polValue"] \in Int
  BY <1>1, ShareIs
<1>4. ASSUME NEW i \in Int, NEW b \in Int, NEW l \in Int, NEW x \in Int, NEW y \in Int,
             r = [inactive |-> s.inactive + i, pob |-> s.pob + b, pol |-> s.pol + l,
                  pobValue |-> s.pobValue + x, polValue |-> s.polValue + y],
             /\ i = T!Share(u)["inactive"] - T!Share(t)["inactive"]
             /\ b = T!Share(u)["pob"] - T!Share(t)["pob"]
             /\ l = T!Share(u)["pol"] - T!Share(t)["pol"]
             /\ x = T!Share(u)["pobValue"] - T!Share(t)["pobValue"]
             /\ y = T!Share(u)["polValue"] - T!Share(t)["polValue"]
      PROVE  r \in Statistics /\ \A k \in StatKeys : r[k] = s[k] + (T!Share(u)[k] - T!Share(t)[k])
  <2> HIDE DEF r
  <2>1. r \in Statistics
    BY <1>2, <1>4 DEF Statistics
  <2>2. ASSUME NEW k \in StatKeys PROVE r[k] = s[k] + (T!Share(u)[k] - T!Share(t)[k])
    <3>1. CASE k = "inactive"
      BY <1>4, <3>1
    <3>2. CASE k = "pob"
      BY <1>4, <3>2
    <3>3. CASE k = "pol"
      BY <1>4, <3>3
    <3>4. CASE k = "pobValue"
      BY <1>4, <3>4
    <3>5. CASE k = "polValue"
      BY <1>4, <3>5
    <3> QED
      BY <3>1, <3>2, <3>3, <3>4, <3>5 DEF StatKeys
  <2> QED
    BY <2>1, <2>2
<1>5. CASE t.type = 4 /\ u.value = 0
  <2>1. r = [inactive |-> s.inactive + u.amount, pob |-> s.pob + (-u.amount), pol |-> s.pol - 0,
             pobValue |-> s.pobValue + (u.value - t.value), polValue |-> s.polValue - 0]
    BY <1>5, TypesAre DEF T!AutoStats
  <2>2. r = [inactive |-> s.inactive + u.amount, pob |-> s.pob + (-u.amount), pol |-> s.pol + 0,
             pobValue |-> s.pobValue + (u.value - t.value), polValue |-> s.polValue + 0]
    BY <1>2, <2>1
  <2> HIDE DEF r
  <2>3. t.value > 0 /\ u.type = 4 /\ u.amount \in Int /\ -u.amount \in Int /\ u.value - t.value \in Int
    BY <1>1, <1>5
  <2>4. /\ T!Share(t)["inactive"] = 0 /\ T!Share(t)["pob"] = t.amount /\ T!Share(t)["pobValue"] = t.value
        /\ T!Share(t)["pol"] = 0 /\ T!Share(t)["polValue"] = 0
    BY <1>5, <2>3, ShareIs
  <2>5. /\ T!Share(u)["inactive"] = u.amount /\ T!Share(u)["pob"] = 0 /\ T!Share(u)["pobValue"] = 0
        /\ T!Share(u)["pol"] = 0 /\ T!Share(u)["polValue"] = 0
    BY <1>1, <1>5, <2>3, ShareIs
  <2> QED
    BY <1>1, <1>4, <1>5, <2>2, <2>3, <2>4, <2>5 DEF r
<1>6. CASE t.type = 4 /\ u.value # 0
  <2>1. r = [inactive |-> s.inactive + 0, pob |-> s.pob + 0, pol |-> s.pol - 0,
             pobValue |-> s.pobValue + (u.value - t.value), polValue |-> s.polValue - 0]
    BY <1>6, TypesAre DEF T!AutoStats
  <2>2. r = [inactive |-> s.inactive + 0, pob |-> s.pob + 0, pol |-> s.pol + 0,
             pobValue |-> s.pobValue + (u.value - t.value), polValue |-> s.polValue + 0]
    BY <1>2, <2>1
  <2> HIDE DEF r
  <2>3. t.value > 0 /\ u.value > 0 /\ u.type = 4 /\ u.value - t.value \in Int
    BY <1>1, <1>6
  <2>4. /\ T!Share(t)["inactive"] = 0 /\ T!Share(t)["pob"] = t.amount /\ T!Share(t)["pobValue"] = t.value
        /\ T!Share(t)["pol"] = 0 /\ T!Share(t)["polValue"] = 0
    BY <1>6, <2>3, ShareIs
  <2>5. /\ T!Share(u)["inactive"] = 0 /\ T!Share(u)["pob"] = u.amount /\ T!Share(u)["pobValue"] = u.value
        /\ T!Share(u)["pol"] = 0 /\ T!Share(u)["polValue"] = 0
    BY <1>1, <2>3, ShareIs
  <2> QED
    BY <1>1, <1>4, <2>2, <2>3, <2>4, <2>5 DEF r
<1>7. CASE t.type # 4 /\ u.type = 4
  <2>1. r = [inactive |-> s.inactive + 0, pob |-> s.pob + u.amount, pol |-> s.pol - u.amount,
             pobValue |-> s.pobValue + u.value, polValue |-> s.polValue - t.value]
    BY <1>7, TypesAre DEF T!AutoStats
  <2>2. r = [inactive |-> s.inactive + 0, pob |-> s.pob + u.amount, pol |-> s.pol + (-u.amount),
             pobValue |-> s.pobValue + u.value, polValue |-> s.polValue + (-t.value)]
    BY <1>1, <1>2, <2>1
  <2> HIDE DEF r
  <2>3. u.value > 0 /\ u.amount \in Int /\ -u.amount \in Int /\ -t.value \in Int /\ u.value \in Int
    BY <1>1, <1>7
  <2>4. /\ T!Share(t)["inactive"] = 0 /\ T!Share(t)["pob"] = 0 /\ T!Share(t)["pobValue"] = 0
        /\ T!Share(t)["pol"] = t.amount /\ T!Share(t)["polValue"] = t.value
    BY <1>7, ShareIs
  <2>5. /\ T!Share(u)["inactive"] = 0 /\ T!Share(u)["pob"] = u.amount /\ T!Share(u)["pobValue"] = u.value
        /\ T!Share(u)["pol"] = 0 /\ T!Share(u)["polValue"] = 0
    BY <1>1, <1>7, <2>3, ShareIs
  <2> QED
    BY <1>1, <1>4, <2>2, <2>3, <2>4, <2>5 DEF r
<1>8. CASE t.type # 4 /\ u.type # 4
  <2>1. r = [s EXCEPT !.polValue = s.polValue + (u.value - t.value)]
    BY <1>8, TypesAre DEF T!AutoStats
  <2>2. PICK y \in Int : y = u.value - t.value
    BY <1>1
  <2>3. r = [inactive |-> s.inactive, pob |-> s.pob, pol |-> s.pol, pobValue |-> s.pobValue,
             polValue |-> s.polValue + y]
    BY <2>1, <2>2 DEF Statistics
  <2>6. r = [inactive |-> s.inactive + 0, pob |-> s.pob + 0, pol |-> s.pol + 0, pobValue |-> s.pobValue + 0,
             polValue |-> s.polValue + y]
    BY <1>2, <2>3
  <2> HIDE DEF r
  <2>4. /\ T!Share(t)["inactive"] = 0 /\ T!Share(t)["pob"] = 0 /\ T!Share(t)["pobValue"] = 0
        /\ T!Share(t)["pol"] = t.amount /\ T!Share(t)["polValue"] = t.value
    BY <1>8, ShareIs
  <2>5. /\ T!Share(u)["inactive"] = 0 /\ T!Share(u)["pob"] = 0 /\ T!Share(u)["pobValue"] = 0
        /\ T!Share(u)["pol"] = u.amount /\ T!Share(u)["polValue"] = u.value
    BY <1>1, <1>8, ShareIs
  <2> QED
    BY <1>1, <1>4, <2>2, <2>4, <2>5, <2>6 DEF r
<1> QED
  BY <1>5, <1>6, <1>7, <1>8 DEF r

-----------------------------------------------------------------------------
(* Tickets: the steps.                                                     *)

\* What was due when a block or an update began is still to be processed.
Pending(m, t, c, ids) ==
  \A i \in DOMAIN m : m[i].nextUpdate <= t => c # "none" /\ (c = "update" => i \in ids)

TInv ==
  /\ tBalance \in [Holders -> Nat] /\ tNow \in 0..TicketTime /\ tNext \in Nat \ {0}
  /\ tickets \in Maps(Ticket) /\ IsFiniteSet(DOMAIN tickets)
  /\ \A i \in DOMAIN tickets : i < tNext /\ TicketOK(tickets[i], tNow)
  /\ Exact(tickets, stats, totals)
  /\ SumOver(tBalance, Holders) + TotalOf(tickets, 0, "amount") = TicketSupply * Cardinality(Holders)
  /\ Pending(tickets, tNow, cause, concerned)

\* What the invariant says of the tickets.
LEMMA TicketsNow ==
  ASSUME T!TicketAssumption, TInv
  PROVE  /\ tNow \in Nat /\ tNext \in Nat /\ T!Live = DOMAIN tickets
         /\ \A i \in DOMAIN tickets : i \in Nat /\ tickets[i] \in Ticket
         /\ \A a, k : k \in StatKeys \cup {"amount"} => TotalOf(tickets, a, k) \in Int
<1>1. tNow \in Nat /\ tNext \in Nat /\ T!Live = DOMAIN tickets
  BY TicketConstants DEF TInv, T!Live
<1>2. \A i \in DOMAIN tickets : i \in Nat /\ tickets[i] \in Ticket
  BY MapType DEF TInv
<1>3. ASSUME NEW a, NEW k \in StatKeys \cup {"amount"} PROVE TotalOf(tickets, a, k) \in Int
  <2> DEFINE f == Weights(tickets, a, k)
  <2>1. \A i \in DOMAIN tickets : f[i] \in Int
    BY <1>2, WeightType DEF Weights
  <2> HIDE DEF f
  <2>2. IsFiniteSet(DOMAIN tickets)
    BY DEF TInv
  <2>3. SumOver(f, DOMAIN tickets) \in Int
    BY <2>1, <2>2, SumType
  <2> QED
    BY <2>3 DEF TotalOf, f
<1> QED
  BY <1>1, <1>2, <1>3

\* An account pays or gets some tokens.
LEMMA HolderPays ==
  ASSUME T!TicketAssumption, tBalance \in [Holders -> Nat], NEW a \in Holders, NEW n \in Int, tBalance[a] + n >= 0
  PROVE  LET b == [tBalance EXCEPT ![a] = @ + n]
         IN b \in [Holders -> Nat] /\ SumOver(b, Holders) = SumOver(tBalance, Holders) + n
            /\ SumOver(tBalance, Holders) \in Int
<1> DEFINE b == [tBalance EXCEPT ![a] = @ + n]
<1>1. b \in [Holders -> Nat] /\ b[a] = tBalance[a] + n /\ \A x \in Holders \ {a} : b[x] = tBalance[x]
  OBVIOUS
<1> HIDE DEF b
<1>2. \A x \in Holders : tBalance[x] \in Int /\ b[x] \in Int
  BY <1>1
<1>3. IsFiniteSet(Holders)
  BY TicketConstants
<1>4. SumOver(b, Holders) = SumOver(tBalance, Holders) + b[a] - tBalance[a] /\ SumOver(tBalance, Holders) \in Int
  BY <1>1, <1>2, <1>3, SumChange, SumType
<1> QED
  BY <1>1, <1>2, <1>4 DEF b

\* The weights of one ticket.
LEMMA WeightIs ==
  ASSUME NEW t \in Ticket, NEW a
  PROVE  /\ Weight(t, a, "amount") = t.amount
         /\ \A k \in StatKeys : Weight(t, a, k) = IF t.account = a THEN T!Share(t)[k] ELSE 0
BY DEF Weight, StatKeys

\* ticket_create keeps the invariant.
LEMMA CreateTicketKeeps ==
  ASSUME T!TicketAssumption, TInv, NEW a \in Holders, NEW k \in T!Types, NEW n \in TicketAmounts,
         T!ticket_create(a, k, n)
  PROVE  TInv'
<1> DEFINE t == T!NewTicket(a, k, n)
           m == [i \in DOMAIN tickets \cup {tNext} |-> IF i = tNext THEN t ELSE tickets[i]]
           r == T!WithLocked(stats[a], n, t.value)
<1>1. /\ cause = "none" /\ k # T!liquid /\ tBalance[a] >= n
      /\ tBalance' = [tBalance EXCEPT ![a] = @ - n] /\ tickets' = m /\ tNext' = tNext + 1
      /\ stats' = [stats EXCEPT ![a] = r]
      /\ totals' = totals /\ tNow' = tNow /\ cause' = cause /\ concerned' = concerned
  BY TicketsNow DEF T!ticket_create
<1>2. /\ tBalance \in [Holders -> Nat] /\ tNow \in 0..TicketTime /\ tNext \in Nat \ {0}
      /\ tickets \in Maps(Ticket) /\ IsFiniteSet(DOMAIN tickets) /\ Exact(tickets, stats, totals)
      /\ \A i \in DOMAIN tickets : i < tNext /\ TicketOK(tickets[i], tNow) /\ i \in Nat
      /\ tNow \in Nat /\ n \in Nat \ {0}
  BY TicketsNow, TicketConstants DEF TInv
<1>3. /\ t \in Ticket /\ TicketOK(t, tNow) /\ t.account = a /\ t.amount = n /\ t.type = 0 /\ t.nextUpdate > tNow
      /\ t.value \in Nat
  BY <1>1, <1>2, NewTicketOK, TicketType
<1>4. tNext \notin DOMAIN tickets
  BY <1>2
<1>5. /\ DOMAIN m = DOMAIN tickets \cup {tNext} /\ m[tNext] = t
      /\ \A j \in DOMAIN tickets \ {tNext} : m[j] = tickets[j]
  OBVIOUS
<1>6. m = [j \in DOMAIN m |-> m[j]]
  OBVIOUS
<1> HIDE DEF m, t
<1>7. /\ m \in Maps(Ticket) /\ IsFiniteSet(DOMAIN m)
      /\ \A b, c : c \in StatKeys \cup {"amount"} => TotalOf(m, b, c) = TotalOf(tickets, b, c) + Weight(t, b, c) - 0
  <2>1. Puts(tickets, tNext, t, m)
    BY <1>2, <1>3, <1>5, <1>6 DEF Puts
  <2> QED
    BY ONLY <2>1, <1>4, TotalPut
<1>8. stats \in [Holders -> Statistics] /\ stats[a] \in Statistics
  BY <1>2 DEF Exact
<1>9. Exact(m, stats', totals)
  <2>1. /\ r \in Statistics /\ r.pob = stats[a].pob /\ r.inactive = stats[a].inactive
        /\ r["inactive"] = stats[a]["inactive"] + 0 /\ r["pob"] = stats[a]["pob"] + 0
        /\ r["pobValue"] = stats[a]["pobValue"] + 0
        /\ r["pol"] = stats[a]["pol"] + n /\ r["polValue"] = stats[a]["polValue"] + t.value
    <3>1. PICK v \in Int : v = t.value
      BY <1>3
    <3>2. r = T!WithLocked(stats[a], n, v) /\ n \in Int
      BY <1>2, <3>1
    <3> HIDE DEF r
    <3>3. PICK s \in Statistics : s = stats[a]
      BY <1>8
    <3>4. r = T!WithLocked(s, n, v)
      BY <3>2, <3>3
    <3>5. /\ r \in Statistics /\ r.pob = s.pob /\ r.inactive = s.inactive
          /\ r["inactive"] = s["inactive"] + 0 /\ r["pob"] = s["pob"] + 0
          /\ r["pobValue"] = s["pobValue"] + 0
          /\ r["pol"] = s["pol"] + n /\ r["polValue"] = s["polValue"] + v
      BY <3>2, <3>4, WithLockedIs
    <3> QED
      BY <3>1, <3>3, <3>5
  <2> HIDE DEF r
  <2>2. /\ T!Share(t)["inactive"] = 0 /\ T!Share(t)["pob"] = 0 /\ T!Share(t)["pobValue"] = 0
        /\ T!Share(t)["pol"] = n /\ T!Share(t)["polValue"] = t.value
    BY <1>3, ShareIs
  <2>3. ASSUME NEW c \in StatKeys PROVE r[c] = stats[a][c] + T!Share(t)[c]
    BY <2>1, <2>2 DEF StatKeys
  <2>4. ASSUME NEW c \in StatKeys PROVE TotalOf(m, a, c) = TotalOf(tickets, a, c) + (r[c] - stats[a][c])
    <3>1. Weight(t, a, c) = T!Share(t)[c]
      BY <1>3, WeightIs
    <3>2. r[c] \in Int /\ stats[a][c] \in Int /\ T!Share(t)[c] \in Int /\ TotalOf(tickets, a, c) \in Int
      <4>1. Weight(t, a, c) \in Int
        BY <1>3, WeightType
      <4> QED
        BY <1>8, <2>1, <3>1, <4>1, StatType, TicketsNow
    <3>3. TotalOf(m, a, c) = TotalOf(tickets, a, c) + Weight(t, a, c) - 0
      BY <1>7
    <3> QED
      BY <2>3, <3>1, <3>2, <3>3
  <2>5. ASSUME NEW b \in Holders \ {a}, NEW c \in StatKeys PROVE TotalOf(m, b, c) = TotalOf(tickets, b, c)
    <3>1. Weight(t, b, c) = 0
      BY <1>3, WeightIs
    <3>2. TotalOf(tickets, b, c) \in Int
      BY TicketsNow
    <3>3. TotalOf(m, b, c) = TotalOf(tickets, b, c) + Weight(t, b, c) - 0
      BY <1>7
    <3> QED
      BY <3>1, <3>2, <3>3
  <2>6. Exact(m, [stats EXCEPT ![a] = r], totals)
    BY <1>2, <2>1, <2>4, <2>5, ExactStays
  <2> QED
    BY <1>1, <2>6 DEF r
<1>10. /\ tBalance' \in [Holders -> Nat]
       /\ SumOver(tBalance', Holders) + TotalOf(m, 0, "amount") = TicketSupply * Cardinality(Holders)
  <2>1. tBalance' = [tBalance EXCEPT ![a] = @ + (-n)] /\ tBalance[a] + (-n) >= 0 /\ -n \in Int
    <3>1. tBalance[a] \in Nat /\ tBalance[a] - n = tBalance[a] + (-n) /\ -n \in Int
      BY <1>2
    <3>2. tBalance' = [tBalance EXCEPT ![a] = tBalance[a] + (-n)]
      BY <1>1, <3>1
    <3>3. tBalance[a] + (-n) >= 0
      BY <1>1, <1>2, <3>1
    <3> QED
      BY <3>1, <3>2, <3>3
  <2>2. tBalance' \in [Holders -> Nat] /\ SumOver(tBalance', Holders) = SumOver(tBalance, Holders) + (-n)
        /\ SumOver(tBalance, Holders) \in Int
    BY <1>2, <2>1, HolderPays
  <2>3. TotalOf(m, 0, "amount") = TotalOf(tickets, 0, "amount") + n /\ TotalOf(tickets, 0, "amount") \in Int
    <3>1. "amount" \in StatKeys \cup {"amount"}
      OBVIOUS
    <3>2. Weight(t, 0, "amount") = n
      BY <1>3, WeightIs
    <3>3. TotalOf(tickets, 0, "amount") \in Int
      BY <3>1, TicketsNow
    <3>4. TotalOf(m, 0, "amount") = TotalOf(tickets, 0, "amount") + Weight(t, 0, "amount") - 0
      BY <1>7, <3>1
    <3> QED
      BY <1>2, <3>2, <3>3, <3>4
  <2>4. SumOver(tBalance, Holders) + TotalOf(tickets, 0, "amount") = TicketSupply * Cardinality(Holders)
    BY DEF TInv
  <2> QED
    BY <1>2, <2>2, <2>3, <2>4
<1>11. \A i \in DOMAIN m : i < tNext + 1 /\ TicketOK(m[i], tNow)
  BY <1>2, <1>3, <1>5
<1>12. Pending(m, tNow, cause, concerned)
  <2>1. Pending(tickets, tNow, cause, concerned)
    BY DEF TInv
  <2>2. t.nextUpdate \in Nat
    BY <1>3, TicketType
  <2> QED
    BY <1>2, <1>3, <1>5, <2>1, <2>2 DEF Pending
<1>13. tNext + 1 \in Nat \ {0}
  BY <1>2
<1> QED
  BY <1>1, <1>2, <1>7, <1>9, <1>10, <1>11, <1>12, <1>13 DEF TInv

\* From m to n, what the tickets of b count for moves by d, as do the statistics.
Moves(m, n, b, s, r, d) ==
  /\ s \in Statistics /\ r \in Statistics
  /\ \A k \in StatKeys : TotalOf(m, b, k) \in Int /\ d[k] \in Int
  /\ \A k \in StatKeys : TotalOf(n, b, k) = TotalOf(m, b, k) + d[k] /\ r[k] = s[k] + d[k]

\* The tickets of an owner move by as much as the statistics.
LEMMA OwnerMoves ==
  ASSUME NEW m, NEW n, NEW b, NEW s, NEW r, NEW d, Moves(m, n, b, s, r, d)
  PROVE  \A k \in StatKeys : TotalOf(n, b, k) = TotalOf(m, b, k) + (r[k] - s[k])
<1>1. ASSUME NEW k \in StatKeys PROVE TotalOf(n, b, k) = TotalOf(m, b, k) + (r[k] - s[k])
  <2>1. TotalOf(m, b, k) \in Int /\ d[k] \in Int /\ s[k] \in Int
    BY StatType DEF Moves
  <2>2. TotalOf(n, b, k) = TotalOf(m, b, k) + d[k] /\ r[k] = s[k] + d[k]
    BY DEF Moves
  <2> QED
    BY <2>1, <2>2
<1> QED
  BY <1>1

\* ticket_update, before any change: the ticket is not due.
LEMMA TicketAtUpdate ==
  ASSUME T!TicketAssumption, TInv, cause = "none", NEW i \in DOMAIN tickets
  PROVE  /\ tickets[i] \in Ticket /\ TicketOK(tickets[i], tNow) /\ tickets[i].nextUpdate > tNow
         /\ tickets[i].account \in Holders /\ tickets[i].amount \in Nat \ {0} /\ i \in Nat
         /\ tickets[i].value \in Nat
         /\ \A j \in DOMAIN tickets : tickets[j].nextUpdate > tNow
<1>1. tickets[i] \in Ticket /\ TicketOK(tickets[i], tNow) /\ i \in Nat /\ tNow \in Nat
  BY TicketsNow DEF TInv
<1>2. ASSUME NEW j \in DOMAIN tickets PROVE tickets[j].nextUpdate > tNow
  <2>1. tickets[j].nextUpdate \in Nat
    BY TicketsNow, TicketType
  <2>2. ~(tickets[j].nextUpdate <= tNow)
    BY DEF TInv, Pending
  <2> QED
    BY <1>1, <2>1, <2>2
<1> QED
  BY <1>1, <1>2, TicketType

\* ticket_update of a whole ticket keeps the invariant.
LEMMA UpdateWholeKeeps ==
  ASSUME T!TicketAssumption, TInv, cause = "none", NEW i \in DOMAIN tickets, NEW target \in T!Types,
         tickets[i].type # 4,
         tickets' = [tickets EXCEPT ![i] = T!Retargeted(tickets[i], target)],
         stats' = [stats EXCEPT ![tickets[i].account] =
                     T!UpdateStats(@, tickets[i], T!Retargeted(tickets[i], target), 0)],
         concerned' = {i}, cause' = "update", tNext' = tNext, tBalance' = tBalance, totals' = totals, tNow' = tNow
  PROVE  TInv'
<1>1. PICK t : t = tickets[i]
  OBVIOUS
<1>2. PICK u : u = T!Retargeted(t, target)
  OBVIOUS
<1>3. /\ t \in Ticket /\ TicketOK(t, tNow) /\ t.nextUpdate > tNow /\ t.account \in Holders /\ t.amount \in Nat \ {0}
      /\ i \in Nat /\ t.value \in Nat /\ \A j \in DOMAIN tickets : tickets[j].nextUpdate > tNow
  BY <1>1, TicketAtUpdate
<1>4. /\ tNow \in 0..TicketTime /\ tickets \in Maps(Ticket) /\ IsFiniteSet(DOMAIN tickets)
      /\ Exact(tickets, stats, totals) /\ tNow \in Nat
      /\ \A j \in DOMAIN tickets : j < tNext /\ TicketOK(tickets[j], tNow)
  BY TicketsNow DEF TInv
<1>5. /\ u \in Ticket /\ TicketOK(u, tNow) /\ u.amount = t.amount /\ u.account = t.account /\ u.type # 4
      /\ u.value \in Nat
  <2>1. t.type # 4
    BY <1>1
  <2> QED
    BY <1>2, <1>3, <1>4, <2>1, RetargetedOK, TicketType
<1>6. PICK m : m = [tickets EXCEPT ![i] = u]
  OBVIOUS
<1>7. tickets' = m
  BY <1>1, <1>2, <1>6
<1>8. /\ DOMAIN m = DOMAIN tickets /\ m[i] = u /\ \A j \in DOMAIN tickets \ {i} : m[j] = tickets[j]
  BY <1>6
<1>10. /\ m \in Maps(Ticket) /\ IsFiniteSet(DOMAIN m)
       /\ \A b, c : c \in StatKeys \cup {"amount"} => TotalOf(m, b, c) = TotalOf(tickets, b, c) + Weight(u, b, c) - Weight(t, b, c)
  <2>1. m = [j \in DOMAIN m |-> m[j]]
    BY <1>6
  <2>2. DOMAIN m = DOMAIN tickets \cup {i} /\ i \in DOMAIN tickets
    BY <1>8
  <2>3. Puts(tickets, i, u, m)
    BY ONLY <1>3, <1>4, <1>5, <1>8, <2>1, <2>2 DEF Puts
  <2> QED
    BY ONLY <1>1, <2>2, <2>3, TotalPut
<1>11. PICK b \in Holders : b = t.account
  BY <1>3
<1>12. PICK s : s = stats[b]
  OBVIOUS
<1>13. PICK r : r = T!UpdateStats(s, t, u, 0)
  OBVIOUS
<1>14. stats' = [stats EXCEPT ![b] = r]
  BY <1>1, <1>2, <1>11, <1>12, <1>13
<1>15. stats \in [Holders -> Statistics] /\ s \in Statistics
  BY <1>4, <1>11, <1>12 DEF Exact
<1>16. /\ r \in Statistics /\ r.pob = s.pob /\ r.inactive = s.inactive
       /\ r["inactive"] = s["inactive"] /\ r["pob"] = s["pob"] /\ r["pobValue"] = s["pobValue"]
       /\ r["pol"] = s["pol"] /\ r["polValue"] = s["polValue"] + (0 + u.value - t.value)
  <2>1. PICK z \in Int : z = 0
    OBVIOUS
  <2>2. r = T!UpdateStats(s, t, u, z)
    BY <1>13, <2>1
  <2>3. /\ r \in Statistics /\ r.pob = s.pob /\ r.inactive = s.inactive
        /\ r["inactive"] = s["inactive"] /\ r["pob"] = s["pob"] /\ r["pobValue"] = s["pobValue"]
        /\ r["pol"] = s["pol"] /\ r["polValue"] = s["polValue"] + (z + u.value - t.value)
    <3>1. t \in Ticket /\ u \in Ticket /\ s \in Statistics
      BY <1>3, <1>5, <1>15
    <3> QED
      BY ONLY <2>1, <2>2, <3>1, UpdateStatsIs
  <2> QED
    BY <2>1, <2>3
<1>17. PICK d : d = [k \in StatKeys |-> IF k = "polValue" THEN u.value - t.value ELSE 0]
  OBVIOUS
<1>18. \A k \in StatKeys : d[k] \in Int
  BY <1>3, <1>5, <1>17
<1>19. ASSUME NEW k \in StatKeys PROVE r[k] = s[k] + d[k]
  <2>1. s[k] \in Int
    BY <1>15, StatType
  <2>2. CASE k = "polValue"
    BY <1>3, <1>5, <1>16, <1>17, <2>1, <2>2
  <2>3. CASE k # "polValue"
    <3>1. d[k] = 0
      BY <1>17, <2>3
    <3>2. r[k] = s[k]
      BY <1>16, <2>3 DEF StatKeys
    <3> QED
      BY <2>1, <3>1, <3>2
  <2> QED
    BY <2>2, <2>3
<1>20. ASSUME NEW k \in StatKeys PROVE TotalOf(m, b, k) = TotalOf(tickets, b, k) + d[k]
  <2>1. Weight(u, b, k) = T!Share(u)[k] /\ Weight(t, b, k) = T!Share(t)[k]
    BY <1>3, <1>5, <1>11, WeightIs
  <2>2. /\ T!Share(t)["inactive"] = 0 /\ T!Share(t)["pob"] = 0 /\ T!Share(t)["pobValue"] = 0
        /\ T!Share(t)["pol"] = t.amount /\ T!Share(t)["polValue"] = t.value
    BY <1>1, <1>3, ShareIs
  <2>3. /\ T!Share(u)["inactive"] = 0 /\ T!Share(u)["pob"] = 0 /\ T!Share(u)["pobValue"] = 0
        /\ T!Share(u)["pol"] = t.amount /\ T!Share(u)["polValue"] = u.value
    BY <1>5, ShareIs
  <2>4. T!Share(u)[k] - T!Share(t)[k] = d[k] /\ T!Share(u)[k] \in Int /\ T!Share(t)[k] \in Int
    BY <1>3, <1>5, <1>17, <2>2, <2>3 DEF StatKeys
  <2>5. TotalOf(tickets, b, k) \in Int
    BY TicketsNow
  <2>6. TotalOf(m, b, k) = TotalOf(tickets, b, k) + Weight(u, b, k) - Weight(t, b, k)
    BY <1>10
  <2> QED
    BY <2>1, <2>4, <2>5, <2>6
<1>21. \A k \in StatKeys : TotalOf(m, b, k) = TotalOf(tickets, b, k) + (r[k] - s[k])
  <2>1. \A k \in StatKeys : TotalOf(tickets, b, k) \in Int
    BY TicketsNow
  <2>2. Moves(tickets, m, b, s, r, d)
    BY ONLY <1>15, <1>16, <1>18, <1>19, <1>20, <2>1 DEF Moves
  <2> QED
    BY ONLY <2>2, OwnerMoves
<1>22. ASSUME NEW a \in Holders \ {b}, NEW k \in StatKeys PROVE TotalOf(m, a, k) = TotalOf(tickets, a, k)
  <2>1. Weight(u, a, k) = 0 /\ Weight(t, a, k) = 0
    BY <1>3, <1>5, <1>11, WeightIs
  <2>2. TotalOf(tickets, a, k) \in Int
    BY TicketsNow
  <2>3. TotalOf(m, a, k) = TotalOf(tickets, a, k) + Weight(u, a, k) - Weight(t, a, k)
    BY <1>10
  <2> QED
    BY <2>1, <2>2, <2>3
<1>23. Exact(m, [stats EXCEPT ![b] = r], totals)
  BY <1>4, <1>12, <1>16, <1>21, <1>22, ExactStays, ZenonT(60)
<1>24. TotalOf(m, 0, "amount") = TotalOf(tickets, 0, "amount")
  <2>1. "amount" \in StatKeys \cup {"amount"}
    OBVIOUS
  <2>2. Weight(u, 0, "amount") = t.amount /\ Weight(t, 0, "amount") = t.amount
    BY <1>3, <1>5, WeightIs
  <2>3. TotalOf(tickets, 0, "amount") \in Int
    BY <2>1, TicketsNow
  <2>4. TotalOf(m, 0, "amount") = TotalOf(tickets, 0, "amount") + Weight(u, 0, "amount") - Weight(t, 0, "amount")
    BY <1>10, <2>1
  <2> QED
    BY <1>3, <2>2, <2>3, <2>4
<1>25. Pending(m, tNow, "update", {i})
  BY <1>3, <1>4, <1>8, TicketsNow, TicketType DEF Pending
<1>26. \A j \in DOMAIN m : j < tNext /\ TicketOK(m[j], tNow)
  BY <1>4, <1>5, <1>8
<1> QED
  BY <1>4, <1>7, <1>10, <1>14, <1>23, <1>24, <1>25, <1>26 DEF TInv
\* What ticket_update of a part of a ticket does.
UpdatesPart(i, target, n, new, rest) ==
  /\ new = T!Retargeted([tickets[i] EXCEPT !.amount = n], target)
  /\ rest = T!WithValue([tickets[i] EXCEPT !.amount = @ - n])
  /\ tickets' = [j \in DOMAIN tickets \cup {tNext} |->
                   IF j = tNext THEN new ELSE IF j = i THEN rest ELSE tickets[j]]
  /\ stats' = [stats EXCEPT ![tickets[i].account] = T!UpdateStats(@, tickets[i], rest, new.value)]
  /\ concerned' = {tNext} /\ cause' = "update" /\ tNext' = tNext + 1
  /\ tBalance' = tBalance /\ totals' = totals /\ tNow' = tNow

\* ticket_update of a part of a ticket keeps the invariant.
LEMMA UpdatePartKeeps ==
  ASSUME T!TicketAssumption, TInv, cause = "none", NEW i \in DOMAIN tickets, NEW target \in T!Types,
         tickets[i].type # 4, NEW n \in Nat \ {0}, n < tickets[i].amount, NEW new, NEW rest,
         UpdatesPart(i, target, n, new, rest)
  PROVE  TInv'
<1>1. PICK t : t = tickets[i]
  OBVIOUS
<1>2. PICK m : m = [j \in DOMAIN tickets \cup {tNext} |->
                       IF j = tNext THEN new ELSE IF j = i THEN rest ELSE tickets[j]]
  OBVIOUS
<1>3. /\ t \in Ticket /\ TicketOK(t, tNow) /\ t.nextUpdate > tNow /\ t.account \in Holders /\ t.amount \in Nat \ {0}
      /\ i \in Nat /\ t.value \in Nat /\ \A j \in DOMAIN tickets : tickets[j].nextUpdate > tNow
      /\ t.type # 4 /\ n < t.amount
  BY <1>1, TicketAtUpdate
<1>4. /\ tNow \in 0..TicketTime /\ tickets \in Maps(Ticket) /\ IsFiniteSet(DOMAIN tickets)
      /\ Exact(tickets, stats, totals) /\ tNow \in Nat /\ tNext \in Nat \ {0}
      /\ \A j \in DOMAIN tickets : j < tNext /\ TicketOK(tickets[j], tNow) /\ j \in Nat
  BY TicketsNow DEF TInv
<1>5. /\ new \in Ticket /\ TicketOK(new, tNow) /\ new.amount = n /\ new.account = t.account /\ new.type # 4
      /\ new.value \in Nat
  <2>1. PICK p : p = [t EXCEPT !.amount = n]
    OBVIOUS
  <2>2. /\ p \in Ticket /\ TicketOK(p, tNow) /\ p.amount = n /\ p.account = t.account
        /\ p.type = t.type /\ p.nextUpdate = t.nextUpdate
    BY <1>3, <2>1, SplitOK
  <2>3. new = T!Retargeted(p, target) /\ p.type # 4 /\ p.nextUpdate > tNow
    BY <1>1, <1>3, <2>1, <2>2 DEF UpdatesPart
  <2>4. /\ new \in Ticket /\ TicketOK(new, tNow) /\ new.amount = p.amount /\ new.account = p.account /\ new.type # 4
    BY <1>4, <2>2, <2>3, RetargetedOK
  <2> QED
    BY <2>2, <2>4, TicketType
<1>6. /\ rest \in Ticket /\ TicketOK(rest, tNow) /\ rest.amount = t.amount - n /\ rest.account = t.account
      /\ rest.type # 4 /\ rest.nextUpdate > tNow /\ rest.value \in Nat
  <2>1. PICK x \in Nat \ {0} : x = t.amount - n
    BY <1>3
  <2>2. rest = T!WithValue([t EXCEPT !.amount = x])
    BY <1>1, <2>1 DEF UpdatesPart
  <2>3. /\ rest \in Ticket /\ TicketOK(rest, tNow) /\ rest.amount = x /\ rest.account = t.account
        /\ rest.type = t.type /\ rest.nextUpdate = t.nextUpdate
    BY <1>3, <2>2, SplitOK
  <2> QED
    BY <1>3, <2>1, <2>3, TicketType
<1>7. tNext \notin DOMAIN tickets /\ i # tNext
  BY <1>4
<1>8. PICK p : p = [tickets EXCEPT ![i] = rest]
  OBVIOUS
<1>9. /\ DOMAIN p = DOMAIN tickets /\ p[i] = rest /\ \A j \in DOMAIN tickets \ {i} : p[j] = tickets[j]
  BY <1>8
<1>11. /\ p \in Maps(Ticket) /\ IsFiniteSet(DOMAIN p)
       /\ \A b, c : c \in StatKeys \cup {"amount"} =>
            TotalOf(p, b, c) = TotalOf(tickets, b, c) + Weight(rest, b, c) - Weight(t, b, c)
  <2>1. p = [j \in DOMAIN p |-> p[j]]
    BY <1>8
  <2>2. DOMAIN p = DOMAIN tickets \cup {i} /\ i \in DOMAIN tickets
    BY <1>9
  <2>3. Puts(tickets, i, rest, p)
    BY ONLY <1>3, <1>4, <1>6, <1>9, <2>1, <2>2 DEF Puts
  <2> QED
    BY ONLY <1>1, <2>2, <2>3, TotalPut
<1>12. /\ DOMAIN m = DOMAIN p \cup {tNext} /\ m[tNext] = new /\ m[i] = rest
       /\ \A j \in DOMAIN tickets \ {i} : m[j] = tickets[j]
  BY <1>2, <1>7, <1>9
<1>13. m = [j \in DOMAIN m |-> m[j]]
  BY <1>2
<1>14. \A j \in DOMAIN p \ {tNext} : m[j] = p[j]
  BY <1>9, <1>12
<1>15. /\ m \in Maps(Ticket) /\ IsFiniteSet(DOMAIN m)
       /\ \A b, c : c \in StatKeys \cup {"amount"} => TotalOf(m, b, c) = TotalOf(p, b, c) + Weight(new, b, c) - 0
  <2>1. Puts(p, tNext, new, m)
    BY ONLY <1>4, <1>5, <1>11, <1>12, <1>13, <1>14 DEF Puts
  <2> QED
    BY ONLY <2>1, <1>7, <1>9, TotalPut
<1>16. ASSUME NEW b, NEW c \in StatKeys \cup {"amount"}
       PROVE  /\ TotalOf(m, b, c) = TotalOf(tickets, b, c) + (Weight(rest, b, c) + Weight(new, b, c) - Weight(t, b, c))
              /\ TotalOf(tickets, b, c) \in Int
  <2>1. TotalOf(tickets, b, c) \in Int
    BY TicketsNow
  <2>2. Weight(rest, b, c) \in Int /\ Weight(new, b, c) \in Int /\ Weight(t, b, c) \in Int
    BY <1>3, <1>5, <1>6, WeightType
  <2>3. TotalOf(m, b, c) = TotalOf(p, b, c) + Weight(new, b, c) - 0
    BY <1>15
  <2>4. TotalOf(p, b, c) = TotalOf(tickets, b, c) + Weight(rest, b, c) - Weight(t, b, c)
    BY <1>11
  <2> QED
    BY <2>1, <2>2, <2>3, <2>4
<1>17. PICK b \in Holders : b = t.account
  BY <1>3
<1>18. PICK s : s = stats[b]
  OBVIOUS
<1>19. PICK v \in Int : v = new.value
  BY <1>5
<1>20. PICK r : r = T!UpdateStats(s, t, rest, v)
  OBVIOUS
<1>21. stats' = [stats EXCEPT ![b] = r]
  BY <1>1, <1>17, <1>18, <1>19, <1>20 DEF UpdatesPart
<1>22. stats \in [Holders -> Statistics] /\ s \in Statistics
  BY <1>4, <1>17, <1>18 DEF Exact
<1>23. /\ r \in Statistics /\ r.pob = s.pob /\ r.inactive = s.inactive
       /\ r["inactive"] = s["inactive"] /\ r["pob"] = s["pob"] /\ r["pobValue"] = s["pobValue"]
       /\ r["pol"] = s["pol"] /\ r["polValue"] = s["polValue"] + (v + rest.value - t.value)
  <2>1. t \in Ticket /\ rest \in Ticket /\ s \in Statistics /\ v \in Int
    BY <1>3, <1>6, <1>22
  <2> QED
    BY ONLY <2>1, <1>20, UpdateStatsIs
<1>24. PICK d : d = [k \in StatKeys |-> IF k = "polValue" THEN v + rest.value - t.value ELSE 0]
  OBVIOUS
<1>25. \A k \in StatKeys : d[k] \in Int
  BY <1>3, <1>6, <1>24
<1>26. ASSUME NEW k \in StatKeys PROVE r[k] = s[k] + d[k]
  <2>1. s[k] \in Int
    BY <1>22, StatType
  <2>2. CASE k = "polValue"
    BY <1>23, <1>24, <2>1, <2>2
  <2>3. CASE k # "polValue"
    <3>1. d[k] = 0
      BY <1>24, <2>3
    <3>2. r[k] = s[k]
      BY <1>23, <2>3 DEF StatKeys
    <3> QED
      BY <2>1, <3>1, <3>2
  <2> QED
    BY <2>2, <2>3
<1>27. ASSUME NEW k \in StatKeys PROVE TotalOf(m, b, k) = TotalOf(tickets, b, k) + d[k]
  <2>1. Weight(rest, b, k) = T!Share(rest)[k] /\ Weight(new, b, k) = T!Share(new)[k] /\ Weight(t, b, k) = T!Share(t)[k]
    BY <1>3, <1>5, <1>6, <1>17, WeightIs
  <2>2. /\ T!Share(t)["inactive"] = 0 /\ T!Share(t)["pob"] = 0 /\ T!Share(t)["pobValue"] = 0
        /\ T!Share(t)["pol"] = t.amount /\ T!Share(t)["polValue"] = t.value
    BY <1>3, ShareIs
  <2>3. /\ T!Share(rest)["inactive"] = 0 /\ T!Share(rest)["pob"] = 0 /\ T!Share(rest)["pobValue"] = 0
        /\ T!Share(rest)["pol"] = t.amount - n /\ T!Share(rest)["polValue"] = rest.value
    BY <1>6, ShareIs
  <2>4. /\ T!Share(new)["inactive"] = 0 /\ T!Share(new)["pob"] = 0 /\ T!Share(new)["pobValue"] = 0
        /\ T!Share(new)["pol"] = n /\ T!Share(new)["polValue"] = v
    BY <1>5, <1>19, ShareIs
  <2>5. T!Share(rest)[k] + T!Share(new)[k] - T!Share(t)[k] = d[k]
    BY <1>3, <1>6, <1>24, <2>2, <2>3, <2>4 DEF StatKeys
  <2> QED
    BY <1>16, <2>1, <2>5
<1>28. \A k \in StatKeys : TotalOf(m, b, k) = TotalOf(tickets, b, k) + (r[k] - s[k])
  <2>1. \A k \in StatKeys : TotalOf(tickets, b, k) \in Int
    BY TicketsNow
  <2>2. Moves(tickets, m, b, s, r, d)
    BY ONLY <1>22, <1>23, <1>25, <1>26, <1>27, <2>1 DEF Moves
  <2> QED
    BY ONLY <2>2, OwnerMoves
<1>29. ASSUME NEW a \in Holders \ {b}, NEW k \in StatKeys PROVE TotalOf(m, a, k) = TotalOf(tickets, a, k)
  <2>1. Weight(rest, a, k) = 0 /\ Weight(new, a, k) = 0 /\ Weight(t, a, k) = 0
    <3>1. rest.account # a /\ new.account # a /\ t.account # a
      BY <1>5, <1>6, <1>17
    <3> QED
      BY ONLY <1>3, <1>5, <1>6, <3>1, WeightIs, k \in StatKeys
  <2> QED
    BY <1>16, <2>1
<1>30. Exact(m, [stats EXCEPT ![b] = r], totals)
  BY <1>4, <1>18, <1>23, <1>28, <1>29, ExactStays
<1>31. TotalOf(m, 0, "amount") = TotalOf(tickets, 0, "amount")
  <2>1. "amount" \in StatKeys \cup {"amount"}
    OBVIOUS
  <2>2. Weight(rest, 0, "amount") = t.amount - n /\ Weight(new, 0, "amount") = n /\ Weight(t, 0, "amount") = t.amount
    BY <1>3, <1>5, <1>6, WeightIs
  <2>3. t.amount - n + n - t.amount = 0
    BY <1>3
  <2>4. /\ TotalOf(m, 0, "amount") = TotalOf(tickets, 0, "amount")
              + (Weight(rest, 0, "amount") + Weight(new, 0, "amount") - Weight(t, 0, "amount"))
        /\ TotalOf(tickets, 0, "amount") \in Int
    BY <1>16, <2>1
  <2> QED
    BY <2>2, <2>3, <2>4
<1>32. Pending(m, tNow, "update", {tNext})
  <2>1. rest.nextUpdate \in Nat /\ \A j \in DOMAIN tickets : tickets[j].nextUpdate \in Nat
    BY <1>6, TicketsNow, TicketType
  <2> QED
    BY <1>3, <1>4, <1>6, <1>9, <1>12, <2>1 DEF Pending
<1>33. \A j \in DOMAIN m : j < tNext + 1 /\ TicketOK(m[j], tNow)
  BY <1>4, <1>5, <1>6, <1>9, <1>12
<1>34. tickets' = m /\ tNext + 1 \in Nat \ {0}
  BY <1>2, <1>4 DEF UpdatesPart
<1>35. concerned' = {tNext} /\ cause' = "update" /\ tNext' = tNext + 1 /\ tBalance' = tBalance /\ totals' = totals
       /\ tNow' = tNow
  BY DEF UpdatesPart
<1> QED
  BY <1>4, <1>15, <1>21, <1>30, <1>31, <1>32, <1>33, <1>34, <1>35 DEF TInv

\* ticket_update keeps the invariant.
LEMMA UpdateTicketKeeps ==
  ASSUME T!TicketAssumption, TInv, NEW i \in T!Live, NEW target \in T!Types, NEW n \in TicketAmounts,
         T!ticket_update(i, target, n)
  PROVE  TInv'
<1>1. i \in DOMAIN tickets /\ T!Live = DOMAIN tickets
  BY TicketsNow
<1>2. n \in Nat \ {0} /\ tickets[i].amount \in Nat /\ cause = "none" /\ tickets[i].type # 4
  BY <1>1, TicketConstants, TicketsNow, TicketType, TypesAre DEF T!ticket_update
<1>3. CASE n < tickets[i].amount
  <2>1. PICK new : new = T!Retargeted([tickets[i] EXCEPT !.amount = n], target)
    OBVIOUS
  <2>2. PICK rest : rest = T!WithValue([tickets[i] EXCEPT !.amount = @ - n])
    OBVIOUS
  <2>3. UpdatesPart(i, target, n, new, rest)
    BY <1>1, <1>3, <2>1, <2>2 DEF T!ticket_update, UpdatesPart
  <2> QED
    BY ONLY T!TicketAssumption, TInv, <1>1, <1>2, <1>3, <2>3, UpdatePartKeeps, target \in T!Types
<1>4. CASE ~(n < tickets[i].amount)
  <2>1. /\ tickets' = [tickets EXCEPT ![i] = T!Retargeted(tickets[i], target)]
        /\ stats' = [stats EXCEPT ![tickets[i].account] =
                       T!UpdateStats(@, tickets[i], T!Retargeted(tickets[i], target), 0)]
        /\ concerned' = {i} /\ cause' = "update" /\ tNext' = tNext
        /\ tBalance' = tBalance /\ totals' = totals /\ tNow' = tNow
    BY <1>4 DEF T!ticket_update
  <2> QED
    BY <1>1, <1>2, <2>1, UpdateWholeKeeps
<1> QED
  BY <1>3, <1>4
\* What is known of a ticket stays known as time goes by.
LEMMA TicketLater ==
  ASSUME T!TicketAssumption, NEW t \in Ticket, NEW s \in Nat, NEW r \in Nat, s <= r, TicketOK(t, s)
  PROVE  TicketOK(t, r)
<1>1. /\ t.nextUpdate \in Nat /\ t.downgrade \in Nat /\ t.floor \in Nat /\ t.type \in T!Types
      /\ T!LockTime(t.type) \in Nat /\ ChargingStep \in Nat /\ CancelTime \in Nat
  BY TicketType, TypesAre, TicketConstants
<1>2. ASSUME StartedBy(t.downgrade, t.type, s) PROVE StartedBy(t.downgrade, t.type, r)
  <2>1. t.type <= 2 => DowngradeTime[t.type] \in Nat
    <3>1. t.type \in Nat
      BY <1>1, TypesAre
    <3> QED
      BY <3>1, NeverIsLate, TicketConstants
  <2> QED
    BY <1>1, <1>2, <2>1 DEF StartedBy
<1>3. t.status = "charging" =>
       /\ t.type < t.target
       /\ t.downgrade # T!Never =>
            /\ t.nextUpdate < t.downgrade + ChargingStep /\ t.nextUpdate <= r + ChargingStep
            /\ StartedBy(t.downgrade + ChargingStep, t.type, t.nextUpdate)
  BY <1>1 DEF TicketOK
<1>4. t.status = "withdrawing" =>
       IF t.type = 4 THEN t.value > 0
       ELSE t.target <= t.type /\ t.downgrade = t.nextUpdate /\ StartedBy(t.downgrade, t.type, r)
  BY <1>2 DEF TicketOK
<1>5. t.type # 4 =>
       t.floor < (IF t.downgrade = T!Never THEN r ELSE t.downgrade) + T!LockTime(t.type) + ChargingStep
  BY <1>1 DEF TicketOK
<1> QED
  BY <1>3, <1>4, <1>5 DEF TicketOK

\* A new block keeps the invariant.
LEMMA NewBlockKeeps ==
  ASSUME T!TicketAssumption, TInv, NEW step \in Steps, T!NewBlock(step)
  PROVE  TInv'
<1>1. /\ tNow' = tNow + step /\ tNow + step <= TicketTime /\ cause' = "block" /\ tBalance' = tBalance
      /\ tickets' = tickets /\ tNext' = tNext /\ stats' = stats /\ totals' = totals /\ concerned' = concerned
  BY DEF T!NewBlock
<1>2. step \in Nat /\ tNow \in Nat /\ tNow + step \in 0..TicketTime
  BY <1>1, TicketsNow, TicketConstants
<1>3. ASSUME NEW i \in DOMAIN tickets PROVE i < tNext /\ TicketOK(tickets[i], tNow + step)
  <2>1. tickets[i] \in Ticket /\ TicketOK(tickets[i], tNow) /\ i < tNext
    BY TicketsNow DEF TInv
  <2>2. tNow + step \in Nat /\ tNow <= tNow + step
    BY <1>2
  <2> QED
    BY <1>2, <2>1, <2>2, TicketLater
<1>4. Pending(tickets, tNow + step, "block", concerned)
  BY DEF Pending
<1> QED
  BY <1>1, <1>2, <1>3, <1>4 DEF TInv

\* The first ticket that is due.
LEMMA FirstIsDue ==
  ASSUME T!TicketAssumption, TInv, T!Due # {}
  PROVE  T!FirstDue \in DOMAIN tickets /\ tickets[T!FirstDue].nextUpdate <= tNow
<1>1. T!Due \subseteq DOMAIN tickets /\ \A i \in T!Due : i \in Nat /\ tickets[i].nextUpdate \in Nat
  BY TicketsNow, TicketType DEF T!Due
<1> DEFINE c == {tickets[i].nextUpdate : i \in T!Due}
<1>2. PICK least \in c : \A x \in c : least <= x
  <2>1. c \subseteq Nat /\ c # {}
    BY <1>1
  <2> HIDE DEF c
  <2> QED
    BY <2>1, LeastNumber
<1> DEFINE d == {i \in T!Due : tickets[i].nextUpdate = least}
<1>3. PICK first \in d : \A x \in d : first <= x
  <2>1. d \subseteq Nat /\ d # {}
    BY <1>1, <1>2
  <2> HIDE DEF d
  <2> QED
    BY <2>1, LeastNumber
<1>4. /\ first \in T!Due
      /\ \A j \in T!Due :
           \/ tickets[first].nextUpdate < tickets[j].nextUpdate
           \/ tickets[first].nextUpdate = tickets[j].nextUpdate /\ first <= j
  <2>1. first \in T!Due /\ tickets[first].nextUpdate = least
    BY <1>3
  <2>2. ASSUME NEW j \in T!Due
        PROVE  \/ tickets[first].nextUpdate < tickets[j].nextUpdate
               \/ tickets[first].nextUpdate = tickets[j].nextUpdate /\ first <= j
    <3>1. least <= tickets[j].nextUpdate /\ tickets[j].nextUpdate \in Nat /\ least \in Nat
      BY <1>1, <1>2, <2>1
    <3>2. tickets[j].nextUpdate = least => first <= j
      BY <1>3
    <3> QED
      BY <2>1, <3>1, <3>2
  <2> QED
    BY ONLY <2>1, <2>2
<1>5. T!FirstDue \in T!Due
  BY <1>4 DEF T!FirstDue
<1> QED
  BY <1>1, <1>5 DEF T!Due

\* The end of process_tickets keeps the invariant.
LEMMA ProcessedKeeps ==
  ASSUME T!TicketAssumption, TInv, T!Processed
  PROVE  TInv'
<1>1. /\ cause' = "none" /\ concerned' = {} /\ tBalance' = tBalance /\ tickets' = tickets /\ tNext' = tNext
      /\ stats' = stats /\ totals' = totals /\ tNow' = tNow /\ T!Due = {}
  BY DEF T!Processed
<1>2. Pending(tickets, tNow, "none", {})
  BY <1>1, TicketsNow DEF T!Due, Pending
<1> QED
  BY <1>1, <1>2 DEF TInv
\* What a turn of process_tickets does when it pays ticket i out.
PaysOut(i) ==
  /\ i \in DOMAIN tickets /\ tickets[i].type = 0 /\ tickets[i].status = "withdrawing"
  /\ tBalance' = [tBalance EXCEPT ![tickets[i].account] = @ + tickets[i].amount]
  /\ stats' = [stats EXCEPT ![tickets[i].account] = T!WithLocked(@, -tickets[i].amount, -tickets[i].value)]
  /\ tickets' = Restrict(tickets, DOMAIN tickets \ {i})
  /\ totals' = totals /\ tNext' = tNext /\ tNow' = tNow /\ cause' = cause /\ concerned' = concerned

\* What it does when it updates ticket i, which becomes u; r are the statistics of its owner.
Updates(i, u, r) ==
  /\ i \in DOMAIN tickets /\ UpdatedOK(tickets[i], u) /\ r = T!AutoStats(stats[tickets[i].account], tickets[i], u)
  /\ tickets' = [tickets EXCEPT ![i] = u] /\ stats' = [stats EXCEPT ![tickets[i].account] = r]
  /\ totals' = [pob |-> totals.pob + (r.pob - stats[tickets[i].account].pob),
                inactive |-> totals.inactive + (r.inactive - stats[tickets[i].account].inactive)]
  /\ tBalance' = tBalance /\ tNext' = tNext /\ tNow' = tNow /\ cause' = cause /\ concerned' = concerned

\* A turn of process_tickets that pays a ticket out keeps the invariant.
LEMMA PaidOutKeeps ==
  ASSUME T!TicketAssumption, TInv, NEW i, PaysOut(i)
  PROVE  TInv'
<1>0. i \in DOMAIN tickets /\ tickets[i].type = 0 /\ tNext' = tNext /\ tNow' = tNow /\ totals' = totals
      /\ cause' = cause /\ concerned' = concerned
  BY DEF PaysOut
<1>1. PICK t : t = tickets[i]
  OBVIOUS
<1>2. PICK m : m = Restrict(tickets, DOMAIN tickets \ {i})
  OBVIOUS
<1>3. PICK b : b = t.account
  OBVIOUS
<1>4. PICK s : s = stats[b]
  OBVIOUS
<1>5. t \in Ticket /\ b \in Holders /\ t.amount \in Nat \ {0} /\ t.value \in Nat /\ t.type = 0 /\ t.account = b
  BY <1>0, <1>1, <1>3, TicketsNow, TicketType
<1>6. PICK x \in Int : x = -t.amount
  BY <1>5
<1>7. PICK v \in Int : v = -t.value
  BY <1>5
<1>8. PICK r : r = T!WithLocked(s, x, v)
  OBVIOUS
<1>9. /\ stats' = [stats EXCEPT ![b] = r] /\ tickets' = m /\ tBalance' = [tBalance EXCEPT ![b] = @ + t.amount]
  BY <1>1, <1>2, <1>3, <1>4, <1>6, <1>7, <1>8 DEF PaysOut
<1>10. /\ tBalance \in [Holders -> Nat] /\ tickets \in Maps(Ticket) /\ IsFiniteSet(DOMAIN tickets)
       /\ Exact(tickets, stats, totals) /\ tNow \in 0..TicketTime /\ tNext \in Nat \ {0}
       /\ \A j \in DOMAIN tickets : j < tNext /\ TicketOK(tickets[j], tNow)
       /\ SumOver(tBalance, Holders) + TotalOf(tickets, 0, "amount") = TicketSupply * Cardinality(Holders)
       /\ Pending(tickets, tNow, cause, concerned)
  BY DEF TInv
<1>11. stats \in [Holders -> Statistics] /\ s \in Statistics
  BY <1>4, <1>5, <1>10 DEF Exact
<1>12. /\ r \in Statistics /\ r.pob = s.pob /\ r.inactive = s.inactive
       /\ r["inactive"] = s["inactive"] + 0 /\ r["pob"] = s["pob"] + 0 /\ r["pobValue"] = s["pobValue"] + 0
       /\ r["pol"] = s["pol"] + x /\ r["polValue"] = s["polValue"] + v
  BY ONLY <1>6, <1>7, <1>8, <1>11, WithLockedIs
<1>13. /\ m \in Maps(Ticket) /\ IsFiniteSet(DOMAIN m) /\ DOMAIN m = DOMAIN tickets \ {i}
       /\ \A j \in DOMAIN m : m[j] = tickets[j]
       /\ \A a, k : k \in StatKeys \cup {"amount"} => TotalOf(m, a, k) = TotalOf(tickets, a, k) - Weight(tickets[i], a, k)
  BY ONLY <1>2, <1>10, TotalRemove, <1>0
<1>14. PICK d : d = [k \in StatKeys |-> IF k = "pol" THEN x ELSE IF k = "polValue" THEN v ELSE 0]
  OBVIOUS
<1>15. \A k \in StatKeys : d[k] \in Int
  BY <1>14
<1>16. ASSUME NEW k \in StatKeys PROVE r[k] = s[k] + d[k]
  BY <1>12, <1>14 DEF StatKeys
<1>17. ASSUME NEW k \in StatKeys PROVE TotalOf(m, b, k) = TotalOf(tickets, b, k) + d[k]
  <2>1. Weight(t, b, k) = T!Share(t)[k]
    BY <1>5, WeightIs
  <2>2. /\ T!Share(t)["inactive"] = 0 /\ T!Share(t)["pob"] = 0 /\ T!Share(t)["pobValue"] = 0
        /\ T!Share(t)["pol"] = t.amount /\ T!Share(t)["polValue"] = t.value
    BY <1>5, ShareIs
  <2>3. T!Share(t)[k] = -d[k]
    BY <1>5, <1>6, <1>7, <1>14, <2>2 DEF StatKeys
  <2>4. TotalOf(tickets, b, k) \in Int
    BY TicketsNow
  <2>5. TotalOf(m, b, k) = TotalOf(tickets, b, k) - Weight(t, b, k)
    BY <1>1, <1>13
  <2> QED
    BY <1>15, <2>1, <2>3, <2>4, <2>5
<1>18. \A k \in StatKeys : TotalOf(m, b, k) = TotalOf(tickets, b, k) + (r[k] - s[k])
  <2>1. \A k \in StatKeys : TotalOf(tickets, b, k) \in Int
    BY TicketsNow
  <2>2. Moves(tickets, m, b, s, r, d)
    BY ONLY <1>11, <1>12, <1>15, <1>16, <1>17, <2>1 DEF Moves
  <2> QED
    BY ONLY <2>2, OwnerMoves
<1>19. ASSUME NEW a \in Holders \ {b}, NEW k \in StatKeys PROVE TotalOf(m, a, k) = TotalOf(tickets, a, k)
  <2>1. Weight(t, a, k) = 0
    <3>1. t.account # a
      BY <1>5
    <3> QED
      BY ONLY <1>5, <3>1, WeightIs, k \in StatKeys
  <2>2. TotalOf(tickets, a, k) \in Int /\ TotalOf(m, a, k) = TotalOf(tickets, a, k) - Weight(t, a, k)
    BY <1>1, <1>13, TicketsNow
  <2> QED
    BY <2>1, <2>2
<1>20. Exact(m, [stats EXCEPT ![b] = r], totals)
  BY ONLY T!TicketAssumption, <1>4, <1>5, <1>10, <1>12, <1>18, <1>19, ExactStays
<1>21. tBalance' \in [Holders -> Nat] /\ SumOver(tBalance', Holders) + TotalOf(m, 0, "amount") = TicketSupply * Cardinality(Holders)
  <2>1. PICK n \in Int : n = t.amount
    BY <1>5
  <2>2. tBalance[b] + n >= 0 /\ tBalance' = [tBalance EXCEPT ![b] = @ + n]
    <3>1. tBalance[b] \in Nat /\ n \in Nat
      BY <1>5, <1>10, <2>1
    <3>2. tBalance' = [tBalance EXCEPT ![b] = @ + n]
      BY ONLY <1>9, <2>1
    <3>3. tBalance[b] + n >= 0
      BY ONLY <3>1
    <3> QED
      BY ONLY <3>2, <3>3
  <2>3. /\ tBalance' \in [Holders -> Nat] /\ SumOver(tBalance', Holders) = SumOver(tBalance, Holders) + n
        /\ SumOver(tBalance, Holders) \in Int
    BY ONLY T!TicketAssumption, <1>5, <1>10, <2>1, <2>2, HolderPays
  <2>4. "amount" \in StatKeys \cup {"amount"}
    OBVIOUS
  <2>5. TotalOf(m, 0, "amount") = TotalOf(tickets, 0, "amount") - Weight(t, 0, "amount")
        /\ TotalOf(tickets, 0, "amount") \in Int
    BY <1>1, <1>13, <2>4, TicketsNow
  <2>6. Weight(t, 0, "amount") = n
    BY <1>5, <2>1, WeightIs
  <2> QED
    BY <1>10, <2>3, <2>5, <2>6
<1>22. Pending(m, tNow, cause, concerned)
  BY <1>10, <1>13 DEF Pending
<1>23. \A j \in DOMAIN m : j < tNext /\ TicketOK(m[j], tNow)
  BY <1>10, <1>13
<1> QED
  BY <1>0, <1>9, <1>10, <1>13, <1>20, <1>21, <1>22, <1>23 DEF TInv

\* A turn of process_tickets that updates a ticket keeps the invariant.
LEMMA AutoUpdateKeeps ==
  ASSUME T!TicketAssumption, TInv, NEW i, NEW u, NEW r, Updates(i, u, r), cause # "none", tickets[i].nextUpdate <= tNow
  PROVE  TInv'
<1>0. i \in DOMAIN tickets /\ tNext' = tNext /\ tNow' = tNow /\ tBalance' = tBalance
      /\ cause' = cause /\ concerned' = concerned
  BY DEF Updates
<1>1. PICK t : t = tickets[i]
  OBVIOUS
<1>2. PICK m : m = [tickets EXCEPT ![i] = u]
  OBVIOUS
<1>3. PICK b : b = t.account
  OBVIOUS
<1>4. PICK s : s = stats[b]
  OBVIOUS
<1>5. t \in Ticket /\ b \in Holders /\ t.amount \in Nat \ {0} /\ t.account = b /\ i \in Nat
  BY <1>0, <1>1, <1>3, TicketsNow, TicketType
<1>6. UpdatedOK(t, u) /\ u \in Ticket /\ TicketOK(u, tNow) /\ u.amount = t.amount /\ u.account = b
  BY <1>1, <1>3 DEF Updates, UpdatedOK
<1>7. /\ stats' = [stats EXCEPT ![b] = r] /\ tickets' = m /\ r = T!AutoStats(s, t, u)
      /\ totals' = [pob |-> totals.pob + (r.pob - stats[b].pob),
                    inactive |-> totals.inactive + (r.inactive - stats[b].inactive)]
  BY <1>1, <1>2, <1>3, <1>4 DEF Updates
<1>8. /\ tBalance \in [Holders -> Nat] /\ tickets \in Maps(Ticket) /\ IsFiniteSet(DOMAIN tickets)
      /\ Exact(tickets, stats, totals) /\ tNow \in 0..TicketTime /\ tNext \in Nat \ {0}
      /\ \A j \in DOMAIN tickets : j < tNext /\ TicketOK(tickets[j], tNow)
      /\ SumOver(tBalance, Holders) + TotalOf(tickets, 0, "amount") = TicketSupply * Cardinality(Holders)
      /\ Pending(tickets, tNow, cause, concerned)
  BY DEF TInv
<1>9. stats \in [Holders -> Statistics] /\ s \in Statistics
  BY <1>4, <1>5, <1>8 DEF Exact
<1>10. r \in Statistics /\ \A k \in StatKeys : r[k] = s[k] + (T!Share(u)[k] - T!Share(t)[k])
  BY ONLY T!TicketAssumption, <1>5, <1>6, <1>7, <1>9, AutoStatsIs
<1>11. DOMAIN m = DOMAIN tickets /\ m[i] = u /\ \A j \in DOMAIN tickets \ {i} : m[j] = tickets[j]
  BY <1>0, <1>2
<1>12. /\ m \in Maps(Ticket) /\ IsFiniteSet(DOMAIN m)
       /\ \A a, k : k \in StatKeys \cup {"amount"} => TotalOf(m, a, k) = TotalOf(tickets, a, k) + Weight(u, a, k) - Weight(t, a, k)
  <2>1. m = [j \in DOMAIN m |-> m[j]]
    BY <1>2
  <2>2. DOMAIN m = DOMAIN tickets \cup {i} /\ i \in DOMAIN tickets
    BY <1>0, <1>11
  <2>3. Puts(tickets, i, u, m)
    BY ONLY <1>5, <1>6, <1>8, <1>11, <2>1, <2>2 DEF Puts
  <2> QED
    BY ONLY <1>1, <2>2, <2>3, TotalPut
<1>13. PICK d : d = [k \in StatKeys |-> T!Share(u)[k] - T!Share(t)[k]]
  OBVIOUS
<1>14. ASSUME NEW k \in StatKeys
       PROVE  /\ d[k] = T!Share(u)[k] - T!Share(t)[k] /\ d[k] \in Int
              /\ TotalOf(m, b, k) = TotalOf(tickets, b, k) + d[k] /\ TotalOf(tickets, b, k) \in Int
  <2>1. Weight(t, b, k) = T!Share(t)[k] /\ Weight(u, b, k) = T!Share(u)[k]
    BY <1>5, <1>6, WeightIs
  <2>2. Weight(t, b, k) \in Int /\ Weight(u, b, k) \in Int
    BY <1>5, <1>6, WeightType
  <2>3. TotalOf(tickets, b, k) \in Int /\ TotalOf(m, b, k) = TotalOf(tickets, b, k) + Weight(u, b, k) - Weight(t, b, k)
    BY <1>12, TicketsNow
  <2>4. d[k] = T!Share(u)[k] - T!Share(t)[k]
    BY <1>13
  <2> QED
    BY <2>1, <2>2, <2>3, <2>4
<1>15. \A k \in StatKeys : TotalOf(m, b, k) = TotalOf(tickets, b, k) + (r[k] - s[k])
  <2>1. Moves(tickets, m, b, s, r, d)
    BY ONLY <1>9, <1>10, <1>14 DEF Moves
  <2> QED
    BY ONLY <2>1, OwnerMoves
<1>16. ASSUME NEW a \in Holders \ {b}, NEW k \in StatKeys PROVE TotalOf(m, a, k) = TotalOf(tickets, a, k)
  <2>1. Weight(t, a, k) = 0 /\ Weight(u, a, k) = 0
    <3>1. t.account # a /\ u.account # a
      BY <1>5, <1>6
    <3> QED
      BY ONLY <1>5, <1>6, <3>1, WeightIs, k \in StatKeys
  <2>2. TotalOf(tickets, a, k) \in Int /\ TotalOf(m, a, k) = TotalOf(tickets, a, k) + Weight(u, a, k) - Weight(t, a, k)
    BY <1>12, TicketsNow
  <2> QED
    BY <2>1, <2>2
<1>17. Exact(m, stats', totals')
  <2>1. \A k \in StatKeys : TotalOf(m, b, k) = TotalOf(tickets, b, k) + (r[k] - stats[b][k])
    BY <1>4, <1>15
  <2>2. Exact(m, [stats EXCEPT ![b] = r],
               [pob |-> totals.pob + (r.pob - stats[b].pob), inactive |-> totals.inactive + (r.inactive - stats[b].inactive)])
    BY ONLY T!TicketAssumption, <1>5, <1>8, <1>10, <1>16, <2>1, ExactMoves
  <2> QED
    BY ONLY <1>7, <2>2
<1>18. TotalOf(m, 0, "amount") = TotalOf(tickets, 0, "amount")
  <2>1. "amount" \in StatKeys \cup {"amount"}
    OBVIOUS
  <2>2. Weight(u, 0, "amount") = t.amount /\ Weight(t, 0, "amount") = t.amount
    BY <1>5, <1>6, WeightIs
  <2>3. TotalOf(tickets, 0, "amount") \in Int
    BY <2>1, TicketsNow
  <2>4. TotalOf(m, 0, "amount") = TotalOf(tickets, 0, "amount") + Weight(u, 0, "amount") - Weight(t, 0, "amount")
    BY <1>12, <2>1
  <2> QED
    BY <1>5, <2>2, <2>3, <2>4
<1>19. Pending(m, tNow, cause, concerned)
  BY <1>0, <1>8, <1>11 DEF Pending
<1>20. \A j \in DOMAIN m : j < tNext /\ TicketOK(m[j], tNow)
  BY <1>6, <1>8, <1>11
<1> QED
  BY <1>0, <1>7, <1>8, <1>12, <1>17, <1>18, <1>19, <1>20 DEF TInv
\* A turn of process_tickets pays out or updates the first ticket that is due.
LEMMA TurnIs ==
  ASSUME T!TicketAssumption, TInv, T!ProcessTicket
  PROVE  /\ cause # "none" /\ T!FirstDue \in DOMAIN tickets /\ tickets[T!FirstDue].nextUpdate <= tNow
         /\ PaysOut(T!FirstDue) \/ \E u, r : Updates(T!FirstDue, u, r)
<1>1. PICK i : i = T!FirstDue
  OBVIOUS
<1>2. cause # "none" /\ i \in DOMAIN tickets /\ tickets[i].nextUpdate <= tNow /\ T!Live = DOMAIN tickets
  BY <1>1, FirstIsDue, TicketsNow DEF T!ProcessTicket
<1>3. PICK u : u = T!AutoUpdated([tickets[i] EXCEPT !.floor = T!Max({@, tickets[i].nextUpdate + T!LockTime(tickets[i].type)})])
  OBVIOUS
<1>4. tNext' = tNext /\ tNow' = tNow /\ cause' = cause /\ concerned' = concerned
  BY DEF T!ProcessTicket
<1>5. T!liquid = 0
  BY TypesAre
<1>6. CASE tickets[i].status = "withdrawing" /\ tickets[i].type = 0
  <2>1. PaysOut(i)
    BY <1>1, <1>2, <1>4, <1>5, <1>6 DEF T!ProcessTicket, PaysOut, T!Restrict, Restrict
  <2> QED
    BY <1>1, <1>2, <2>1
<1>7. CASE ~(tickets[i].status = "withdrawing" /\ tickets[i].type = 0)
  <2>1. PICK r : r = T!AutoStats(stats[tickets[i].account], tickets[i], u)
    OBVIOUS
  <2>2. tickets[i] \in Ticket /\ TicketOK(tickets[i], tNow) /\ tNow \in 0..TicketTime
    BY <1>2, TicketsNow DEF TInv
  <2>3. UpdatedOK(tickets[i], u)
    BY <1>2, <1>3, <1>7, <2>2, AutoUpdatedOK
  <2>4. /\ tickets' = [tickets EXCEPT ![i] = u] /\ stats' = [stats EXCEPT ![tickets[i].account] = r]
        /\ totals' = [pob |-> totals.pob + (r.pob - stats[tickets[i].account].pob),
                      inactive |-> totals.inactive + (r.inactive - stats[tickets[i].account].inactive)]
        /\ tBalance' = tBalance
    BY <1>1, <1>3, <1>5, <1>7, <2>1 DEF T!ProcessTicket
  <2>5. Updates(i, u, r)
    BY ONLY <1>2, <1>4, <2>1, <2>3, <2>4 DEF Updates
  <2> QED
    BY <1>1, <1>2, <2>5
<1> QED
  BY <1>6, <1>7

\* Every step keeps the invariant.
LEMMA TicketStep ==
  ASSUME T!TicketAssumption, TInv, [T!Next]_T!vars
  PROVE  TInv'
<1>1. CASE \E a \in Holders, k \in T!Types, n \in TicketAmounts : T!ticket_create(a, k, n)
  BY <1>1, CreateTicketKeeps
<1>2. CASE \E i \in T!Live, k \in T!Types, n \in TicketAmounts : T!ticket_update(i, k, n)
  BY <1>2, UpdateTicketKeeps
<1>3. CASE \E step \in Steps : T!NewBlock(step)
  BY <1>3, NewBlockKeeps
<1>4. CASE T!ProcessTicket
  <2>1. cause # "none" /\ tickets[T!FirstDue].nextUpdate <= tNow
    BY <1>4, TurnIs
  <2>2. CASE PaysOut(T!FirstDue)
    BY <2>2, PaidOutKeeps
  <2>3. CASE \E u, r : Updates(T!FirstDue, u, r)
    BY <2>1, <2>3, AutoUpdateKeeps
  <2> QED
    BY <1>4, <2>2, <2>3, TurnIs
<1>5. CASE T!Processed
  BY <1>5, ProcessedKeeps
<1>6. CASE UNCHANGED T!vars
  BY <1>6 DEF T!vars, TInv
<1> QED
  BY <1>1, <1>2, <1>3, <1>4, <1>5, <1>6 DEF T!Next

\* The invariant holds at first.
LEMMA TicketInit ==
  ASSUME T!TicketAssumption, T!Init
  PROVE  TInv
<1>1. /\ tBalance = [a \in Holders |-> TicketSupply] /\ tickets = [i \in {} |-> 0] /\ tNext = 1
      /\ stats = [a \in Holders |-> T!NoStats] /\ totals = [pob |-> 0, inactive |-> 0] /\ tNow = 0
  BY DEF T!Init
<1>2. TicketSupply \in Nat /\ TicketTime \in Nat /\ IsFiniteSet(Holders)
  BY TicketConstants
<1>3. DOMAIN tickets = {} /\ tickets \in [{} -> Ticket] /\ {} \in SUBSET Nat
  BY <1>1
<1>4. tickets \in Maps(Ticket) /\ IsFiniteSet(DOMAIN tickets)
  BY <1>3, FS_EmptySet DEF Maps
<1>5. \A a, k : TotalOf(tickets, a, k) = 0
  BY <1>3, SumEmpty DEF TotalOf
<1>6. T!NoStats \in Statistics /\ \A k \in StatKeys : T!NoStats[k] = 0
  BY DEF T!NoStats, Statistics, StatKeys
<1>7. Exact(tickets, stats, totals)
  <2>1. stats \in [Holders -> Statistics] /\ \A a \in Holders, k \in StatKeys : stats[a][k] = 0
    BY <1>1, <1>6
  <2>2. PICK f : f = [a \in Holders |-> stats[a].pob]
    OBVIOUS
  <2>3. PICK g : g = [a \in Holders |-> stats[a].inactive]
    OBVIOUS
  <2>4. \A a \in Holders : f[a] = 0 /\ g[a] = 0
    BY <1>1, <2>2, <2>3 DEF T!NoStats
  <2>5. SumOver(f, Holders) = 0 /\ SumOver(g, Holders) = 0
    <3>1. 0 \in Int /\ Cardinality(Holders) \in Nat
      BY <1>2, FS_CardinalityType
    <3>2. SumOver(f, Holders) = 0 * Cardinality(Holders) /\ SumOver(g, Holders) = 0 * Cardinality(Holders)
      BY <1>2, <2>4, <3>1, SumConstant
    <3> QED
      BY <3>1, <3>2
  <2>6. totals \in [pob : Int, inactive : Int] /\ totals.pob = 0 /\ totals.inactive = 0
    BY <1>1
  <2> QED
    BY <1>5, <2>1, <2>2, <2>3, <2>5, <2>6 DEF Exact
<1>8. SumOver(tBalance, Holders) = TicketSupply * Cardinality(Holders) /\ SumOver(tBalance, Holders) \in Int
  <2>1. TicketSupply \in Int /\ \A a \in Holders : tBalance[a] = TicketSupply
    BY <1>1, <1>2
  <2>2. \A a \in Holders : tBalance[a] \in Int
    BY <2>1
  <2> QED
    BY <1>2, <2>1, <2>2, SumConstant, SumType
<1>9. SumOver(tBalance, Holders) + TotalOf(tickets, 0, "amount") = TicketSupply * Cardinality(Holders)
  BY <1>5, <1>8
<1>10. tBalance \in [Holders -> Nat] /\ tNow \in 0..TicketTime /\ tNext \in Nat \ {0}
  BY <1>1, <1>2
<1>11. Pending(tickets, tNow, cause, concerned)
  BY <1>3 DEF Pending
<1> QED
  BY <1>3, <1>4, <1>7, <1>9, <1>10, <1>11 DEF TInv
-----------------------------------------------------------------------------
(* Tickets: what the invariant says.                                       *)

\* Only the part of a set where a function is not zero counts for its sum.
LEMMA SumPart ==
  ASSUME NEW S, IsFiniteSet(S), NEW A \in SUBSET S, NEW f, \A x \in S : f[x] \in Int,
         NEW g, \A x \in A : g[x] = f[x], \A x \in S \ A : f[x] = 0
  PROVE  SumOver(f, S) = SumOver(g, A)
<1> DEFINE B == S \ A
<1>1. IsFiniteSet(A) /\ IsFiniteSet(B) /\ A \cap B = {} /\ S = A \cup B
  BY FS_Subset
<1>2. \A x \in B : f[x] = 0
  OBVIOUS
<1> HIDE DEF B
<1>3. SumOver(f, S) = SumOver(f, A) + SumOver(f, B)
  <2>1. \A x \in A \cup B : f[x] \in Int
    BY <1>1
  <2> QED
    BY <1>1, <2>1, SumUnion
<1>4. SumOver(f, B) = 0
  <2>1. 0 \in Int /\ Cardinality(B) \in Nat
    BY <1>1, FS_CardinalityType
  <2>2. SumOver(f, B) = 0 * Cardinality(B)
    BY <1>1, <1>2, <2>1, SumConstant
  <2> QED
    BY <2>1, <2>2
<1>5. SumOver(f, A) = SumOver(g, A) /\ SumOver(f, A) \in Int
  BY <1>1, SumSame, SumType
<1> QED
  BY <1>3, <1>4, <1>5

\* The operators that the ticket module takes from the community modules.
LEMMA TicketOperators ==
  /\ \A f, S : T!SumOver(f, S) = SumOver(f, S)
  /\ T!Cardinality(Holders) = Cardinality(Holders)
<1>1. ASSUME NEW f, NEW S PROVE T!SumOver(f, S) = SumOver(f, S)
  BY DEF T!SumOver, T!FoldFunctionOnSet, T!MapThenFoldSet, SumOver, FoldFunctionOnSet, MapThenFoldSet
<1>2. T!Cardinality(Holders) = Cardinality(Holders)
  BY DEF T!Cardinality, Cardinality
<1> QED
  BY <1>1, <1>2

\* The invariant implies the checked ones.
LEMMA TicketsAre ==
  ASSUME T!TicketAssumption, TInv
  PROVE  T!TypeOK /\ T!Conserved /\ T!StatsExact /\ T!OthersUntouched
<1>1. /\ tBalance \in [Holders -> Nat] /\ IsFiniteSet(DOMAIN tickets) /\ Exact(tickets, stats, totals)
      /\ SumOver(tBalance, Holders) + TotalOf(tickets, 0, "amount") = TicketSupply * Cardinality(Holders)
      /\ Pending(tickets, tNow, cause, concerned)
  BY DEF TInv
<1>2. T!Live = DOMAIN tickets /\ \A i \in DOMAIN tickets : tickets[i] \in Ticket
  BY TicketsNow
<1>3. T!TypeOK
  <2>1. ASSUME NEW i \in DOMAIN tickets
        PROVE  tickets[i].amount > 0 /\ tickets[i].type \in T!Types /\ tickets[i].value \in Nat
    <3>1. tickets[i].amount \in Nat \ {0} /\ tickets[i].type \in T!Types /\ tickets[i].value \in Nat
      BY <1>2, TicketType
    <3> QED
      BY <3>1
  <2> QED
    BY <1>1, <1>2, <2>1 DEF T!TypeOK
<1>4. T!Conserved
  <2>1. PICK f : f = [i \in DOMAIN tickets |-> tickets[i].amount]
    OBVIOUS
  <2>2. \A i \in DOMAIN tickets : f[i] = Weights(tickets, 0, "amount")[i]
    BY <1>2, <2>1, WeightIs DEF Weights
  <2>3. SumOver(f, DOMAIN tickets) = TotalOf(tickets, 0, "amount")
    BY <1>1, <2>2, SumSame DEF TotalOf
  <2> QED
    BY <1>1, <1>2, <2>1, <2>3, TicketOperators DEF T!Conserved
<1>5. ASSUME NEW a \in Holders, NEW k \in StatKeys
      PROVE  stats[a][k] = SumOver([i \in DOMAIN tickets |-> T!Share(tickets[i])[k]],
                                   {i \in DOMAIN tickets : tickets[i].account = a})
  <2>1. PICK g : g = [i \in DOMAIN tickets |-> T!Share(tickets[i])[k]]
    OBVIOUS
  <2>2. PICK A : A = {i \in DOMAIN tickets : tickets[i].account = a}
    OBVIOUS
  <2>3. PICK f : f = Weights(tickets, a, k)
    OBVIOUS
  <2>4. PICK S : S = DOMAIN tickets
    OBVIOUS
  <2>5. ASSUME NEW i \in S
        PROVE  /\ f[i] = (IF tickets[i].account = a THEN g[i] ELSE 0) /\ f[i] \in Int
    <3>1. f[i] = Weight(tickets[i], a, k) /\ g[i] = T!Share(tickets[i])[k] /\ tickets[i] \in Ticket
      BY <1>2, <2>1, <2>3, <2>4 DEF Weights
    <3>2. Weight(tickets[i], a, k) = IF tickets[i].account = a THEN T!Share(tickets[i])[k] ELSE 0
      BY <3>1, WeightIs
    <3>3. Weight(tickets[i], a, k) \in Int
      BY <3>1, WeightType
    <3> QED
      BY <3>1, <3>2, <3>3
  <2>6. A \in SUBSET S /\ (\A i \in A : g[i] = f[i]) /\ (\A i \in S \ A : f[i] = 0) /\ IsFiniteSet(S)
    BY <1>1, <2>2, <2>4, <2>5
  <2>7. SumOver(f, S) = SumOver(g, A)
    BY <2>5, <2>6, SumPart
  <2>8. stats[a][k] = TotalOf(tickets, a, k) /\ TotalOf(tickets, a, k) = SumOver(f, S)
    BY <1>1, <2>3, <2>4 DEF Exact, TotalOf
  <2> QED
    BY <2>1, <2>2, <2>7, <2>8
<1>6. T!StatsExact
  <2>1. DOMAIN T!NoStats = StatKeys
    BY DEF T!NoStats, StatKeys
  <2>2. ASSUME NEW a \in Holders, NEW k \in DOMAIN T!NoStats
        PROVE  stats[a][k] = T!SumOver([i \in T!Live |-> T!Share(tickets[i])[k]],
                                       {i \in T!Live : tickets[i].account = a})
    BY <1>2, <1>5, <2>1, TicketOperators
  <2>3. /\ totals.pob = T!SumOver([a \in Holders |-> stats[a].pob], Holders)
        /\ totals.inactive = T!SumOver([a \in Holders |-> stats[a].inactive], Holders)
    BY <1>1, TicketOperators DEF Exact
  <2> QED
    BY <2>2, <2>3 DEF T!StatsExact
<1>7. T!OthersUntouched
  BY <1>1, <1>2 DEF T!OthersUntouched, Pending
<1> QED
  BY <1>3, <1>4, <1>6, <1>7

\* What a step does to the tickets.
LEMMA TicketsOnly ==
  ASSUME T!TicketAssumption, TInv, [T!Next]_T!vars, NEW i \in DOMAIN tickets
  PROVE  T!PaidInTime(i) /\ T!OnlyLosesValue(i)
<1>1. tickets[i] \in Ticket /\ TicketOK(tickets[i], tNow) /\ tNow \in Nat /\ i \in Nat /\ i < tNext /\ tNext \in Nat
      /\ T!Live = DOMAIN tickets
  BY TicketsNow DEF TInv
<1>2. i # tNext
  BY <1>1
<1>3. T!lock_forever = 4
  BY TypesAre
<1>4. ASSUME i \in DOMAIN tickets', tickets'[i] = tickets[i] \/ tickets[i].type # 4
      PROVE  T!PaidInTime(i) /\ T!OnlyLosesValue(i)
  BY <1>3, <1>4 DEF T!PaidInTime, T!OnlyLosesValue
<1>5. CASE \E a \in Holders, k \in T!Types, n \in TicketAmounts : T!ticket_create(a, k, n)
  BY <1>1, <1>2, <1>4, <1>5 DEF T!ticket_create
<1>6. CASE \E j \in T!Live, k \in T!Types, n \in TicketAmounts : T!ticket_update(j, k, n)
  <2>1. PICK j \in DOMAIN tickets, k \in T!Types, n \in TicketAmounts : T!ticket_update(j, k, n)
    BY <1>1, <1>6
  <2>2. tickets[j].type # 4
    BY <1>3, <2>1 DEF T!ticket_update
  <2>3. i \in DOMAIN tickets' /\ (i # j => tickets'[i] = tickets[i])
    <3>1. CASE n < tickets[j].amount
      BY <1>1, <1>2, <2>1, <3>1 DEF T!ticket_update
    <3>2. CASE ~(n < tickets[j].amount)
      BY <2>1, <3>2 DEF T!ticket_update
    <3> QED
      BY <3>1, <3>2
  <2> QED
    BY <1>4, <2>2, <2>3
<1>7. CASE T!ProcessTicket
  <2>1. PICK f : f = T!FirstDue
    OBVIOUS
  <2>2. f \in DOMAIN tickets /\ tickets[f].nextUpdate <= tNow /\ (PaysOut(f) \/ \E u, r : Updates(f, u, r))
    BY <1>7, <2>1, TurnIs
  <2>3. CASE i # f
    <3>1. CASE PaysOut(f)
      BY <1>4, <2>3, <3>1 DEF PaysOut, Restrict
    <3>2. CASE \E u, r : Updates(f, u, r)
      BY <1>4, <2>3, <3>2 DEF Updates
    <3> QED
      BY <2>2, <3>1, <3>2
  <2>4. CASE i = f /\ PaysOut(f)
    <3>1. tickets[i].type = 0 /\ tickets[i].status = "withdrawing" /\ i \notin DOMAIN tickets'
      BY <2>4 DEF PaysOut, Restrict
    <3>2. tickets[i].floor < tNow + ChargingStep
      <4>1. tickets[i].downgrade = tickets[i].nextUpdate
        BY <1>1, <3>1 DEF TicketOK
      <4>2. tickets[i].floor < (IF tickets[i].downgrade = T!Never THEN tNow ELSE tickets[i].downgrade)
                               + T!LockTime(tickets[i].type) + ChargingStep
        BY <1>1, <3>1 DEF TicketOK
      <4>3. T!LockTime(tickets[i].type) = 0 /\ ChargingStep \in Nat
        BY <3>1, TypesAre, TicketConstants
      <4>4. tickets[i].floor \in Nat /\ tickets[i].nextUpdate \in Nat
        BY <1>1, TicketType
      <4> QED
        BY <1>1, <2>2, <2>4, <4>1, <4>2, <4>3, <4>4
    <3>3. T!PaidInTime(i)
      <4>1. tickets[i].floor \in Nat /\ ChargingStep \in Nat
        BY <1>1, TicketType, TicketConstants
      <4> QED
        BY <1>1, <3>2, <4>1 DEF T!PaidInTime
    <3>4. T!OnlyLosesValue(i)
      BY <1>3, <3>1 DEF T!OnlyLosesValue
    <3> QED
      BY <3>3, <3>4
  <2>5. CASE i = f /\ \E u, r : Updates(f, u, r)
    <3>1. PICK u, r : Updates(f, u, r)
      BY <2>5
    <3>2. i \in DOMAIN tickets' /\ tickets'[i] = u /\ UpdatedOK(tickets[i], u)
      BY <2>2, <2>5, <3>1 DEF Updates
    <3>3. T!PaidInTime(i)
      BY <3>2 DEF T!PaidInTime
    <3>4. T!OnlyLosesValue(i)
      BY <1>3, <3>2 DEF T!OnlyLosesValue, UpdatedOK
    <3> QED
      BY <3>3, <3>4
  <2> QED
    BY <2>2, <2>3, <2>4, <2>5
<1>8. CASE T!Processed \/ (\E step \in Steps : T!NewBlock(step)) \/ UNCHANGED T!vars
  BY <1>4, <1>8 DEF T!Processed, T!NewBlock, T!vars
<1> QED
  BY <1>5, <1>6, <1>7, <1>8 DEF T!Next

\* Every turn of process_tickets advances.
LEMMA TurnAdvances ==
  ASSUME T!TicketAssumption, TInv, [T!Next]_T!vars
  PROVE  T!Advances \/ UNCHANGED T!vars
<1>1. CASE \/ \E a \in Holders, k \in T!Types, n \in TicketAmounts : T!ticket_create(a, k, n)
           \/ \E i \in T!Live, k \in T!Types, n \in TicketAmounts : T!ticket_update(i, k, n)
           \/ \E step \in Steps : T!NewBlock(step)
           \/ T!Processed
  BY <1>1 DEF T!ticket_create, T!ticket_update, T!NewBlock, T!Processed, T!Advances
<1>2. CASE T!ProcessTicket
  <2>1. PICK f : f = T!FirstDue
    OBVIOUS
  <2>2. f \in DOMAIN tickets /\ (PaysOut(f) \/ \E u, r : Updates(f, u, r))
    BY <1>2, <2>1, TurnIs
  <2>3. f \notin DOMAIN tickets' \/ tickets'[f].nextUpdate > tickets[f].nextUpdate
    <3>1. CASE PaysOut(f)
      BY <3>1 DEF PaysOut, Restrict
    <3>2. CASE \E u, r : Updates(f, u, r)
      BY <2>2, <3>2 DEF Updates, UpdatedOK
    <3> QED
      BY <2>2, <3>1, <3>2
  <2> QED
    BY <2>1, <2>3 DEF T!Advances
<1> QED
  BY <1>1, <1>2 DEF T!Next

\* The inductive invariant of tickets holds always.
THEOREM TicketInvariant ==
  ASSUME T!TicketAssumption
  PROVE  T!Spec => []TInv
<1>1. T!Init => TInv
  BY TicketInit
<1>2. TInv /\ [T!Next]_T!vars => TInv'
  BY TicketStep
<1> QED
  BY <1>1, <1>2, PTL DEF T!Spec

\* However tickets are split, charged, downgraded and paid out, locked and liquid
\* tokens add up to the supply (ticket_evaluator.cpp, db_update.cpp process_tickets).
THEOREM TicketsConserve ==
  ASSUME T!TicketAssumption
  PROVE  T!Spec => [](T!TypeOK /\ T!Conserved)
<1>1. TInv => T!TypeOK /\ T!Conserved
  BY TicketsAre
<1> QED
  BY <1>1, TicketInvariant, PTL

\* For any steps of time in which to cancel takes less than to charge, the
\* statistics kept by differences are exact, an update disturbs no other ticket, no
\* ticket is paid out before its types allow, less a charging step, what is locked
\* forever stays, and every turn of the loop of process_tickets advances (TicketsKept).
THEOREM TicketsAreKept ==
  ASSUME T!TicketAssumption
  PROVE  T!Spec => T!TicketsKept
<1>1. TInv => T!StatsExact /\ T!OthersUntouched
  BY TicketsAre
<1>2. TInv /\ [T!Next]_T!vars => [\A i \in T!Live : T!PaidInTime(i)]_T!vars
  BY TicketsOnly DEF T!Live
<1>3. TInv /\ [T!Next]_T!vars => [\A i \in T!Live : T!OnlyLosesValue(i)]_T!vars
  BY TicketsOnly DEF T!Live
<1>4. TInv /\ [T!Next]_T!vars => [T!Advances]_T!vars
  BY TurnAdvances
<1> QED
  BY <1>1, <1>2, <1>3, <1>4, TicketInvariant, PTL
     DEF T!Spec, T!TicketsKept, T!LockHonoured, T!ForeverStays, T!LoopAdvances

-----------------------------------------------------------------------------
(* Vesting balances: the inductive invariant.                              *)

Vb ==
  [owner : Members, balance : Nat, policy : {"linear", "cdd", "instant"}, begin : Nat, total : Nat,
   seconds : Nat, start : Nat, earned : Nat, last : Nat, held : Nat, vested : Nat, out : Nat]

\* What a linear policy has let go by time t.
Vested(begin, total, t) ==
  IF t - begin > 0 /\ t - begin >= Cliff
  THEN IF t - begin < VestingDuration THEN (total * (t - begin)) \div VestingDuration ELSE total
  ELSE 0

\* No more has been taken from a linear policy than it has let go.
LinearOK(begin, total, left, t) ==
  begin <= t /\ left <= total /\ total - left <= Vested(begin, total, t)

\* What is known of a vesting balance at time t: the coin-seconds of what was taken
\* and those that are left were earned, or came in.
VbOK(vb, t) ==
  /\ vb.last <= t
  /\ vb.policy = "linear" => LinearOK(vb.begin, vb.total, vb.balance, t)
  /\ vb.policy = "cdd" =>
       vb.out * V!Seconds(vb) + vb.earned <= vb.held + vb.vested * V!Seconds(vb)

\* The balances of list and the accounts' cashback balances among them.
ListOK(list, back, t) ==
  /\ list \in Seq(Vb) /\ \A i \in 1..Len(list) : VbOK(list[i], t)
  /\ back \in [Members -> Nat]
  /\ \A a \in Members : back[a] # 0 =>
       back[a] \in 1..Len(list) /\ list[back[a]].policy = "cdd" /\ list[back[a]].start = 0
       /\ list[back[a]].owner = a

Lying(list) == SumOver([i \in DOMAIN list |-> list[i].balance], DOMAIN list)

VTypes ==
  /\ vBalance \in [Members -> Nat] /\ vNow \in Nat \ {0}
  /\ ListOK(vbs, cashback, vNow)
  /\ vPending \in [fees : Nat, vested : Nat] /\ accumulated \in Nat /\ burned \in Nat
  /\ referrer \in Members /\ period \in VestingPeriods
  /\ genesis \in [left : Nat, last : Nat] /\ LinearOK(0, GenesisVesting, genesis.left, vNow)
  /\ vFees \in Nat /\ (vFees = 0 => vPending.vested = 0) /\ vFees <= MaxFees

VAdds ==
  SumOver(vBalance, Members) + Lying(vbs) + vPending.fees + vPending.vested + accumulated + burned
  + genesis.left = VestingSupply * Cardinality(Members) + GenesisVesting

VInv == VTypes /\ VAdds

\* What the constants are.
LEMMA VestingConstants ==
  ASSUME V!VestingAssumption
  PROVE  /\ VestingSupply \in Nat /\ Threshold \in Nat /\ Cliff \in Nat /\ VestingDuration \in Nat \ {0}
         /\ GenesisVesting \in Nat /\ MaxFees \in Nat /\ Cliff < VestingDuration
         /\ Fees \subseteq Nat \ {0} /\ VestingAmounts \subseteq Nat \ {0} /\ Day \in Nat \ {0}
         /\ VestingPeriods \subseteq Nat
         /\ NetworkCut \in Nat /\ LifetimeCut \in Nat /\ ReferrerCut \in Nat /\ MemberUntil \in Nat
         /\ NetworkCut + LifetimeCut <= 100 /\ ReferrerCut <= 100
         /\ IsFiniteSet(Members)
         /\ Payer \in Members /\ Referrer \in Members /\ LifetimeReferrer \in Members /\ Registrar \in Members
<1>1. IsFiniteSet(Members)
  BY DEF V!VestingAssumption, V!IsFiniteSet, IsFiniteSet
<1>2. Cliff \in Nat /\ VestingDuration \in Nat /\ Cliff < VestingDuration
  BY DEF V!VestingAssumption
<1> QED
  BY <1>1, <1>2 DEF V!VestingAssumption

\* A linear policy lets go more and more, up to everything.
LEMMA VestedGrows ==
  ASSUME V!VestingAssumption, NEW b \in Nat, NEW n \in Nat, NEW t \in Nat, NEW u \in Nat, b <= t, t <= u
  PROVE  /\ Vested(b, n, t) \in 0..n
         /\ Vested(b, n, t) <= Vested(b, n, u)
<1> DEFINE D == VestingDuration
           G(x) == (n * x) \div D
<1>1. D \in Nat \ {0} /\ Cliff \in Nat
  BY VestingConstants
<1> HIDE DEF D
<1>2. ASSUME NEW x \in Nat, NEW y \in Nat, x <= y, x <= D PROVE G(x) \in 0..n /\ G(x) <= G(y)
  <2>1. n * x \in Nat /\ n * y \in Nat /\ n * D \in Nat /\ n * x <= n * y /\ n * x <= n * D
    BY <1>1, <1>2, MulMono, MulNat
  <2>2. G(x) \in Nat /\ G(x) <= G(y)
    BY <1>1, <2>1, DivMono, DivFloor
  <2>3. (n * x) \div D <= (n * D) \div D
    BY <1>1, <2>1, DivMono
  <2>4. (0 + n * D) \div D = (0 \div D) + n /\ 0 \div D = 0
    <3>1. (0 + n * D) \div D = (0 \div D) + n
      BY <1>1, DivShift
    <3>2. 0 \div D \in Nat /\ D * (0 \div D) <= 0
      BY <1>1, DivFloor
    <3>3. ASSUME 1 <= 0 \div D PROVE FALSE
      <4>1. D * 1 <= D * (0 \div D)
        BY <1>1, <3>2, <3>3, MulMono
      <4> QED
        BY <1>1, <3>2, <4>1
    <3> QED
      BY <3>1, <3>2, <3>3
  <2>5. 0 + n * D = n * D
    BY <2>1
  <2> QED
    BY <2>2, <2>3, <2>4, <2>5
<1>3. t - b \in Nat /\ u - b \in Nat /\ t - b <= u - b
  OBVIOUS
<1> DEFINE x == t - b
           y == u - b
           At(z) == IF z > 0 /\ z >= Cliff THEN IF z < D THEN G(z) ELSE n ELSE 0
<1>4. x \in Nat /\ y \in Nat /\ x <= y
  BY <1>3
<1>5. Vested(b, n, t) = At(x) /\ Vested(b, n, u) = At(y)
  BY DEF Vested, D
<1> HIDE DEF x, y
<1>6. x < D => G(x) \in 0..n /\ G(x) <= G(y)
  BY <1>1, <1>2, <1>4
<1>7. y < D => G(y) \in 0..n
  BY <1>1, <1>2, <1>4
<1> HIDE DEF G
<1> QED
  BY <1>1, <1>4, <1>5, <1>6, <1>7

\* LinearAllowed is what has been let go and is still there.
LEMMA LinearAllows ==
  ASSUME V!VestingAssumption, NEW b \in Nat, NEW n \in Nat, NEW l \in Nat, vNow \in Nat, LinearOK(b, n, l, vNow)
  PROVE  /\ V!LinearAllowed(b, n, l) \in 0..l
         /\ \A k \in Nat : k <= V!LinearAllowed(b, n, l) => l - k \in Nat /\ LinearOK(b, n, l - k, vNow)
<1>1. Vested(b, n, vNow) \in 0..n /\ b <= vNow /\ l <= n /\ n - l <= Vested(b, n, vNow)
  BY VestedGrows DEF LinearOK
<1>2. V!LinearAllowed(b, n, l) = IF vNow - b > 0 /\ vNow - b >= Cliff THEN Vested(b, n, vNow) - (n - l) ELSE 0
  BY DEF V!LinearAllowed, Vested
<1>3. V!LinearAllowed(b, n, l) \in 0..l /\ V!LinearAllowed(b, n, l) <= Vested(b, n, vNow) - (n - l)
  BY <1>1, <1>2 DEF Vested
<1> QED
  BY <1>1, <1>3 DEF LinearOK

\* Coin-seconds are what was earned and what has lain since, up to the cap.
LEMMA CoinSecondsAre ==
  ASSUME NEW vb \in Vb, vNow \in Nat, vb.last <= vNow
  PROVE  /\ V!Seconds(vb) \in Nat \ {0} /\ vb.seconds <= V!Seconds(vb)
         /\ (vb.seconds # 0 => V!Seconds(vb) = vb.seconds)
         /\ vb.balance * (vNow - vb.last) \in Nat /\ vb.balance * V!Seconds(vb) \in Nat
         /\ V!CoinSeconds(vb) \in Nat
         /\ V!CoinSeconds(vb) <= vb.earned + vb.balance * (vNow - vb.last)
         /\ V!CoinSeconds(vb) <= vb.balance * V!Seconds(vb)
         /\ vb.earned <= vb.balance * V!Seconds(vb) => vb.earned <= V!CoinSeconds(vb)
<1>1. V!Seconds(vb) \in Nat \ {0} /\ vb.seconds <= V!Seconds(vb) /\ (vb.seconds # 0 => V!Seconds(vb) = vb.seconds)
  BY DEF Vb, V!Seconds, V!MaxOf
<1> DEFINE lain == vb.balance * (vNow - vb.last)
           cap == vb.balance * V!Seconds(vb)
<1>2. lain \in Nat /\ cap \in Nat /\ vb.earned \in Nat
  BY <1>1, MulNat DEF Vb
<1>3. V!CoinSeconds(vb) = IF vb.earned + lain < cap THEN vb.earned + lain ELSE cap
  BY DEF V!CoinSeconds, V!MinOf
<1> HIDE DEF lain, cap
<1>4. /\ V!CoinSeconds(vb) \in Nat /\ V!CoinSeconds(vb) <= vb.earned + lain /\ V!CoinSeconds(vb) <= cap
      /\ vb.earned <= cap => vb.earned <= V!CoinSeconds(vb)
  BY <1>2, <1>3
<1> QED
  BY <1>1, <1>2, <1>4 DEF lain, cap

\* What may be withdrawn is there, and under coin-seconds has been paid for.
LEMMA AllowedIs ==
  ASSUME V!VestingAssumption, vNow \in Nat, NEW vb \in Vb, VbOK(vb, vNow)
  PROVE  /\ V!Allowed(vb) \in 0..vb.balance
         /\ vb.policy = "cdd" => V!Allowed(vb) * V!Seconds(vb) <= V!CoinSeconds(vb)
<1>1. CASE vb.policy = "linear"
  <2>1. V!Allowed(vb) = V!LinearAllowed(vb.begin, vb.total, vb.balance)
    BY <1>1 DEF V!Allowed
  <2>2. LinearOK(vb.begin, vb.total, vb.balance, vNow)
    BY <1>1 DEF VbOK
  <2>3. vb.begin \in Nat /\ vb.total \in Nat /\ vb.balance \in Nat
    BY DEF Vb
  <2> QED
    BY <1>1, <2>1, <2>2, <2>3, LinearAllows
<1>2. CASE vb.policy = "cdd"
  <2> DEFINE c == V!CoinSeconds(vb)
             s == V!Seconds(vb)
  <2>1. c \in Nat /\ s \in Nat \ {0} /\ c <= vb.balance * s /\ vb.balance \in Nat
    BY CoinSecondsAre DEF VbOK, Vb
  <2>2. V!Allowed(vb) = IF vNow <= vb.start THEN 0 ELSE c \div s
    BY <1>2 DEF V!Allowed
  <2> HIDE DEF c, s
  <2>3. c \div s \in Nat /\ s * (c \div s) <= c
    BY <2>1, DivFloor
  <2>4. (c \div s) * s = s * (c \div s)
    BY <2>1, <2>3
  <2>5. c \div s <= vb.balance
    BY <2>1, <2>3, <2>4, MulCancel
  <2>6. V!Allowed(vb) \in 0..vb.balance /\ V!Allowed(vb) * s <= c
    <3>1. CASE vNow <= vb.start
      <4>1. V!Allowed(vb) = 0 /\ 0 * s = 0
        BY <2>1, <2>2, <3>1
      <4> QED
        BY <4>1, <2>1
    <3>2. CASE ~(vNow <= vb.start)
      BY <2>1, <2>2, <2>3, <2>4, <2>5, <3>2
    <3> QED
      BY <3>1, <3>2
  <2> QED
    BY <2>6 DEF c, s
<1>3. CASE vb.policy = "instant"
  BY <1>3 DEF V!Allowed, Vb
<1>4. vb.policy \in {"linear", "cdd", "instant"}
  BY DEF Vb
<1> QED
  BY <1>1, <1>2, <1>3, <1>4

\* The properties of a sound list.
LEMMA PaidFor ==
  ASSUME NEW vb \in Vb, NEW t, VbOK(vb, t), vb.policy = "cdd"
  PROVE  vb.out * V!Seconds(vb) <= vb.held + vb.vested * V!Seconds(vb)
<1>1. V!Seconds(vb) \in Nat /\ vb.out \in Nat /\ vb.vested \in Nat /\ vb.earned \in Nat /\ vb.held \in Nat
  BY DEF Vb, V!Seconds, V!MaxOf
<1>2. vb.out * V!Seconds(vb) \in Nat /\ vb.vested * V!Seconds(vb) \in Nat
  BY <1>1, MulNat
<1>3. vb.out * V!Seconds(vb) + vb.earned <= vb.held + vb.vested * V!Seconds(vb)
  BY DEF VbOK
<1> QED
  BY <1>1, <1>2, <1>3

\* A vesting balance with other numbers is one.
Counted(vb, c, t, h) == [vb EXCEPT !.earned = c, !.last = t, !.held = h]
LEMMA CountedIs ==
  ASSUME NEW vb \in Vb, NEW c \in Nat, NEW t \in Nat, NEW h \in Nat
  PROVE  Counted(vb, c, t, h) \in Vb
BY DEF Vb, Counted

\* An update of the coin-seconds keeps what is known.
Same(vb, u) ==
  /\ u.owner = vb.owner /\ u.policy = vb.policy /\ u.begin = vb.begin /\ u.total = vb.total
  /\ u.seconds = vb.seconds /\ u.start = vb.start

LEMMA UpdatedIs ==
  ASSUME V!VestingAssumption, vNow \in Nat, NEW vb \in Vb, VbOK(vb, vNow), NEW u, u = V!Updated(vb)
  PROVE  /\ u \in Vb /\ VbOK(u, vNow) /\ Same(vb, u) /\ V!Seconds(u) = V!Seconds(vb)
         /\ u.balance = vb.balance /\ u.vested = vb.vested /\ u.out = vb.out
         /\ vb.policy = "cdd" => u.earned = V!CoinSeconds(vb) /\ u.last = vNow
<1>1. CASE vb.policy # "cdd"
  BY <1>1 DEF V!Updated, Same
<1>2. CASE vb.policy = "cdd"
  <2> DEFINE c == V!CoinSeconds(vb)
             s == V!Seconds(vb)
             lain == vb.balance * (vNow - vb.last)
  <2>1. c \in Nat /\ s \in Nat \ {0} /\ lain \in Nat /\ c <= vb.earned + lain
    BY CoinSecondsAre DEF VbOK
  <2>2. u = [vb EXCEPT !.earned = c, !.last = vNow, !.held = @ + lain]
    BY <1>2 DEF V!Updated
  <2> HIDE DEF c, s, lain
  <2>3. /\ u.owner = vb.owner /\ u.policy = vb.policy /\ u.begin = vb.begin /\ u.total = vb.total
        /\ u.seconds = vb.seconds /\ u.start = vb.start
        /\ u.balance = vb.balance /\ u.vested = vb.vested /\ u.out = vb.out
        /\ u.earned = c /\ u.last = vNow /\ u.held = vb.held + lain
    BY <2>2 DEF Vb
  <2>4. u \in Vb
    <3>1. vb.held + lain \in Nat
      BY <2>1 DEF Vb
    <3>2. u = Counted(vb, c, vNow, vb.held + lain)
      BY <2>2 DEF Counted
    <3> QED
      BY <2>1, <3>1, <3>2, CountedIs
  <2>5. V!Seconds(u) = s
    BY <2>3 DEF V!Seconds, s
  <2>6. vb.out * s + vb.earned <= vb.held + vb.vested * s
    BY <1>2 DEF VbOK, s
  <2>7. vb.out * s \in Nat /\ vb.vested * s \in Nat /\ vb.earned \in Nat /\ vb.held \in Nat
    BY <2>1, MulNat DEF Vb
  <2>8. u.out * V!Seconds(u) + u.earned <= u.held + u.vested * V!Seconds(u)
    BY <2>1, <2>3, <2>5, <2>6, <2>7
  <2>9. VbOK(u, vNow)
    BY <1>2, <2>3, <2>8 DEF VbOK
  <2> QED
    BY <2>3, <2>4, <2>5, <2>9 DEF Same, c, s
<1> QED
  BY <1>1, <1>2

\* Coin-seconds that have just been counted are counted.
LEMMA CountedNow ==
  ASSUME NEW w \in Vb, vNow \in Nat, w.last = vNow, w.earned <= w.balance * V!Seconds(w)
  PROVE  V!CoinSeconds(w) = w.earned
<1>1. w.balance * (vNow - w.last) = 0 /\ w.earned \in Nat
  BY DEF Vb
<1>2. V!CoinSeconds(w) \in Nat /\ V!CoinSeconds(w) <= w.earned + w.balance * (vNow - w.last) /\ w.earned <= V!CoinSeconds(w)
  BY CoinSecondsAre
<1> QED
  BY <1>1, <1>2

\* Vb with another balance, and with what is counted of it.
Filled(u, b, e, v, o) == [u EXCEPT !.balance = b, !.earned = e, !.vested = v, !.out = o]
Fills(u, b, e, v, o, w) ==
  u \in Vb /\ b \in Nat /\ e \in Nat /\ v \in Nat /\ o \in Nat /\ w = Filled(u, b, e, v, o)
LEMMA FilledIs ==
  ASSUME NEW u, NEW b, NEW e, NEW v, NEW o, NEW w, Fills(u, b, e, v, o, w)
  PROVE  /\ w \in Vb /\ Same(u, w) /\ w.last = u.last /\ w.held = u.held
         /\ w.balance = b /\ w.earned = e /\ w.vested = v /\ w.out = o
         /\ V!Seconds(w) = V!Seconds(u)
<1>1. w \in Vb
  BY DEF Vb, Fills, Filled
<1>2. /\ Same(u, w) /\ w.last = u.last /\ w.held = u.held
      /\ w.balance = b /\ w.earned = e /\ w.vested = v /\ w.out = o
  BY DEF Vb, Fills, Filled, Same
<1> QED
  BY <1>1, <1>2 DEF V!Seconds, Same

\* w is vb after a deposit of n, of which k came in vested.
Grows(vb, w, n, k) ==
  /\ w \in Vb /\ VbOK(w, vNow) /\ Same(vb, w)
  /\ w.balance = vb.balance + n /\ w.vested = vb.vested + k
  /\ V!Allowed(w) >= V!Allowed(vb) + k

\* What is deposited in a cashback balance counts from now on; the coin-seconds that
\* come with it can be used at once.
LEMMA FilledGrows ==
  ASSUME V!VestingAssumption, vNow \in Nat, NEW vb \in Vb, VbOK(vb, vNow), vb.policy = "cdd", vb.start < vNow,
         NEW n \in Nat, NEW k \in 0..n,
         NEW w, w = Filled(V!Updated(vb), vb.balance + n, V!CoinSeconds(vb) + k * V!Seconds(vb),
                           vb.vested + k, vb.out)
  PROVE  Grows(vb, w, n, k)
<1> DEFINE c == V!CoinSeconds(vb)
           s == V!Seconds(vb)
<1>1. PICK u : u = V!Updated(vb)
  OBVIOUS
<1>2. /\ u \in Vb /\ VbOK(u, vNow) /\ Same(vb, u) /\ V!Seconds(u) = s
      /\ u.vested = vb.vested /\ u.out = vb.out /\ u.earned = c /\ u.last = vNow
  BY <1>1, UpdatedIs
<1>3. c \in Nat /\ s \in Nat \ {0} /\ c <= vb.balance * s /\ vb.balance * s \in Nat
  BY CoinSecondsAre DEF VbOK
<1>4. vb.balance \in Nat /\ vb.vested \in Nat /\ vb.out \in Nat /\ u.held \in Nat /\ k \in Nat
  BY <1>2 DEF Vb
<1>5. w = Filled(u, vb.balance + n, c + k * s, vb.vested + k, vb.out)
  BY <1>1
<1>6. V!Allowed(vb) = c \div s
  BY <1>3 DEF V!Allowed, Vb
<1> HIDE DEF c, s
<1>7. n * s \in Nat /\ k * s \in Nat /\ k * s <= n * s /\ vb.out * s \in Nat /\ vb.vested * s \in Nat
  BY <1>3, <1>4, MulNat, MulMono
<1>8. (vb.balance + n) * s = vb.balance * s + n * s /\ (vb.vested + k) * s = vb.vested * s + k * s
  BY <1>3, <1>4
<1>9. c + k * s \in Nat /\ vb.balance + n \in Nat /\ vb.vested + k \in Nat
  BY <1>3, <1>4, <1>7
<1>10. /\ w \in Vb /\ Same(u, w) /\ w.last = vNow /\ w.held = u.held
       /\ w.balance = vb.balance + n /\ w.earned = c + k * s /\ w.vested = vb.vested + k /\ w.out = vb.out
       /\ V!Seconds(w) = s
  <2>1. PICK b, e, v, o : b = vb.balance + n /\ e = c + k * s /\ v = vb.vested + k /\ o = vb.out
    OBVIOUS
  <2>2. Fills(u, b, e, v, o, w)
    BY <1>2, <1>4, <1>5, <1>9, <2>1 DEF Fills
  <2>3. /\ w \in Vb /\ Same(u, w) /\ w.last = u.last /\ w.held = u.held
        /\ w.balance = b /\ w.earned = e /\ w.vested = v /\ w.out = o
        /\ V!Seconds(w) = V!Seconds(u)
    BY ONLY <2>2, FilledIs
  <2> QED
    BY <1>2, <2>1, <2>3
<1>11. u.policy = "cdd" /\ w.policy = "cdd" /\ w.start < vNow
  BY <1>2, <1>10 DEF Same
<1>12. vb.out * s + c <= u.held + vb.vested * s
  BY <1>2, <1>11 DEF VbOK
<1>13. VbOK(w, vNow)
  <2>1. w.out * s + w.earned <= w.held + w.vested * s
    BY <1>3, <1>4, <1>7, <1>8, <1>10, <1>12
  <2> QED
    BY <1>10, <1>11, <2>1 DEF VbOK
<1>14. V!CoinSeconds(w) = c + k * s
  <2>1. w.earned <= w.balance * V!Seconds(w)
    BY <1>3, <1>7, <1>8, <1>10
  <2> QED
    BY <1>10, <2>1, CountedNow
<1>15. V!Allowed(w) = (c + k * s) \div s
  BY <1>10, <1>11, <1>14 DEF V!Allowed, Vb
<1>16. (c + k * s) \div s = (c \div s) + k /\ c \div s \in Nat
  BY <1>3, <1>4, DivShift, DivFloor
<1> QED
  BY <1>2, <1>4, <1>6, <1>10, <1>13, <1>15, <1>16 DEF Grows, Same

\* deposit into a cashback balance
LEMMA DepositGrows ==
  ASSUME V!VestingAssumption, vNow \in Nat, NEW vb \in Vb, VbOK(vb, vNow), vb.policy = "cdd", vb.start < vNow,
         NEW n \in Nat
  PROVE  Grows(vb, V!Deposit(vb, n), n, 0) /\ Grows(vb, V!DepositVested(vb, n), n, n)
<1>1. PICK u : u = V!Updated(vb)
  OBVIOUS
<1>2. /\ u \in Vb /\ u.vested = vb.vested /\ u.out = vb.out /\ u.earned = V!CoinSeconds(vb)
      /\ u.balance = vb.balance
  BY <1>1, UpdatedIs
<1>3. V!CoinSeconds(vb) \in Nat /\ V!Seconds(vb) \in Nat /\ vb.balance \in Nat /\ vb.vested \in Nat
  BY CoinSecondsAre DEF VbOK, Vb
<1>4. V!Deposit(vb, n) = Filled(u, vb.balance + n, V!CoinSeconds(vb) + 0 * V!Seconds(vb), vb.vested + 0, vb.out)
  <2>1. V!CoinSeconds(vb) + 0 * V!Seconds(vb) = u.earned /\ vb.vested + 0 = u.vested
    BY <1>2, <1>3
  <2>2. V!Deposit(vb, n) = [u EXCEPT !.balance = vb.balance + n]
    BY <1>1, <1>2 DEF V!Deposit
  <2>3. [u EXCEPT !.balance = vb.balance + n] = Filled(u, vb.balance + n, u.earned, u.vested, u.out)
    BY <1>2 DEF Filled, Vb
  <2> QED
    BY <1>2, <2>1, <2>2, <2>3
<1>5. V!DepositVested(vb, n)
        = Filled(u, vb.balance + n, V!CoinSeconds(vb) + n * V!Seconds(vb), vb.vested + n, vb.out)
  <2> DEFINE e == V!CoinSeconds(vb) + n * V!Seconds(vb)
             v == vb.vested + n
             b == vb.balance + n
  <2>1. V!Deposit(vb, n) = [u EXCEPT !.balance = b]
    BY <1>1, <1>2 DEF V!Deposit
  <2>2. PICK z : z = [u EXCEPT !.balance = b]
    OBVIOUS
  <2>3. z.earned = V!CoinSeconds(vb) /\ z.vested = vb.vested
    BY <1>2, <2>2 DEF Vb
  <2>4. V!DepositVested(vb, n) = [z EXCEPT !.earned = e, !.vested = v]
    BY <2>1, <2>2, <2>3 DEF V!DepositVested
  <2> HIDE DEF e, v, b
  <2>5. [z EXCEPT !.earned = e, !.vested = v] = Filled(u, b, e, v, u.out)
    BY <1>2, <2>2 DEF Filled, Vb
  <2> QED
    BY <1>2, <2>4, <2>5 DEF e, v, b
<1> QED
  BY <1>1, <1>4, <1>5, FilledGrows

\* withdraw takes what is allowed, and the coin-seconds it costs.
LEMMA WithdrawIs ==
  ASSUME V!VestingAssumption, vNow \in Nat, NEW vb \in Vb, VbOK(vb, vNow), NEW n \in Nat, n <= V!Allowed(vb),
         NEW w, w = V!Withdraw(vb, n)
  PROVE  /\ w \in Vb /\ VbOK(w, vNow) /\ Same(vb, w) /\ w.balance = vb.balance - n
         /\ w.balance \in Nat
<1> DEFINE c == V!CoinSeconds(vb)
           s == V!Seconds(vb)
<1>1. PICK u : u = V!Updated(vb)
  OBVIOUS
<1>2. /\ u \in Vb /\ VbOK(u, vNow) /\ Same(vb, u) /\ V!Seconds(u) = s
      /\ u.balance = vb.balance /\ u.vested = vb.vested /\ u.out = vb.out
      /\ vb.policy = "cdd" => u.earned = c /\ u.last = vNow
  BY <1>1, UpdatedIs
<1>3. V!Allowed(vb) \in 0..vb.balance /\ (vb.policy = "cdd" => V!Allowed(vb) * s <= c)
  BY AllowedIs
<1>4. vb.balance \in Nat /\ u.earned \in Nat /\ u.vested \in Nat /\ u.out \in Nat /\ u.held \in Nat
  BY <1>2 DEF Vb
<1>5. c \in Nat /\ s \in Nat \ {0}
  BY CoinSecondsAre DEF VbOK
<1>6. PICK b, e, o : /\ b = vb.balance - n /\ o = u.out + n
                     /\ e = IF vb.policy = "cdd" THEN c - n * s ELSE u.earned
  OBVIOUS
<1>7. w = Filled(u, b, e, u.vested, o)
  <2>1. vb.policy = "cdd" => w = [u EXCEPT !.earned = e, !.balance = b, !.out = o]
    BY <1>1, <1>2, <1>6 DEF V!Withdraw
  <2>2. vb.policy # "cdd" => w = [u EXCEPT !.earned = e, !.balance = b, !.out = o]
    BY <1>1, <1>2, <1>6 DEF V!Withdraw
  <2>3. [u EXCEPT !.earned = e, !.balance = b, !.out = o] = Filled(u, b, e, u.vested, o)
    BY <1>2 DEF Filled, Vb
  <2> QED
    BY <2>1, <2>2, <2>3
<1> HIDE DEF c, s
<1>8. n * s \in Nat /\ u.out * s \in Nat /\ u.vested * s \in Nat /\ (u.out + n) * s = u.out * s + n * s
  BY <1>4, <1>5, MulNat
<1>9. b \in Nat /\ o \in Nat /\ n \in 0..vb.balance
  BY <1>3, <1>4, <1>6
<1>10. e \in Nat
  <2>1. CASE vb.policy = "cdd"
    <3>1. n * s <= V!Allowed(vb) * s
      BY <1>3, <1>4, <1>5, MulMono
    <3>2. V!Allowed(vb) * s \in Nat
      BY <1>3, <1>4, <1>5, MulNat
    <3> QED
      BY <1>3, <1>5, <1>6, <1>8, <2>1, <3>1, <3>2
  <2> QED
    BY <1>4, <1>6, <2>1
<1>11. Fills(u, b, e, u.vested, o, w)
  BY <1>2, <1>4, <1>7, <1>9, <1>10 DEF Fills
<1>12. /\ w \in Vb /\ Same(u, w) /\ w.last = u.last /\ w.held = u.held
       /\ w.balance = b /\ w.earned = e /\ w.vested = u.vested /\ w.out = o
       /\ V!Seconds(w) = V!Seconds(u)
  BY ONLY <1>11, FilledIs
<1>13. Same(vb, w)
  BY <1>2, <1>12 DEF Same
<1>14. CASE vb.policy = "linear"
  <2>1. vb.begin \in Nat /\ vb.total \in Nat /\ V!Allowed(vb) = V!LinearAllowed(vb.begin, vb.total, vb.balance)
    BY <1>14 DEF Vb, V!Allowed
  <2>2. LinearOK(vb.begin, vb.total, vb.balance, vNow)
    BY <1>14 DEF VbOK
  <2>3. LinearOK(vb.begin, vb.total, vb.balance - n, vNow)
    BY <1>4, <2>1, <2>2, LinearAllows
  <2> QED
    BY <1>2, <1>6, <1>9, <1>12, <1>13, <1>14, <2>3 DEF VbOK, Same
<1>15. CASE vb.policy = "cdd"
  <2>1. u.out * s + c <= u.held + u.vested * s
    BY <1>2, <1>15 DEF VbOK, Same
  <2>2. w.out * s + w.earned <= w.held + w.vested * s
    BY <1>4, <1>5, <1>6, <1>8, <1>12, <1>15, <2>1
  <2> QED
    BY <1>2, <1>6, <1>9, <1>12, <1>13, <1>15, <2>2 DEF VbOK, Same
<1>16. CASE vb.policy = "instant"
  BY <1>2, <1>6, <1>9, <1>12, <1>13, <1>16 DEF VbOK, Same
<1>17. vb.policy \in {"linear", "cdd", "instant"}
  BY DEF Vb
<1> QED
  BY <1>14, <1>15, <1>16, <1>17

\* A new vesting balance.
LEMMA NewVbIs ==
  ASSUME V!VestingAssumption, vNow \in Nat, NEW a \in Members, NEW n \in Nat, NEW p \in {"linear", "cdd", "instant"},
         NEW sec \in Nat, NEW b \in Nat, b <= vNow, NEW w, w = V!NewVb(a, n, p, sec, b)
  PROVE  /\ w \in Vb /\ VbOK(w, vNow) /\ w.balance = n /\ w.owner = a /\ w.policy = p /\ w.start = b
         /\ w.seconds = sec /\ w.last = vNow /\ w.held = 0 /\ w.vested = 0 /\ w.out = 0 /\ w.earned = 0
<1>1. /\ w \in Vb /\ w.balance = n /\ w.owner = a /\ w.policy = p /\ w.start = b /\ w.begin = b /\ w.total = n
      /\ w.seconds = sec /\ w.last = vNow /\ w.held = 0 /\ w.vested = 0 /\ w.out = 0 /\ w.earned = 0
  BY DEF V!NewVb, Vb
<1>2. LinearOK(b, n, n, vNow)
  <2>1. Vested(b, n, vNow) \in 0..n
    <3>1. vNow <= vNow
      OBVIOUS
    <3> QED
      BY <3>1, VestedGrows
  <2> QED
    BY <2>1 DEF LinearOK
<1>3. V!Seconds(w) \in Nat
  BY <1>1 DEF V!Seconds, V!MaxOf
<1>4. 0 * V!Seconds(w) = 0
  BY <1>3
<1>5. w.out * V!Seconds(w) + w.earned <= w.held + w.vested * V!Seconds(w)
  BY <1>1, <1>4
<1> QED
  BY <1>1, <1>2, <1>5 DEF VbOK

\* A new cashback balance: what came in vested can be withdrawn at once, unless
\* the period is zero.
LEMMA NewCashbackIs ==
  ASSUME V!VestingAssumption, vNow \in Nat \ {0}, NEW a \in Members, NEW n \in Nat, period \in Nat,
         NEW vesting \in BOOLEAN, NEW w, w = V!NewCashback(a, n, vesting)
  PROVE  /\ w \in Vb /\ VbOK(w, vNow) /\ w.balance = n /\ w.owner = a /\ w.policy = "cdd" /\ w.start = 0
         /\ w.vested = IF vesting THEN 0 ELSE n
         /\ period # 0 => V!Allowed(w) >= w.vested
<1>1. PICK z : z = V!NewVb(a, n, "cdd", period, 0)
  OBVIOUS
<1>2. /\ z \in Vb /\ VbOK(z, vNow) /\ z.balance = n /\ z.owner = a /\ z.policy = "cdd" /\ z.start = 0
      /\ z.seconds = period /\ z.last = vNow /\ z.held = 0 /\ z.vested = 0 /\ z.out = 0 /\ z.earned = 0
  BY <1>1, NewVbIs
<1>3. PICK e, v : e = (IF vesting THEN 0 ELSE n * period) /\ v = (IF vesting THEN 0 ELSE n)
  OBVIOUS
<1>4. n * period \in Nat
  BY MulNat
<1>5. e \in Nat /\ v \in Nat
  BY <1>3, <1>4
<1>6. Fills(z, n, e, v, 0, w)
  <2>1. w = [z EXCEPT !.earned = e, !.vested = v]
    BY <1>1, <1>3 DEF V!NewCashback
  <2>2. [z EXCEPT !.earned = e, !.vested = v] = Filled(z, n, e, v, 0)
    BY <1>2 DEF Filled, Vb
  <2> QED
    BY <1>2, <1>5, <2>1, <2>2 DEF Fills
<1>7. /\ w \in Vb /\ Same(z, w) /\ w.last = z.last /\ w.held = z.held
      /\ w.balance = n /\ w.earned = e /\ w.vested = v /\ w.out = 0
      /\ V!Seconds(w) = V!Seconds(z)
  BY ONLY <1>6, FilledIs
<1> DEFINE s == V!Seconds(w)
<1>8. s \in Nat \ {0} /\ period <= s /\ (period # 0 => s = period) /\ w.seconds = period
  BY <1>2, <1>7 DEF V!Seconds, V!MaxOf, Same
<1> HIDE DEF s
<1>9. n * s \in Nat /\ n * period <= n * s /\ 0 * s = 0
  BY <1>8, MulNat, MulMono
<1>10. VbOK(w, vNow)
  <2>1. w.out * s + w.earned <= w.held + w.vested * s
    BY <1>2, <1>3, <1>4, <1>7, <1>9
  <2> QED
    BY <1>2, <1>7, <2>1 DEF VbOK, Same, s
<1>11. ASSUME period # 0 PROVE V!Allowed(w) >= w.vested
  <2>1. w.earned <= w.balance * s
    BY <1>3, <1>4, <1>7, <1>9
  <2>2. V!CoinSeconds(w) = w.earned
    BY <1>2, <1>7, <2>1, CountedNow DEF s
  <2>3. V!Allowed(w) = w.earned \div s
    BY <1>2, <1>7, <2>2 DEF V!Allowed, Same, s
  <2>4. s * v <= w.earned /\ v \in Nat
    BY <1>3, <1>4, <1>5, <1>7, <1>8, <1>9, <1>11
  <2>5. v <= w.earned \div s
    BY <1>5, <1>7, <1>8, <2>4, DivGe
  <2> QED
    BY <1>5, <1>7, <1>8, <2>3, <2>5, DivFloor
<1> QED
  BY <1>2, <1>3, <1>7, <1>10, <1>11 DEF Same

\* What is known of a vesting balance stays true.
LEMMA LaterOK ==
  ASSUME V!VestingAssumption, NEW t \in Nat,
         NEW b \in Nat, NEW n \in Nat, NEW l \in Nat, LinearOK(b, n, l, t)
  PROVE  LinearOK(b, n, l, t + 1)
<1>1. b <= t /\ l <= n /\ n - l <= Vested(b, n, t)
  BY DEF LinearOK
<1>2. PICK u \in Nat : u = t + 1
  OBVIOUS
<1>3. b <= u /\ t <= u /\ u <= u
  BY <1>1, <1>2
<1>4. Vested(b, n, t) <= Vested(b, n, u) /\ Vested(b, n, t) \in 0..n
  BY <1>1, <1>3, VestedGrows
<1>5. Vested(b, n, u) \in 0..n
  BY <1>3, VestedGrows
<1> QED
  BY <1>1, <1>2, <1>3, <1>4, <1>5 DEF LinearOK

-----------------------------------------------------------------------------
(* Lists of vesting balances.                                              *)

\* r is q with another balance at place z, or with one more.
Changes(q, r, z) ==
  /\ q \in Seq(Vb) /\ r \in Seq(Vb) /\ z \in 1..Len(r)
  /\ (1..Len(q)) \ {z} = (1..Len(r)) \ {z}
  /\ \A x \in (1..Len(q)) \ {z} : q[x] = r[x]

LEMMA ChangesPut ==
  ASSUME NEW q \in Seq(Vb), NEW z \in 1..Len(q), NEW w \in Vb, NEW r, r = [q EXCEPT ![z] = w]
  PROVE  Changes(q, r, z) /\ r[z] = w /\ Len(r) = Len(q)
BY DEF Changes

LEMMA ChangesAdd ==
  ASSUME NEW q \in Seq(Vb), NEW w \in Vb, NEW r, r = Append(q, w)
  PROVE  Changes(q, r, Len(q) + 1) /\ r[Len(q) + 1] = w /\ Len(r) = Len(q) + 1
BY DEF Changes

\* What lies in the balances changes by what changes in the one.
LEMMA LyingChanges ==
  ASSUME NEW q, NEW r, NEW z, Changes(q, r, z)
  PROVE  /\ Lying(q) \in Nat
         /\ Lying(r) = Lying(q) + r[z].balance - (IF z \in 1..Len(q) THEN q[z].balance ELSE 0)
<1> DEFINE f == [i \in DOMAIN q |-> q[i].balance]
           g == [i \in DOMAIN r |-> r[i].balance]
           S == 1..Len(q)
           Z == 1..Len(r)
<1>1. DOMAIN q = S /\ DOMAIN r = Z /\ Len(q) \in Nat /\ Len(r) \in Nat
  BY DEF Changes
<1>2. IsFiniteSet(S) /\ IsFiniteSet(Z)
  BY <1>1, FS_Interval
<1>3. (\A x \in S : q[x] \in Vb) /\ (\A x \in Z : r[x] \in Vb)
  BY DEF Changes
<1>4. (\A x \in S : f[x] \in Nat) /\ (\A x \in Z : g[x] \in Nat)
  BY <1>1, <1>3 DEF Vb
<1>5. S \ {z} = Z \ {z} /\ z \in Z /\ \A x \in S \ {z} : f[x] = g[x]
  BY <1>1 DEF Changes
<1>6. g[z] = r[z].balance /\ (z \in S => f[z] = q[z].balance)
  BY <1>1, <1>5
<1>7. Lying(q) = SumOver(f, S) /\ Lying(r) = SumOver(g, Z)
  BY <1>1 DEF Lying
<1> HIDE DEF f, g, S, Z
<1>8. SumOver(g, Z) = SumOver(f, S) + (IF z \in Z THEN g[z] ELSE 0) - (IF z \in S THEN f[z] ELSE 0)
  BY <1>2, <1>4, <1>5, SumDiffer
<1>9. SumOver(f, S) \in Nat
  BY <1>2, <1>4, SumNat
<1> QED
  BY <1>5, <1>6, <1>7, <1>8, <1>9 DEF S

\* What an account can withdraw beyond what came in vested.
Spare(a, list) == V!Available(a, list) - V!CameVested(a, list)

\* The sums in Vesting are those of the lemmas.
LEMMA VestingSums ==
  ASSUME NEW f, NEW S
  PROVE  V!SumOver(f, S) = SumOver(f, S)
BY DEF V!SumOver, SumOver, V!FoldFunctionOnSet, FoldFunctionOnSet, V!MapThenFoldSet, MapThenFoldSet

\* What an account has to spare grows if it does in the one balance that changes.
LEMMA SpareGrows ==
  ASSUME V!VestingAssumption, vNow \in Nat, NEW q, NEW r, NEW z, Changes(q, r, z), NEW a,
         \A i \in 1..Len(q) : VbOK(q[i], vNow), \A i \in 1..Len(r) : VbOK(r[i], vNow),
         IF z \in 1..Len(q)
         THEN r[z].owner = q[z].owner /\ V!Allowed(r[z]) - r[z].vested >= V!Allowed(q[z]) - q[z].vested
         ELSE V!Allowed(r[z]) >= r[z].vested
  PROVE  Spare(a, q) \in Int /\ Spare(a, r) \in Int /\ Spare(a, r) >= Spare(a, q)
<1> DEFINE f == [i \in DOMAIN q |-> IF q[i].owner = a THEN V!Allowed(q[i]) ELSE 0]
           g == [i \in DOMAIN r |-> IF r[i].owner = a THEN V!Allowed(r[i]) ELSE 0]
           h == [i \in DOMAIN q |-> IF q[i].owner = a THEN q[i].vested ELSE 0]
           k == [i \in DOMAIN r |-> IF r[i].owner = a THEN r[i].vested ELSE 0]
           S == 1..Len(q)
           Z == 1..Len(r)
<1>1. DOMAIN q = S /\ DOMAIN r = Z /\ Len(q) \in Nat /\ Len(r) \in Nat
  BY DEF Changes
<1>2. IsFiniteSet(S) /\ IsFiniteSet(Z)
  BY <1>1, FS_Interval
<1>3. (\A x \in S : q[x] \in Vb /\ VbOK(q[x], vNow)) /\ (\A x \in Z : r[x] \in Vb /\ VbOK(r[x], vNow))
  BY DEF Changes
<1>4. ASSUME NEW vb \in Vb, VbOK(vb, vNow) PROVE V!Allowed(vb) \in Int /\ vb.vested \in Int
  <2>1. V!Allowed(vb) \in 0..vb.balance
    BY <1>4, AllowedIs
  <2> QED
    BY <2>1 DEF Vb
<1>5. /\ \A x \in S : V!Allowed(q[x]) \in Int /\ q[x].vested \in Int
      /\ \A x \in Z : V!Allowed(r[x]) \in Int /\ r[x].vested \in Int
  BY <1>3, <1>4
<1>6. /\ \A x \in S : f[x] \in Int /\ h[x] \in Int
      /\ \A x \in Z : g[x] \in Int /\ k[x] \in Int
  BY <1>1, <1>5
<1>7. S \ {z} = Z \ {z} /\ z \in Z /\ (\A x \in S \ {z} : f[x] = g[x]) /\ (\A x \in S \ {z} : h[x] = k[x])
  BY <1>1 DEF Changes
<1>8. IF z \in S THEN g[z] - k[z] >= f[z] - h[z] ELSE g[z] - k[z] >= 0
  BY <1>1, <1>5, <1>7
<1>9. /\ V!Available(a, q) = SumOver(f, S) /\ V!Available(a, r) = SumOver(g, Z)
      /\ V!CameVested(a, q) = SumOver(h, S) /\ V!CameVested(a, r) = SumOver(k, Z)
  BY <1>1, VestingSums DEF V!Available, V!CameVested
<1> HIDE DEF f, g, h, k, S, Z
<1>10. /\ SumOver(f, S) \in Int
       /\ SumOver(g, Z) = SumOver(f, S) + (IF z \in Z THEN g[z] ELSE 0) - (IF z \in S THEN f[z] ELSE 0)
  <2>1. (\A x \in S : f[x] \in Int) /\ (\A x \in Z : g[x] \in Int)
    BY <1>6
  <2>2. S \ {z} = Z \ {z} /\ \A x \in S \ {z} : f[x] = g[x]
    BY <1>7
  <2> QED
    BY ONLY <1>2, <2>1, <2>2, SumDiffer
<1>11. /\ SumOver(h, S) \in Int
       /\ SumOver(k, Z) = SumOver(h, S) + (IF z \in Z THEN k[z] ELSE 0) - (IF z \in S THEN h[z] ELSE 0)
  <2>1. (\A x \in S : h[x] \in Int) /\ (\A x \in Z : k[x] \in Int)
    BY <1>6
  <2>2. S \ {z} = Z \ {z} /\ \A x \in S \ {z} : h[x] = k[x]
    BY <1>7
  <2> QED
    BY ONLY <1>2, <2>1, <2>2, SumDiffer
<1>12. g[z] \in Int /\ k[z] \in Int /\ (z \in S => f[z] \in Int /\ h[z] \in Int)
  BY <1>6, <1>7
<1>13. CASE z \in S
  BY <1>7, <1>8, <1>9, <1>10, <1>11, <1>12, <1>13 DEF Spare
<1>14. CASE z \notin S
  BY <1>7, <1>8, <1>9, <1>10, <1>11, <1>12, <1>14 DEF Spare
<1> QED
  BY <1>13, <1>14

\* A list with one sound balance changed, or one more, is sound.
LEMMA ListKept ==
  ASSUME NEW q, NEW back, NEW t, ListOK(q, back, t), NEW r, NEW z, Changes(q, r, z), VbOK(r[z], t),
         NEW to \in [Members -> Nat],
         \A a \in Members : \/ to[a] = 0
                            \/ to[a] = back[a] /\ back[a] # z
                            \/ to[a] = z /\ r[z].policy = "cdd" /\ r[z].start = 0 /\ r[z].owner = a
  PROVE  ListOK(r, to, t)
<1>1. r \in Seq(Vb) /\ \A i \in 1..Len(r) : VbOK(r[i], t)
  <2>1. ASSUME NEW i \in 1..Len(r) PROVE VbOK(r[i], t)
    <3>1. CASE i = z
      BY <3>1
    <3>2. CASE i # z
      BY <3>2 DEF Changes, ListOK
    <3> QED
      BY <3>1, <3>2
  <2> QED
    BY <2>1 DEF Changes
<1>2. ASSUME NEW a \in Members, to[a] # 0
      PROVE  to[a] \in 1..Len(r) /\ r[to[a]].policy = "cdd" /\ r[to[a]].start = 0 /\ r[to[a]].owner = a
  <2>1. CASE to[a] = z /\ r[z].policy = "cdd" /\ r[z].start = 0 /\ r[z].owner = a
    BY <2>1 DEF Changes
  <2>2. CASE to[a] = back[a] /\ back[a] # z
    <3>1. /\ back[a] \in 1..Len(q) /\ q[back[a]].policy = "cdd" /\ q[back[a]].start = 0
          /\ q[back[a]].owner = a
      BY <1>2, <2>2 DEF ListOK
    <3>2. back[a] \in 1..Len(r) /\ r[back[a]] = q[back[a]]
      BY <2>2, <3>1 DEF Changes
    <3> QED
      BY <2>2, <3>1, <3>2
  <2> QED
    BY <1>2, <2>1, <2>2
<1> QED
  BY <1>1, <1>2 DEF ListOK

-----------------------------------------------------------------------------
(* Fees and cashback.                                                      *)

\* What PayOut works on.
Books ==
  [vbs : Seq(Vb), cashback : [Members -> Nat], referrer : Members, accumulated : Nat, burned : Nat]
BooksOK(d) == d \in Books /\ ListOK(d.vbs, d.cashback, vNow)
Paid(d) == Lying(d.vbs) + d.accumulated + d.burned

\* n more are in the books e than in d, and what came in vested can be withdrawn.
Carries(d, e, n) ==
  /\ BooksOK(e) /\ Paid(d) \in Nat /\ Paid(e) = Paid(d) + n
  /\ period # 0 => \A a : Spare(a, d.vbs) \in Int /\ Spare(a, e.vbs) \in Int /\ Spare(a, e.vbs) >= Spare(a, d.vbs)

\* The sums over a sound list are numbers.
LEMMA ListNumbers ==
  ASSUME V!VestingAssumption, vNow \in Nat, NEW q, NEW back, ListOK(q, back, vNow)
  PROVE  /\ Lying(q) \in Nat
         /\ \A a : V!Available(a, q) \in Int /\ V!CameVested(a, q) \in Int /\ Spare(a, q) \in Int
<1> DEFINE b == [i \in DOMAIN q |-> q[i].balance]
           S == 1..Len(q)
<1>1. DOMAIN q = S /\ IsFiniteSet(S) /\ \A x \in S : q[x] \in Vb /\ VbOK(q[x], vNow)
  BY FS_Interval DEF ListOK
<1>2. Lying(q) \in Nat
  <2>1. \A x \in S : b[x] \in Nat
    BY <1>1 DEF Vb
  <2>2. Lying(q) = SumOver(b, S)
    BY <1>1 DEF Lying
  <2> HIDE DEF b, S
  <2> QED
    BY <1>1, <2>1, <2>2, SumNat
<1>3. ASSUME NEW a PROVE V!Available(a, q) \in Int /\ V!CameVested(a, q) \in Int /\ Spare(a, q) \in Int
  <2> DEFINE f == [i \in DOMAIN q |-> IF q[i].owner = a THEN V!Allowed(q[i]) ELSE 0]
             h == [i \in DOMAIN q |-> IF q[i].owner = a THEN q[i].vested ELSE 0]
  <2>1. ASSUME NEW x \in S PROVE V!Allowed(q[x]) \in Int /\ q[x].vested \in Int
    <3>1. V!Allowed(q[x]) \in 0..q[x].balance
      BY <1>1, AllowedIs
    <3> QED
      BY <1>1, <3>1 DEF Vb
  <2>2. (\A x \in S : f[x] \in Int) /\ (\A x \in S : h[x] \in Int)
    BY <1>1, <2>1
  <2>3. V!Available(a, q) = SumOver(f, S) /\ V!CameVested(a, q) = SumOver(h, S)
    BY <1>1, VestingSums DEF V!Available, V!CameVested
  <2> HIDE DEF f, h, S
  <2>4. SumOver(f, S) \in Int /\ SumOver(h, S) \in Int
    BY <1>1, <2>2, SumType
  <2> QED
    BY <2>3, <2>4 DEF Spare
<1> QED
  BY <1>2, <1>3

\* Books with another list of balances.
Listed(d, q, c) == [d EXCEPT !.vbs = q, !.cashback = c]
Relists(d, q, c, z, n) ==
  /\ n \in Nat /\ Changes(d.vbs, q, z) /\ ListOK(q, c, vNow) /\ c \in [Members -> Nat]
  /\ q[z].balance = n + (IF z \in 1..Len(d.vbs) THEN d.vbs[z].balance ELSE 0)
  /\ period # 0 => IF z \in 1..Len(d.vbs)
       THEN q[z].owner = d.vbs[z].owner /\ V!Allowed(q[z]) - q[z].vested >= V!Allowed(d.vbs[z]) - d.vbs[z].vested
       ELSE V!Allowed(q[z]) >= q[z].vested
LEMMA ListedCarries ==
  ASSUME V!VestingAssumption, vNow \in Nat \ {0}, NEW d, BooksOK(d), NEW q, NEW c, NEW z, NEW n,
         Relists(d, q, c, z, n)
  PROVE  Carries(d, Listed(d, q, c), n)
<1>0. /\ n \in Nat /\ Changes(d.vbs, q, z) /\ ListOK(q, c, vNow) /\ c \in [Members -> Nat]
      /\ q[z].balance = n + (IF z \in 1..Len(d.vbs) THEN d.vbs[z].balance ELSE 0)
  BY DEF Relists
<1>1. PICK e : e = Listed(d, q, c)
  OBVIOUS
<1>2. d \in Books /\ ListOK(d.vbs, d.cashback, vNow) /\ q \in Seq(Vb)
  BY <1>0 DEF BooksOK, Changes
<1>3. /\ e \in Books /\ e.vbs = q /\ e.cashback = c /\ e.accumulated = d.accumulated /\ e.burned = d.burned
      /\ d.accumulated \in Nat /\ d.burned \in Nat
  BY <1>0, <1>1, <1>2 DEF Books, Listed
<1>4. Lying(d.vbs) \in Nat
      /\ Lying(q) = Lying(d.vbs) + q[z].balance - (IF z \in 1..Len(d.vbs) THEN d.vbs[z].balance ELSE 0)
  BY <1>0, LyingChanges
<1>5. z \in 1..Len(d.vbs) => d.vbs[z].balance \in Nat
  <2>1. z \in 1..Len(d.vbs) => d.vbs[z] \in Vb
    BY <1>2 DEF ListOK
  <2> QED
    BY <2>1 DEF Vb
<1>6. Paid(d) \in Nat /\ Paid(e) = Paid(d) + n
  <2>1. PICK old, l, m, x : /\ old = (IF z \in 1..Len(d.vbs) THEN d.vbs[z].balance ELSE 0) /\ l = Lying(d.vbs)
                            /\ m = Lying(q) /\ x = q[z].balance
    OBVIOUS
  <2>2. old \in Nat
    BY <1>5, <2>1
  <2>3. l \in Nat /\ m = l + x - old /\ x = n + old /\ n \in Nat
    BY <1>0, <1>4, <2>1
  <2>4. m = l + n
    BY ONLY <2>2, <2>3
  <2>5. Paid(d) = l + d.accumulated + d.burned /\ Paid(e) = m + d.accumulated + d.burned
    BY <1>3, <2>1 DEF Paid
  <2> QED
    BY <1>3, <2>3, <2>4, <2>5
<1>7. ASSUME period # 0, NEW a
      PROVE  Spare(a, d.vbs) \in Int /\ Spare(a, q) \in Int /\ Spare(a, q) >= Spare(a, d.vbs)
  <2>1. (\A i \in 1..Len(d.vbs) : VbOK(d.vbs[i], vNow)) /\ (\A i \in 1..Len(q) : VbOK(q[i], vNow)) /\ vNow \in Nat
    BY <1>0, <1>2 DEF ListOK
  <2>2. PICK p : p = d.vbs
    OBVIOUS
  <2>3. IF z \in 1..Len(p)
        THEN q[z].owner = p[z].owner /\ V!Allowed(q[z]) - q[z].vested >= V!Allowed(p[z]) - p[z].vested
        ELSE V!Allowed(q[z]) >= q[z].vested
    BY <1>7, <2>2 DEF Relists
  <2>4. Changes(p, q, z) /\ (\A i \in 1..Len(p) : VbOK(p[i], vNow)) /\ (\A i \in 1..Len(q) : VbOK(q[i], vNow))
    BY <1>0, <2>1, <2>2
  <2>5. Spare(a, p) \in Int /\ Spare(a, q) \in Int /\ Spare(a, q) >= Spare(a, p)
    BY <2>1, <2>3, <2>4, SpareGrows
  <2> QED
    BY <2>2, <2>5
<1>8. BooksOK(e)
  BY <1>0, <1>3 DEF BooksOK
<1> QED
  BY <1>1, <1>3, <1>6, <1>7, <1>8 DEF Carries

\* deposit_lazy_vesting
LEMMA LazyCarries ==
  ASSUME V!VestingAssumption, vNow \in Nat \ {0}, period \in Nat, NEW d, BooksOK(d), NEW a \in Members, NEW n \in Nat,
         NEW vesting \in BOOLEAN
  PROVE  Carries(d, V!Lazy(d, a, n, vesting), n)
<1> DEFINE i == d.cashback[a]
           list == d.vbs
<1>1. /\ d \in Books /\ ListOK(list, d.cashback, vNow) /\ list \in Seq(Vb) /\ d.cashback \in [Members -> Nat]
      /\ \A j \in 1..Len(list) : list[j] \in Vb /\ VbOK(list[j], vNow)
  BY DEF BooksOK, ListOK
<1>2. CASE i # 0 /\ list[i].seconds = period
  <2>1. i \in 1..Len(list) /\ list[i].policy = "cdd" /\ list[i].start = 0 /\ list[i].owner = a
    BY <1>2 DEF BooksOK, ListOK
  <2>2. PICK w : w = IF vesting THEN V!Deposit(list[i], n) ELSE V!DepositVested(list[i], n)
    OBVIOUS
  <2>3. Grows(list[i], V!Deposit(list[i], n), n, 0) /\ Grows(list[i], V!DepositVested(list[i], n), n, n)
    BY <1>1, <2>1, DepositGrows
  <2>4. \E k \in Nat : Grows(list[i], w, n, k)
    BY <2>2, <2>3
  <2>5. PICK k \in Nat : Grows(list[i], w, n, k)
    BY <2>4
  <2>6. PICK q : q = [list EXCEPT ![i] = w]
    OBVIOUS
  <2>7. /\ w \in Vb /\ VbOK(w, vNow) /\ Same(list[i], w) /\ w.balance = list[i].balance + n
        /\ w.vested = list[i].vested + k /\ V!Allowed(w) >= V!Allowed(list[i]) + k
    BY <2>5 DEF Grows
  <2>8. Changes(list, q, i) /\ q[i] = w
    BY <1>1, <2>1, <2>6, <2>7, ChangesPut
  <2>9. V!Lazy(d, a, n, vesting) = Listed(d, q, d.cashback)
    <3>1. V!Lazy(d, a, n, vesting) = [d EXCEPT !.vbs = q]
      <4>1. CASE vesting
        <5>1. w = V!Deposit(d.vbs[i], n)
          BY <2>2, <4>1
        <5> QED
          BY <1>2, <2>6, <4>1, <5>1 DEF V!Lazy
      <4>2. CASE ~vesting
        <5>1. w = V!DepositVested(d.vbs[i], n)
          BY <2>2, <4>2
        <5> QED
          BY <1>2, <2>6, <4>2, <5>1 DEF V!Lazy
      <4> QED
        BY <4>1, <4>2
    <3> QED
      BY <1>1, <3>1 DEF Listed, Books
  <2>10. ListOK(q, d.cashback, vNow)
    <3>1. \A x \in Members : \/ d.cashback[x] = 0
                             \/ d.cashback[x] = d.cashback[x] /\ d.cashback[x] # i
                             \/ d.cashback[x] = i /\ q[i].policy = "cdd" /\ q[i].start = 0 /\ q[i].owner = x
      BY <1>1, <2>1, <2>7, <2>8 DEF ListOK, Same
    <3>2. PICK back : back = d.cashback
      OBVIOUS
    <3>3. ListOK(list, back, vNow) /\ back \in [Members -> Nat] /\ VbOK(q[i], vNow)
      BY <1>1, <2>7, <2>8, <3>2
    <3>4. \A x \in Members : \/ back[x] = 0
                             \/ back[x] = back[x] /\ back[x] # i
                             \/ back[x] = i /\ q[i].policy = "cdd" /\ q[i].start = 0 /\ q[i].owner = x
      BY <3>1, <3>2
    <3>5. PICK z : z = i
      OBVIOUS
    <3> QED
      BY <2>8, <3>2, <3>3, <3>4, ListKept
  <2>11. q[i].balance = n + (IF i \in 1..Len(list) THEN list[i].balance ELSE 0)
    <3>1. list[i].balance \in Nat
      <4>1. list[i] \in Vb
        BY <1>1, <2>1
      <4> QED
        BY <4>1 DEF Vb
    <3> QED
      BY <2>1, <2>7, <2>8, <3>1
  <2>12. q[i].owner = list[i].owner /\ V!Allowed(q[i]) - q[i].vested >= V!Allowed(list[i]) - list[i].vested
    <3>1. V!Allowed(list[i]) \in 0..list[i].balance /\ V!Allowed(w) \in 0..w.balance
      BY <1>1, <2>1, <2>7, AllowedIs
    <3>2. list[i] \in Vb
      BY <1>1, <2>1
    <3>3. list[i].vested \in Nat /\ w.vested \in Nat /\ list[i].balance \in Nat /\ w.balance \in Nat
      BY <2>7, <3>2 DEF Vb
    <3>4. w.owner = list[i].owner
      BY <2>7 DEF Same
    <3> QED
      BY <2>7, <2>8, <3>1, <3>3, <3>4
  <2>13. Relists(d, q, d.cashback, i, n)
    BY <1>1, <2>1, <2>8, <2>10, <2>11, <2>12 DEF Relists
  <2>14. Carries(d, Listed(d, q, d.cashback), n)
    BY <2>13, ListedCarries
  <2> QED
    BY <2>9, <2>14
<1>3. CASE ~(i # 0 /\ list[i].seconds = period)
  <2>1. PICK w : w = V!NewCashback(a, n, vesting)
    OBVIOUS
  <2>2. /\ w \in Vb /\ VbOK(w, vNow) /\ w.balance = n /\ w.owner = a /\ w.policy = "cdd" /\ w.start = 0
        /\ period # 0 => V!Allowed(w) >= w.vested
    BY <2>1, NewCashbackIs
  <2>3. PICK z, q, c : z = Len(list) + 1 /\ q = Append(list, w) /\ c = [d.cashback EXCEPT ![a] = Len(list) + 1]
    OBVIOUS
  <2>4. Changes(list, q, z) /\ q[z] = w /\ z \in Nat \ {0} /\ z \notin 1..Len(list)
    <3>1. Changes(list, q, Len(list) + 1) /\ q[Len(list) + 1] = w
      BY <1>1, <2>2, <2>3, ChangesAdd, ZenonT(60)
    <3>2. Len(list) \in Nat
      BY <1>1
    <3> QED
      BY <2>3, <3>1, <3>2
  <2>5. V!Lazy(d, a, n, vesting) = Listed(d, q, c)
    BY <1>3, <2>1, <2>3 DEF V!Lazy, V!Opened, Listed
  <2>6. c \in [Members -> Nat] /\ c[a] = z /\ \A x \in Members \ {a} : c[x] = d.cashback[x]
    BY <1>1, <2>3, <2>4
  <2>7. ListOK(q, c, vNow)
    <3>1. PICK back : back = d.cashback
      OBVIOUS
    <3>2. ListOK(list, back, vNow) /\ VbOK(q[z], vNow)
      BY <1>1, <2>2, <2>4, <3>1
    <3>3. \A x \in Members : back[x] # z
      BY <1>1, <2>4, <3>1 DEF ListOK
    <3>4. \A x \in Members : \/ c[x] = 0
                             \/ c[x] = back[x] /\ back[x] # z
                             \/ c[x] = z /\ q[z].policy = "cdd" /\ q[z].start = 0 /\ q[z].owner = x
      BY <2>2, <2>4, <2>6, <3>1, <3>3
    <3> QED
      BY <2>4, <2>6, <3>2, <3>4, ListKept
  <2>8. q[z].balance = n + (IF z \in 1..Len(list) THEN list[z].balance ELSE 0)
    BY <2>2, <2>4
  <2>9. period # 0 => V!Allowed(q[z]) >= q[z].vested
    BY <2>2, <2>4
  <2>10. Relists(d, q, c, z, n)
    BY <2>4, <2>6, <2>7, <2>8, <2>9 DEF Relists
  <2>11. Carries(d, Listed(d, q, c), n)
    BY <2>10, ListedCarries
  <2> QED
    BY <2>5, <2>11
<1> QED
  BY <1>2, <1>3

\* Books whose balances are the same.
LEMMA KeptCarries ==
  ASSUME V!VestingAssumption, vNow \in Nat \ {0}, NEW d, BooksOK(d), NEW e \in Books, NEW n \in Nat,
         e.vbs = d.vbs, e.cashback = d.cashback,
         e.accumulated + e.burned = d.accumulated + d.burned + n
  PROVE  Carries(d, e, n)
<1>1. d \in Books /\ ListOK(d.vbs, d.cashback, vNow)
  BY DEF BooksOK
<1>2. Lying(d.vbs) \in Nat /\ \A a : Spare(a, d.vbs) \in Int
  BY <1>1, ListNumbers
<1>3. d.accumulated \in Nat /\ d.burned \in Nat /\ e.accumulated \in Nat /\ e.burned \in Nat
  BY <1>1 DEF Books
<1>4. Paid(d) \in Nat /\ Paid(e) = Paid(d) + n
  BY <1>2, <1>3 DEF Paid
<1>5. BooksOK(e)
  BY <1>1 DEF BooksOK
<1>6. \A a : Spare(a, d.vbs) \in Int /\ Spare(a, e.vbs) \in Int /\ Spare(a, e.vbs) >= Spare(a, d.vbs)
  BY <1>2
<1> QED
  BY <1>4, <1>5, <1>6 DEF Carries

LEMMA CarriesOn ==
  ASSUME NEW d, NEW e, NEW f, NEW m \in Nat, NEW n \in Nat, Carries(d, e, m), Carries(e, f, n)
  PROVE  Carries(d, f, m + n)
<1>1. Paid(d) \in Nat /\ Paid(e) = Paid(d) + m /\ Paid(f) = Paid(e) + n /\ BooksOK(f)
  BY DEF Carries
<1>2. ASSUME period # 0, NEW a
      PROVE  Spare(a, d.vbs) \in Int /\ Spare(a, f.vbs) \in Int /\ Spare(a, f.vbs) >= Spare(a, d.vbs)
  <2>1. Spare(a, d.vbs) \in Int /\ Spare(a, e.vbs) \in Int /\ Spare(a, e.vbs) >= Spare(a, d.vbs)
    BY <1>2 DEF Carries
  <2>2. Spare(a, f.vbs) \in Int /\ Spare(a, f.vbs) >= Spare(a, e.vbs)
    BY <1>2 DEF Carries
  <2> QED
    BY <2>1, <2>2
<1> QED
  BY <1>1, <1>2 DEF Carries

\* deposit_cashback
LEMMA CashbackCarries ==
  ASSUME V!VestingAssumption, vNow \in Nat \ {0}, period \in Nat, NEW d, BooksOK(d), NEW a \in Members, NEW n \in Nat,
         NEW vesting \in BOOLEAN
  PROVE  Carries(d, V!DepositCashback(d, a, n, vesting), n)
<1>1. d \in Books
  BY DEF BooksOK
<1>2. CASE n = 0
  <2>1. V!DepositCashback(d, a, n, vesting) = d
    BY <1>2 DEF V!DepositCashback
  <2>2. d.accumulated + d.burned = d.accumulated + d.burned + n
    BY <1>1, <1>2 DEF Books
  <2> QED
    BY <1>1, <2>1, <2>2, KeptCarries
<1>3. CASE n > 0 /\ a \in Reserved
  <2>1. PICK e : e = [d EXCEPT !.burned = d.burned + n]
    OBVIOUS
  <2>2. V!DepositCashback(d, a, n, vesting) = e
    BY <1>3, <2>1 DEF V!DepositCashback
  <2>3. /\ e \in Books /\ e.vbs = d.vbs /\ e.cashback = d.cashback
        /\ e.accumulated + e.burned = d.accumulated + d.burned + n
    BY <1>1, <2>1 DEF Books
  <2> QED
    BY <2>2, <2>3, KeptCarries
<1>4. CASE n > 0 /\ a \notin Reserved
  <2>1. V!DepositCashback(d, a, n, vesting) = V!Lazy(d, a, n, vesting)
    BY <1>4 DEF V!DepositCashback
  <2> QED
    BY <2>1, LazyCarries
<1> QED
  BY <1>2, <1>3, <1>4

\* The cuts of a fee do not exceed it.
LEMMA CutsFit ==
  ASSUME NEW t \in Nat, NEW p \in Nat, NEW q \in Nat, p + q <= 100
  PROVE  /\ V!cut_fee(t, p) \in Nat /\ V!cut_fee(t, q) \in Nat
         /\ V!cut_fee(t, p) + V!cut_fee(t, q) <= t
<1>1. t * p \in Nat /\ t * q \in Nat /\ t * (p + q) <= t * 100 /\ t * (p + q) = t * p + t * q
  BY MulNat, MulMono
<1>2. PICK x, y : x = (t * p) \div 100 /\ y = (t * q) \div 100
  OBVIOUS
<1>3. x \in Nat /\ 100 * x <= t * p
  BY <1>1, <1>2, DivFloor
<1>4. y \in Nat /\ 100 * y <= t * q
  BY <1>1, <1>2, DivFloor
<1>5. x + y <= t
  BY <1>1, <1>3, <1>4
<1> QED
  BY <1>2, <1>3, <1>4, <1>5 DEF V!cut_fee

\* pay_out_fees: nothing of a fee is lost or paid twice.
LEMMA PayOutCarries ==
  ASSUME V!VestingAssumption, vNow \in Nat \ {0}, period \in Nat, NEW d, BooksOK(d), NEW t \in Nat,
         NEW vesting \in BOOLEAN
  PROVE  Carries(d, V!PayOut(d, t, vesting), t)
<1>1. /\ NetworkCut \in Nat /\ LifetimeCut \in Nat /\ ReferrerCut \in Nat /\ NetworkCut + LifetimeCut <= 100
      /\ ReferrerCut <= 100 /\ LifetimeReferrer \in Members /\ Registrar \in Members
  BY VestingConstants
<1>2. d \in Books /\ d.referrer \in Members /\ d.accumulated \in Nat /\ d.burned \in Nat
  BY DEF BooksOK, Books
<1>3. PICK ref : ref = IF vNow > MemberUntil THEN LifetimeReferrer ELSE d.referrer
  OBVIOUS
<1>4. PICK network, lifetime : network = V!cut_fee(t, NetworkCut) /\ lifetime = V!cut_fee(t, LifetimeCut)
  OBVIOUS
<1>5. PICK referral : referral = t - network - lifetime
  OBVIOUS
<1>6. PICK forRef : forRef = V!cut_fee(referral, ReferrerCut)
  OBVIOUS
<1>7. network \in Nat /\ lifetime \in Nat /\ referral \in Nat
  <2>1. network \in Nat /\ lifetime \in Nat /\ network + lifetime <= t
    BY <1>1, <1>4, CutsFit
  <2> QED
    BY <1>5, <2>1
<1>8. forRef \in Nat /\ referral - forRef \in Nat
  <2>1. ReferrerCut + 0 <= 100
    BY <1>1
  <2>2. forRef \in Nat /\ V!cut_fee(referral, 0) \in Nat /\ forRef + V!cut_fee(referral, 0) <= referral
    BY <1>1, <1>6, <1>7, <2>1, CutsFit
  <2> QED
    BY <1>7, <2>2
<1>9. PICK d0 : d0 = [d EXCEPT !.referrer = ref, !.accumulated = d.accumulated + network]
  OBVIOUS
<1>10. PICK d1 : d1 = V!DepositCashback(d0, LifetimeReferrer, lifetime, vesting)
  OBVIOUS
<1>11. PICK d2 : d2 = V!DepositCashback(d1, ref, forRef, vesting)
  OBVIOUS
<1>12. PICK last : last = referral - forRef
  OBVIOUS
<1>13. PICK d3 : d3 = V!DepositCashback(d2, Registrar, last, vesting)
  OBVIOUS
<1>14. V!PayOut(d, t, vesting) = d3
  BY <1>3, <1>4, <1>5, <1>6, <1>9, <1>10, <1>11, <1>12, <1>13 DEF V!PayOut
<1>15. ref \in Members /\ last \in Nat
  BY <1>1, <1>2, <1>3, <1>8, <1>12
<1>16. Carries(d, d0, network)
  <2>1. /\ d0 \in Books /\ d0.vbs = d.vbs /\ d0.cashback = d.cashback
        /\ d0.accumulated = d.accumulated + network /\ d0.burned = d.burned
    <3>1. PICK acc : acc = d.accumulated + network
      OBVIOUS
    <3>2. acc \in Nat /\ d0 = [d EXCEPT !.referrer = ref, !.accumulated = acc] /\ d \in Books /\ ref \in Members
      BY <1>2, <1>7, <1>9, <1>15, <3>1
    <3>3. /\ d0 \in Books /\ d0.vbs = d.vbs /\ d0.cashback = d.cashback
          /\ d0.accumulated = acc /\ d0.burned = d.burned
      BY ONLY <3>2 DEF Books
    <3> QED
      BY <3>1, <3>3
  <2>2. d0.accumulated + d0.burned = d.accumulated + d.burned + network
    BY <1>2, <1>7, <2>1
  <2> QED
    BY <1>7, <2>1, <2>2, KeptCarries
<1>17. Carries(d0, d1, lifetime)
  <2>1. BooksOK(d0)
    BY <1>16 DEF Carries
  <2> QED
    BY <1>1, <1>7, <1>10, <2>1, CashbackCarries
<1>18. Carries(d1, d2, forRef)
  <2>1. BooksOK(d1)
    BY <1>17 DEF Carries
  <2> QED
    BY <1>8, <1>11, <1>15, <2>1, CashbackCarries
<1>19. Carries(d2, d3, last)
  <2>1. BooksOK(d2)
    BY <1>18 DEF Carries
  <2> QED
    BY <1>1, <1>13, <1>15, <2>1, CashbackCarries
<1>20. PICK x, y, z : x = network + lifetime /\ y = x + forRef /\ z = y + last
  OBVIOUS
<1>21. x \in Nat /\ y \in Nat /\ z = t
  BY <1>5, <1>7, <1>8, <1>12, <1>15, <1>20
<1>22. Carries(d, d1, x)
  BY <1>7, <1>16, <1>17, <1>20, CarriesOn
<1>23. Carries(d, d2, y)
  BY <1>8, <1>18, <1>20, <1>21, <1>22, CarriesOn
<1>24. Carries(d, d3, z)
  BY <1>15, <1>19, <1>20, <1>21, <1>23, CarriesOn
<1> QED
  BY <1>14, <1>21, <1>24

-----------------------------------------------------------------------------
(* Vesting balances: every step keeps the invariant.                       *)

\* c is b with a's balance changed by k.
Credits(b, c, a, k) ==
  b \in [Members -> Nat] /\ a \in Members /\ k \in Int /\ b[a] + k \in Nat /\ c = [b EXCEPT ![a] = b[a] + k]
LEMMA MemberPaid ==
  ASSUME V!VestingAssumption, NEW b, NEW c, NEW a, NEW k, Credits(b, c, a, k)
  PROVE  /\ c \in [Members -> Nat] /\ SumOver(b, Members) \in Nat
         /\ SumOver(c, Members) = SumOver(b, Members) + k
<1> USE DEF Credits
<1>1. IsFiniteSet(Members)
  BY VestingConstants
<1>2. c \in [Members -> Nat] /\ c[a] = b[a] + k /\ \A x \in Members \ {a} : b[x] = c[x]
  OBVIOUS
<1>3. \A x \in Members : b[x] \in Int /\ c[x] \in Int
  BY <1>2
<1>4. SumOver(c, Members) = SumOver(b, Members) + c[a] - b[a]
  <2>1. \A x \in Members \ {a} : b[x] = c[x]
    BY <1>2
  <2>2. a \in Members
    OBVIOUS
  <2> QED
    BY ONLY <1>1, <1>3, <2>1, <2>2, SumChange
<1>5. SumOver(b, Members) \in Nat
  BY <1>1, SumNat
<1> QED
  BY <1>2, <1>4, <1>5

\* The numbers that add up.
LEMMA VestingNumbers ==
  ASSUME V!VestingAssumption, VInv
  PROVE  /\ SumOver(vBalance, Members) \in Nat /\ Lying(vbs) \in Nat /\ vNow \in Nat \ {0} /\ period \in Nat
         /\ vPending.fees \in Nat /\ vPending.vested \in Nat /\ accumulated \in Nat /\ burned \in Nat
         /\ genesis.left \in Nat /\ genesis.last \in Nat
         /\ vbs \in Seq(Vb) /\ DOMAIN vbs = 1..Len(vbs) /\ cashback \in [Members -> Nat]
         /\ \A i \in 1..Len(vbs) : vbs[i] \in Vb /\ VbOK(vbs[i], vNow)
<1>1. IsFiniteSet(Members) /\ VestingPeriods \subseteq Nat
  BY VestingConstants
<1>2. SumOver(vBalance, Members) \in Nat
  BY <1>1, SumNat DEF VInv, VTypes
<1>3. Lying(vbs) \in Nat
  BY ListNumbers DEF VInv, VTypes
<1>4. /\ vbs \in Seq(Vb) /\ DOMAIN vbs = 1..Len(vbs) /\ cashback \in [Members -> Nat]
      /\ \A i \in 1..Len(vbs) : vbs[i] \in Vb /\ VbOK(vbs[i], vNow)
  BY DEF VInv, VTypes, ListOK
<1> QED
  BY <1>1, <1>2, <1>3, <1>4 DEF VInv, VTypes

LEMMA VestingInit ==
  ASSUME V!VestingAssumption, V!Init
  PROVE  VInv
<1>1. vBalance \in [Members -> Nat] /\ \A a \in Members : vBalance[a] = VestingSupply
  BY VestingConstants DEF V!Init
<1>2. SumOver(vBalance, Members) = VestingSupply * Cardinality(Members)
  BY <1>1, VestingConstants, SumConstant
<1>3. Cardinality(Members) \in Nat
  BY VestingConstants, FS_CardinalityType
<1>4. ListOK(vbs, cashback, vNow)
  BY DEF V!Init, ListOK
<1>5. Lying(vbs) = 0
  <2>1. DOMAIN vbs = {}
    BY DEF V!Init
  <2> QED
    BY <2>1, SumEmpty DEF Lying
<1>6. genesis \in [left : Nat, last : Nat] /\ genesis.left = GenesisVesting
  BY VestingConstants DEF V!Init
<1>7. LinearOK(0, GenesisVesting, genesis.left, vNow)
  <2>1. Vested(0, GenesisVesting, 1) \in 0..GenesisVesting
    <3>1. 0 \in Nat /\ 1 \in Nat /\ 0 <= 1 /\ 1 <= 1 /\ GenesisVesting \in Nat
      BY VestingConstants
    <3> QED
      BY <3>1, VestedGrows
  <2> QED
    BY <1>6, <2>1, VestingConstants DEF LinearOK, V!Init
<1>8. /\ vPending \in [fees : Nat, vested : Nat] /\ vPending.fees = 0 /\ vPending.vested = 0
      /\ accumulated = 0 /\ burned = 0 /\ referrer \in Members /\ period \in VestingPeriods
      /\ vFees = 0 /\ vNow = 1 /\ vFees <= MaxFees
  BY VestingConstants DEF V!Init
<1>9. VestingSupply * Cardinality(Members) \in Nat /\ GenesisVesting \in Nat
  BY <1>3, VestingConstants, MulNat
<1> QED
  BY <1>1, <1>2, <1>4, <1>5, <1>6, <1>7, <1>8, <1>9 DEF VInv, VTypes, VAdds

LEMMA VestingCreate ==
  ASSUME V!VestingAssumption, VInv, NEW a \in Members, NEW n \in VestingAmounts, NEW p \in {"linear", "cdd", "instant"},
         NEW s \in VestingPeriods, V!vesting_balance_create(Payer, a, n, p, s, vNow)
  PROVE  VInv'
<1>1. n \in Nat /\ s \in Nat /\ Payer \in Members
  BY VestingConstants
<1>2. PICK w : w = V!NewVb(a, n, p, s, vNow)
  OBVIOUS
<1>3. w \in Vb /\ VbOK(w, vNow) /\ w.balance = n
  <2>1. vNow \in Nat /\ vNow <= vNow
    BY VestingNumbers
  <2> QED
    BY <1>1, <1>2, <2>1, NewVbIs
<1>4. vbs' = Append(vbs, w) /\ vBalance[Payer] >= n /\ vBalance' = [vBalance EXCEPT ![Payer] = vBalance[Payer] - n]
  BY <1>2 DEF V!vesting_balance_create
<1>5. PICK z : z = Len(vbs) + 1
  OBVIOUS
<1>6. Changes(vbs, vbs', z) /\ vbs'[z] = w /\ z \notin 1..Len(vbs)
  <2>1. Changes(vbs, vbs', Len(vbs) + 1) /\ vbs'[Len(vbs) + 1] = w
    BY <1>3, <1>4, VestingNumbers, ChangesAdd
  <2>2. Len(vbs) \in Nat
    BY VestingNumbers
  <2> QED
    BY <1>5, <2>1, <2>2
<1>7. Lying(vbs') = Lying(vbs) + n
  <2>1. Lying(vbs') = Lying(vbs) + w.balance - (IF z \in 1..Len(vbs) THEN vbs[z].balance ELSE 0)
    BY <1>6, LyingChanges
  <2> QED
    BY <1>1, <1>3, <1>6, <2>1, VestingNumbers
<1>8. ListOK(vbs', cashback, vNow)
  <2>1. \A x \in Members : cashback[x] # 0 => cashback[x] # z
    BY <1>6 DEF VInv, VTypes, ListOK
  <2>2. ListOK(vbs, cashback, vNow) /\ cashback \in [Members -> Nat] /\ VbOK(vbs'[z], vNow)
    BY <1>3, <1>6 DEF VInv, VTypes, ListOK
  <2>3. \A x \in Members : \/ cashback[x] = 0
                           \/ cashback[x] = cashback[x] /\ cashback[x] # z
                           \/ cashback[x] = z /\ vbs'[z].policy = "cdd" /\ vbs'[z].start = 0 /\ vbs'[z].owner = x
    BY <2>1
  <2> QED
    BY <1>6, <2>2, <2>3, ListKept
<1>9. vBalance' \in [Members -> Nat] /\ SumOver(vBalance', Members) = SumOver(vBalance, Members) - n
  <2>1. PICK k \in Int : k = -n
    BY <1>1
  <2>2. vBalance \in [Members -> Nat] /\ vBalance[Payer] + k \in Nat /\ vBalance[Payer] - n = vBalance[Payer] + k
    BY <1>1, <1>4, <2>1 DEF VInv, VTypes
  <2>3. vBalance' = [vBalance EXCEPT ![Payer] = vBalance[Payer] + k]
    BY <1>4, <2>2
  <2>4. /\ vBalance' \in [Members -> Nat] /\ SumOver(vBalance, Members) \in Nat
        /\ SumOver(vBalance', Members) = SumOver(vBalance, Members) + k
    <3>1. Credits(vBalance, vBalance', Payer, k)
      BY <1>1, <2>1, <2>2, <2>3 DEF Credits
    <3> QED
      BY <3>1, MemberPaid
  <2> QED
    BY <1>1, <2>1, <2>4
<1>10. UNCHANGED <<cashback, vPending, referrer, accumulated, burned, period, genesis, vNow, vFees, vChanges>>
  BY DEF V!vesting_balance_create
<1>11. VTypes'
  BY <1>8, <1>9, <1>10 DEF VInv, VTypes
<1>12. VAdds'
  BY <1>1, <1>7, <1>9, <1>10, VestingNumbers DEF VInv, VAdds
<1> QED
  BY <1>11, <1>12 DEF VInv

LEMMA VestingWithdraw ==
  ASSUME V!VestingAssumption, VInv, NEW i \in V!Ids, NEW n \in VestingAmounts, V!vesting_balance_withdraw(i, n)
  PROVE  VInv'
<1>1. n \in Nat /\ i \in 1..Len(vbs) /\ vNow \in Nat
  BY VestingConstants, VestingNumbers DEF V!Ids
<1>2. vbs[i] \in Vb /\ VbOK(vbs[i], vNow) /\ vbs[i].owner \in Members /\ vbs[i].balance \in Nat
  <2>1. vbs[i] \in Vb /\ VbOK(vbs[i], vNow)
    BY <1>1, VestingNumbers
  <2> QED
    BY <2>1 DEF Vb
<1>3. PICK w : w = V!Withdraw(vbs[i], n)
  OBVIOUS
<1>4. w \in Vb /\ VbOK(w, vNow) /\ Same(vbs[i], w) /\ w.balance = vbs[i].balance - n
  <2>1. n <= V!Allowed(vbs[i])
    BY DEF V!vesting_balance_withdraw
  <2>2. PICK vb : vb = vbs[i]
    OBVIOUS
  <2> QED
    BY <1>1, <1>2, <1>3, <2>1, <2>2, WithdrawIs
<1>5. PICK o : o = vbs[i].owner
  OBVIOUS
<1>6. vbs' = [vbs EXCEPT ![i] = w] /\ vBalance' = [vBalance EXCEPT ![o] = vBalance[o] + n]
  BY <1>3, <1>5 DEF V!vesting_balance_withdraw
<1>7. Changes(vbs, vbs', i) /\ vbs'[i] = w
  BY <1>1, <1>4, <1>6, VestingNumbers, ChangesPut
<1>8. Lying(vbs') = Lying(vbs) - n
  <2>1. Lying(vbs') = Lying(vbs) + w.balance - (IF i \in 1..Len(vbs) THEN vbs[i].balance ELSE 0)
    BY <1>7, LyingChanges
  <2> QED
    BY <1>1, <1>2, <1>4, <2>1, VestingNumbers
<1>9. ListOK(vbs', cashback, vNow)
  <2>1. ListOK(vbs, cashback, vNow) /\ cashback \in [Members -> Nat] /\ VbOK(vbs'[i], vNow)
    BY <1>4, <1>7 DEF VInv, VTypes, ListOK
  <2>2. \A x \in Members : \/ cashback[x] = 0
                           \/ cashback[x] = cashback[x] /\ cashback[x] # i
                           \/ cashback[x] = i /\ vbs'[i].policy = "cdd" /\ vbs'[i].start = 0 /\ vbs'[i].owner = x
    BY <1>4, <1>7, <2>1 DEF ListOK, Same
  <2> QED
    BY <1>7, <2>1, <2>2, ListKept
<1>10. vBalance' \in [Members -> Nat] /\ SumOver(vBalance', Members) = SumOver(vBalance, Members) + n
  <2>1. vBalance \in [Members -> Nat] /\ o \in Members /\ vBalance[o] + n \in Nat /\ n \in Int
    BY <1>1, <1>2, <1>5 DEF VInv, VTypes
  <2> QED
    BY <1>6, <2>1, MemberPaid DEF Credits
<1>11. UNCHANGED <<cashback, vPending, referrer, accumulated, burned, period, genesis, vNow, vFees, vChanges>>
  BY DEF V!vesting_balance_withdraw
<1>12. VTypes'
  BY <1>9, <1>10, <1>11 DEF VInv, VTypes
<1>13. VAdds'
  BY <1>1, <1>8, <1>10, <1>11, VestingNumbers DEF VInv, VAdds
<1> QED
  BY <1>12, <1>13 DEF VInv

LEMMA VestingClaim ==
  ASSUME V!VestingAssumption, VInv, NEW n \in VestingAmounts, V!balance_claim(Payer, n)
  PROVE  VInv'
<1>1. n \in Nat /\ Payer \in Members /\ GenesisVesting \in Nat /\ vNow \in Nat /\ genesis.left \in Nat
  BY VestingConstants, VestingNumbers
<1>2. /\ n <= V!LinearAllowed(0, GenesisVesting, genesis.left) /\ genesis' = [left |-> genesis.left - n, last |-> vNow]
      /\ vBalance' = [vBalance EXCEPT ![Payer] = vBalance[Payer] + n]
  BY DEF V!balance_claim
<1>3. genesis.left - n \in Nat /\ LinearOK(0, GenesisVesting, genesis.left - n, vNow)
  <2>1. LinearOK(0, GenesisVesting, genesis.left, vNow) /\ 0 \in Nat
    BY DEF VInv, VTypes
  <2>2. PICK b, l : b = 0 /\ l = genesis.left
    OBVIOUS
  <2>3. /\ b \in Nat /\ l \in Nat /\ LinearOK(b, GenesisVesting, l, vNow)
        /\ n <= V!LinearAllowed(b, GenesisVesting, l)
    BY <1>1, <1>2, <2>1, <2>2
  <2>4. l - n \in Nat /\ LinearOK(b, GenesisVesting, l - n, vNow)
    BY <1>1, <2>3, LinearAllows
  <2> QED
    BY <2>2, <2>4
<1>4. genesis' \in [left : Nat, last : Nat] /\ genesis'.left = genesis.left - n
  BY <1>1, <1>2, <1>3
<1>5. vBalance' \in [Members -> Nat] /\ SumOver(vBalance', Members) = SumOver(vBalance, Members) + n
  <2>1. vBalance \in [Members -> Nat] /\ vBalance[Payer] + n \in Nat /\ n \in Int
    BY <1>1 DEF VInv, VTypes
  <2> QED
    BY <1>1, <1>2, <2>1, MemberPaid DEF Credits
<1>6. UNCHANGED <<vbs, cashback, vPending, referrer, accumulated, burned, period, vNow, vFees, vChanges>>
  BY DEF V!balance_claim
<1>7. VTypes'
  BY <1>3, <1>4, <1>5, <1>6 DEF VInv, VTypes
<1>8. VAdds'
  <2>1. Lying(vbs') = Lying(vbs)
    BY <1>6
  <2>2. SumOver(vBalance, Members) \in Nat /\ Lying(vbs) \in Nat /\ VAdds
    BY VestingNumbers DEF VInv
  <2>3. vPending.fees \in Nat /\ vPending.vested \in Nat /\ accumulated \in Nat /\ burned \in Nat
    BY VestingNumbers
  <2> QED
    BY <1>1, <1>4, <1>5, <1>6, <2>1, <2>2, <2>3 DEF VAdds
<1> QED
  BY <1>7, <1>8 DEF VInv

LEMMA VestingPayFee ==
  ASSUME V!VestingAssumption, VInv, NEW fee \in Fees, V!PayFee(fee)
  PROVE  VInv' /\ vPending'.vested >= vPending.vested
<1>1. fee \in Nat /\ Payer \in Members
  BY VestingConstants
<1>2. /\ vFees < MaxFees /\ vBalance[Payer] >= fee /\ vBalance' = [vBalance EXCEPT ![Payer] = vBalance[Payer] - fee]
      /\ vPending' = IF fee > Threshold THEN [vPending EXCEPT !.fees = vPending.fees + fee]
                     ELSE [vPending EXCEPT !.vested = vPending.vested + fee]
      /\ vFees' = vFees + 1
      /\ UNCHANGED <<vbs, cashback, referrer, accumulated, burned, period, genesis, vNow>>
  BY DEF V!PayFee
<1>3. vBalance' \in [Members -> Nat] /\ SumOver(vBalance', Members) = SumOver(vBalance, Members) - fee
  <2>1. PICK k \in Int : k = -fee
    BY <1>1
  <2>2. vBalance \in [Members -> Nat] /\ vBalance[Payer] + k \in Nat /\ vBalance[Payer] - fee = vBalance[Payer] + k
    BY <1>1, <1>2, <2>1 DEF VInv, VTypes
  <2>3. vBalance' = [vBalance EXCEPT ![Payer] = vBalance[Payer] + k]
    BY <1>2, <2>2
  <2>4. Credits(vBalance, vBalance', Payer, k)
    BY <1>1, <2>1, <2>2, <2>3 DEF Credits
  <2>5. /\ vBalance' \in [Members -> Nat] /\ SumOver(vBalance, Members) \in Nat
        /\ SumOver(vBalance', Members) = SumOver(vBalance, Members) + k
    BY <2>4, MemberPaid
  <2> QED
    BY <1>1, <2>1, <2>5
<1>4. /\ vPending' \in [fees : Nat, vested : Nat] /\ vPending'.vested >= vPending.vested
      /\ vPending'.fees + vPending'.vested = vPending.fees + vPending.vested + fee
  <2>1. vPending \in [fees : Nat, vested : Nat]
    BY DEF VInv, VTypes
  <2>2. CASE fee > Threshold
    BY <1>1, <1>2, <2>1, <2>2
  <2>3. CASE ~(fee > Threshold)
    BY <1>1, <1>2, <2>1, <2>3
  <2> QED
    BY <2>2, <2>3
<1>5. VTypes'
  <2>1. MaxFees \in Nat /\ vFees \in Nat
    BY VestingConstants DEF VInv, VTypes
  <2>2. vFees' \in Nat /\ vFees' # 0 /\ vFees' <= MaxFees
    BY <1>2, <2>1
  <2> QED
    BY <1>2, <1>3, <1>4, <2>2 DEF VInv, VTypes
<1>6. VAdds'
  <2>1. Lying(vbs') = Lying(vbs)
    BY <1>2
  <2>2. SumOver(vBalance, Members) \in Nat /\ Lying(vbs) \in Nat /\ VAdds
    BY VestingNumbers DEF VInv
  <2>3. /\ vPending.fees \in Nat /\ vPending.vested \in Nat /\ accumulated \in Nat /\ burned \in Nat
        /\ genesis.left \in Nat /\ vPending'.fees \in Nat /\ vPending'.vested \in Nat
    BY <1>4, VestingNumbers
  <2> QED
    BY <1>1, <1>2, <1>3, <1>4, <2>1, <2>2, <2>3 DEF VAdds
<1> QED
  BY <1>4, <1>5, <1>6 DEF VInv

LEMMA VestingProcess ==
  ASSUME V!VestingAssumption, VInv, V!ProcessFees
  PROVE  VInv' /\ (period # 0 => V!VestsAtOnce)
<1>1. PICK d : d = [vbs |-> vbs, cashback |-> cashback, referrer |-> referrer,
                    accumulated |-> accumulated, burned |-> burned]
  OBVIOUS
<1>2. PICK e : e = V!PayOut(d, vPending.fees, TRUE)
  OBVIOUS
<1>3. PICK f : f = V!PayOut(e, vPending.vested, FALSE)
  OBVIOUS
<1>4. /\ vbs' = f.vbs /\ cashback' = f.cashback /\ referrer' = f.referrer
      /\ accumulated' = f.accumulated /\ burned' = f.burned
      /\ vPending' = [fees |-> 0, vested |-> 0]
      /\ UNCHANGED <<vBalance, period, genesis, vNow, vFees>>
  BY <1>1, <1>2, <1>3 DEF V!ProcessFees
<1>5. /\ vNow \in Nat \ {0} /\ period \in Nat /\ vPending.fees \in Nat /\ vPending.vested \in Nat
      /\ accumulated \in Nat /\ burned \in Nat /\ vbs \in Seq(Vb) /\ cashback \in [Members -> Nat]
      /\ SumOver(vBalance, Members) \in Nat /\ Lying(vbs) \in Nat /\ genesis.left \in Nat
  BY VestingNumbers
<1>6. BooksOK(d)
  <2>1. referrer \in Members /\ ListOK(vbs, cashback, vNow)
    BY DEF VInv, VTypes
  <2>2. d \in Books /\ d.vbs = vbs /\ d.cashback = cashback
    BY <1>1, <1>5, <2>1 DEF Books
  <2> QED
    BY <2>1, <2>2 DEF BooksOK
<1>7. Carries(d, e, vPending.fees)
  <2>1. TRUE \in BOOLEAN
    OBVIOUS
  <2> QED
    BY <1>2, <1>5, <1>6, <2>1, PayOutCarries
<1>8. Carries(e, f, vPending.vested)
  <2>1. BooksOK(e) /\ FALSE \in BOOLEAN
    BY <1>7 DEF Carries
  <2> QED
    BY <1>3, <1>5, <2>1, PayOutCarries
<1>9. Carries(d, f, vPending.fees + vPending.vested)
  BY <1>5, <1>7, <1>8, CarriesOn
<1>10. Paid(d) = Lying(vbs) + accumulated + burned
  BY <1>1 DEF Paid
<1>11. BooksOK(f) /\ Paid(f) = Lying(vbs) + accumulated + burned + (vPending.fees + vPending.vested)
  BY <1>9, <1>10 DEF Carries
<1>12. /\ f.accumulated \in Nat /\ f.burned \in Nat /\ f.referrer \in Members
       /\ ListOK(f.vbs, f.cashback, vNow)
  <2>1. f \in Books /\ ListOK(f.vbs, f.cashback, vNow)
    BY <1>11 DEF BooksOK
  <2> QED
    BY <2>1 DEF Books
<1>13. Lying(f.vbs) \in Nat
  BY <1>5, <1>12, ListNumbers
<1>14. VTypes'
  <2>1. ListOK(vbs, cashback, vNow)'
    BY <1>4, <1>12
  <2>2. vPending' \in [fees : Nat, vested : Nat] /\ vPending'.vested = 0
    BY <1>4
  <2> QED
    BY <1>4, <1>12, <2>1, <2>2 DEF VInv, VTypes
<1>15. VAdds'
  <2>1. Lying(vbs)' = Lying(f.vbs) /\ vPending'.fees = 0 /\ vPending'.vested = 0
    BY <1>4
  <2>2. Lying(f.vbs) + f.accumulated + f.burned = Lying(vbs) + accumulated + burned + (vPending.fees + vPending.vested)
    BY <1>11 DEF Paid
  <2>3. SumOver(vBalance, Members) + Lying(vbs) + vPending.fees + vPending.vested + accumulated + burned
        + genesis.left = VestingSupply * Cardinality(Members) + GenesisVesting
    BY DEF VInv, VAdds
  <2>4. SumOver(vBalance, Members) + Lying(f.vbs) + 0 + 0 + f.accumulated + f.burned
        + genesis.left = VestingSupply * Cardinality(Members) + GenesisVesting
    <3>1. PICK b, l, pf, pv, ac, bu, g, fl, fa, fb, all :
             /\ b = SumOver(vBalance, Members) /\ l = Lying(vbs) /\ pf = vPending.fees /\ pv = vPending.vested
             /\ ac = accumulated /\ bu = burned /\ g = genesis.left
             /\ fl = Lying(f.vbs) /\ fa = f.accumulated /\ fb = f.burned
             /\ all = VestingSupply * Cardinality(Members) + GenesisVesting
      OBVIOUS
    <3>2. /\ b \in Nat /\ l \in Nat /\ pf \in Nat /\ pv \in Nat /\ ac \in Nat /\ bu \in Nat /\ g \in Nat
          /\ fl \in Nat /\ fa \in Nat /\ fb \in Nat
      BY <1>5, <1>12, <1>13, <3>1
    <3>3. fl + fa + fb = l + ac + bu + (pf + pv) /\ b + l + pf + pv + ac + bu + g = all
      BY <2>2, <2>3, <3>1
    <3>4. b + fl + 0 + 0 + fa + fb + g = all
      BY ONLY <3>2, <3>3
    <3> QED
      BY <3>1, <3>4
  <2> QED
    BY <1>4, <2>1, <2>4 DEF VAdds
<1>16. ASSUME period # 0, NEW a \in Members
       PROVE  V!Available(a, vbs') - V!Available(a, vbs) >= V!CameVested(a, vbs') - V!CameVested(a, vbs)
  <2>1. Spare(a, f.vbs) >= Spare(a, vbs)
    BY <1>1, <1>9, <1>16 DEF Carries
  <2>2. ListOK(vbs, cashback, vNow)
    BY DEF VInv, VTypes
  <2>3. V!Available(a, vbs) \in Int /\ V!CameVested(a, vbs) \in Int
    BY <1>5, <2>2, ListNumbers
  <2>4. V!Available(a, f.vbs) \in Int /\ V!CameVested(a, f.vbs) \in Int
    BY <1>5, <1>12, ListNumbers
  <2> QED
    BY <1>4, <2>1, <2>3, <2>4 DEF Spare
<1> QED
  BY <1>14, <1>15, <1>16 DEF VInv, V!VestsAtOnce

LEMMA VestingPeriod ==
  ASSUME V!VestingAssumption, VInv, NEW p \in VestingPeriods, V!UpdatePeriod(p)
  PROVE  VInv'
<1>1. /\ period' = p
      /\ UNCHANGED <<vBalance, vbs, cashback, vPending, referrer, accumulated, burned, genesis, vNow, vFees>>
  BY DEF V!UpdatePeriod
<1>2. VTypes'
  BY <1>1 DEF VInv, VTypes
<1>3. VAdds'
  BY <1>1 DEF VInv, VAdds
<1> QED
  BY <1>2, <1>3 DEF VInv

\* Time passes: what is known of the balances stays true.
LEMMA VestingNewBlock ==
  ASSUME V!VestingAssumption, VInv, V!NewBlock
  PROVE  VInv'
<1>1. /\ vNow' = vNow + 1
      /\ UNCHANGED <<vBalance, vbs, cashback, vPending, referrer, accumulated, burned, period, genesis, vFees>>
  BY DEF V!NewBlock
<1>2. vNow \in Nat \ {0} /\ vNow + 1 \in Nat \ {0} /\ GenesisVesting \in Nat /\ genesis.left \in Nat
  <2>1. vNow \in Nat \ {0} /\ genesis.left \in Nat
    BY VestingNumbers
  <2>2. GenesisVesting \in Nat
    BY VestingConstants
  <2> QED
    BY <2>1, <2>2
<1>3. LinearOK(0, GenesisVesting, genesis.left, vNow + 1)
  <2>1. LinearOK(0, GenesisVesting, genesis.left, vNow) /\ 0 \in Nat
    BY DEF VInv, VTypes
  <2> QED
    BY <1>2, <2>1, LaterOK
<1>4. ASSUME NEW vb \in Vb, VbOK(vb, vNow) PROVE VbOK(vb, vNow + 1)
  <2>1. vb.last \in Nat /\ vb.begin \in Nat /\ vb.total \in Nat /\ vb.balance \in Nat
    BY DEF Vb
  <2>2. vb.policy = "linear" => LinearOK(vb.begin, vb.total, vb.balance, vNow + 1)
    <3>1. ASSUME vb.policy = "linear" PROVE LinearOK(vb.begin, vb.total, vb.balance, vNow + 1)
      <4>1. LinearOK(vb.begin, vb.total, vb.balance, vNow)
        BY <1>4, <3>1 DEF VbOK
      <4> QED
        BY <1>2, <2>1, <4>1, LaterOK
    <3> QED
      BY <3>1
  <2> QED
    BY <1>2, <1>4, <2>1, <2>2 DEF VbOK
<1>5. ListOK(vbs, cashback, vNow + 1)
  <2>1. ListOK(vbs, cashback, vNow)
    BY DEF VInv, VTypes
  <2>2. \A i \in 1..Len(vbs) : vbs[i] \in Vb /\ VbOK(vbs[i], vNow)
    BY VestingNumbers
  <2>3. \A i \in 1..Len(vbs) : VbOK(vbs[i], vNow + 1)
    BY <1>4, <2>2
  <2> QED
    BY <2>1, <2>3 DEF ListOK
<1>6. VTypes'
  BY <1>1, <1>2, <1>3, <1>5 DEF VInv, VTypes
<1>7. VAdds'
  BY <1>1 DEF VInv, VAdds
<1> QED
  BY <1>6, <1>7 DEF VInv

-----------------------------------------------------------------------------
(* Vesting balances: theorems.                                             *)

LEMMA VestingStep ==
  ASSUME V!VestingAssumption, VInv, [V!Next]_V!vars
  PROVE  VInv' /\ (period # 0 => V!VestsAtOnce)
<1>1. ASSUME VInv', vPending' = vPending \/ vNow' # vNow \/ vPending'.vested >= vPending.vested
      PROVE  VInv' /\ (period # 0 => V!VestsAtOnce)
  <2>1. vPending.vested \in Nat
    BY VestingNumbers
  <2>2. vPending'.vested \in Nat
    BY <1>1 DEF VInv, VTypes
  <2>3. V!VestsAtOnce
    BY <1>1, <2>1, <2>2 DEF V!VestsAtOnce
  <2> QED
    BY <1>1, <2>3
<1>2. CASE \E a \in Members, n \in VestingAmounts, p \in {"linear", "cdd", "instant"}, s \in VestingPeriods :
             V!vesting_balance_create(Payer, a, n, p, s, vNow)
  <2>1. PICK a \in Members, n \in VestingAmounts, p \in {"linear", "cdd", "instant"}, s \in VestingPeriods :
           V!vesting_balance_create(Payer, a, n, p, s, vNow)
    BY <1>2
  <2>2. VInv'
    BY <2>1, VestingCreate
  <2>3. vPending' = vPending
    BY <2>1 DEF V!vesting_balance_create
  <2> QED
    BY <1>1, <2>2, <2>3
<1>3. ASSUME NEW i \in V!Ids, NEW n \in VestingAmounts, V!vesting_balance_withdraw(i, n)
      PROVE  VInv' /\ (period # 0 => V!VestsAtOnce)
  <2>1. VInv'
    BY <1>3, VestingWithdraw
  <2>2. vPending' = vPending
    BY <1>3 DEF V!vesting_balance_withdraw
  <2> QED
    BY <1>1, <2>1, <2>2
<1>4. ASSUME NEW n \in VestingAmounts, V!balance_claim(Payer, n)
      PROVE  VInv' /\ (period # 0 => V!VestsAtOnce)
  <2>1. VInv'
    BY <1>4, VestingClaim
  <2>2. vPending' = vPending
    BY <1>4 DEF V!balance_claim
  <2> QED
    BY <1>1, <2>1, <2>2
<1>5. ASSUME NEW f \in Fees, V!PayFee(f)
      PROVE  VInv' /\ (period # 0 => V!VestsAtOnce)
  BY <1>1, <1>5, VestingPayFee
<1>6. ASSUME NEW p \in VestingPeriods, V!UpdatePeriod(p)
      PROVE  VInv' /\ (period # 0 => V!VestsAtOnce)
  <2>1. VInv'
    BY <1>6, VestingPeriod
  <2>2. vPending' = vPending
    BY <1>6 DEF V!UpdatePeriod
  <2> QED
    BY <1>1, <2>1, <2>2
<1>7. CASE V!NewBlock
  <2>1. VInv'
    BY <1>7, VestingNewBlock
  <2>2. vPending' = vPending
    BY <1>7 DEF V!NewBlock
  <2> QED
    BY <1>1, <2>1, <2>2
<1>8. CASE UNCHANGED V!vars
  <2>1. /\ UNCHANGED <<vBalance, vbs, cashback, vPending, referrer, accumulated, burned, period, genesis>>
        /\ UNCHANGED <<vNow, vFees>>
    BY <1>8 DEF V!vars
  <2>2. VTypes'
    BY <2>1 DEF VInv, VTypes
  <2>3. VAdds'
    BY <2>1 DEF VInv, VAdds
  <2>4. VInv'
    BY <2>2, <2>3 DEF VInv
  <2> QED
    BY <1>1, <2>1, <2>4
<1>9. CASE V!ProcessFees
  BY <1>9, VestingProcess
<1> QED
  BY <1>2, <1>3, <1>4, <1>5, <1>6, <1>7, <1>8, <1>9 DEF V!Next

\* The inductive invariant.
THEOREM VestingInvariant ==
  ASSUME V!VestingAssumption
  PROVE  V!Spec => []VInv
<1>1. V!Init => VInv
  BY VestingInit
<1>2. VInv /\ [V!Next]_V!vars => VInv'
  BY VestingStep
<1> QED
  BY <1>1, <1>2, PTL DEF V!Spec

\* The invariant gives the types, the sums and what may be withdrawn.
LEMMA VestingAre ==
  ASSUME V!VestingAssumption, VInv
  PROVE  V!TypeOK /\ V!Conserved /\ V!AllowedSound /\ V!CoinSecondsPaid
<1>1. /\ vNow \in Nat /\ genesis.left \in Nat /\ vBalance \in [Members -> Nat] /\ V!Ids = 1..Len(vbs)
      /\ \A i \in 1..Len(vbs) : vbs[i] \in Vb /\ VbOK(vbs[i], vNow)
  BY VestingNumbers DEF V!Ids, VInv, VTypes
<1>2. V!TypeOK
  <2>1. ASSUME NEW i \in V!Ids PROVE vbs[i].balance \in Nat /\ vbs[i].earned \in Nat
    <3>1. vbs[i] \in Vb
      BY <1>1
    <3> QED
      BY <3>1 DEF Vb
  <2> QED
    BY <1>1, <2>1 DEF V!TypeOK
<1>3. V!Conserved
  <2>1. Lying(vbs) = V!SumOver([i \in V!Ids |-> vbs[i].balance], V!Ids)
    BY VestingSums DEF Lying, V!Ids
  <2>2. SumOver(vBalance, Members) = V!SumOver(vBalance, Members)
    BY VestingSums
  <2>3. Cardinality(Members) = V!Cardinality(Members)
    BY DEF Cardinality, V!Cardinality
  <2> QED
    BY <2>1, <2>2, <2>3 DEF VInv, VAdds, V!Conserved
<1>4. V!AllowedSound
  <2>1. \A i \in V!Ids : V!Allowed(vbs[i]) \in 0..vbs[i].balance
    BY <1>1, AllowedIs
  <2>2. V!LinearAllowed(0, GenesisVesting, genesis.left) \in 0..genesis.left
    <3>1. LinearOK(0, GenesisVesting, genesis.left, vNow) /\ 0 \in Nat /\ GenesisVesting \in Nat
      BY VestingConstants DEF VInv, VTypes
    <3> QED
      BY <1>1, <3>1, LinearAllows
  <2> QED
    BY <2>1, <2>2 DEF V!AllowedSound
<1>5. V!CoinSecondsPaid
  BY <1>1, PaidFor DEF V!CoinSecondsPaid
<1> QED
  BY <1>2, <1>3, <1>4, <1>5

\* However fees are cut into shares, paid out as cashback into old and new balances
\* and withdrawn, nothing is created or lost and nothing becomes negative
\* (account_object.cpp pay_out_fees, db_balance.cpp deposit_cashback).
THEOREM VestingConserves ==
  ASSUME V!VestingAssumption
  PROVE  V!Spec => [](V!TypeOK /\ V!Conserved)
<1>1. VInv => V!TypeOK /\ V!Conserved
  BY VestingAre
<1> QED
  BY <1>1, VestingInvariant, PTL

\* No policy allows to withdraw less than nothing or more than there is, whatever
\* was put in and taken out before, and under coin-seconds what was taken has been
\* paid for by the time that coins lay in the balance
\* (vesting_balance_object.cpp get_allowed_withdraw, on_withdraw).
THEOREM OnlyVestedWithdrawn ==
  ASSUME V!VestingAssumption
  PROVE  V!Spec => [](V!AllowedSound /\ V!CoinSecondsPaid)
<1>1. VInv => V!AllowedSound /\ V!CoinSecondsPaid
  BY VestingAre
<1> QED
  BY <1>1, VestingInvariant, PTL

\* With periods that are not zero, what comes in vested can be withdrawn at once as
\* well, from whatever balance it was put in (VestingSound).  Under a period of zero
\* deposit_lazy_vesting gives a new balance no coin-seconds at all, and what came in
\* vested can be withdrawn one second later.
THEOREM VestingIsSound ==
  ASSUME V!VestingAssumption, 0 \notin VestingPeriods
  PROVE  V!Spec => V!VestingSound
<1>1. VInv => V!AllowedSound /\ V!CoinSecondsPaid
  BY VestingAre
<1>2. VInv /\ [V!Next]_V!vars => [V!VestsAtOnce]_V!vars
  <2>1. VInv => period # 0
    BY DEF VInv, VTypes
  <2> QED
    BY <2>1, VestingStep
<1> QED
  BY <1>1, <1>2, VestingInvariant, PTL DEF V!Spec, V!VestingSound, V!VestedAtOnce
=============================================================================
