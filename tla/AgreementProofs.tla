--------------------------- MODULE AgreementProofs ---------------------------
(***************************************************************************)
(* Proofs about agreements between accounts that time puts an end to:      *)
(* proposals and hash time-locked contracts.                               *)
(***************************************************************************)
EXTENDS Proposals, DataLemmas

\* Hash time-locked contracts, with constants and variables of their own.
CONSTANTS
  HtlcSupply, HtlcAmounts, Preimages, SizeOf, Timeouts, Options, MaxPreimageSize, Restricted,
  MaxContracts, HtlcTime, HtlcChanges

VARIABLES hBalance, htlcs, hNext, options, hBarred, hNow, hChanges

H == INSTANCE Htlc WITH
  Supply <- HtlcSupply, Amounts <- HtlcAmounts, MaxTime <- HtlcTime, MaxChanges <- HtlcChanges,
  balance <- hBalance, next <- hNext, barred <- hBarred, now <- hNow, changes <- hChanges

\* Withdraw permissions, with constants and variables of their own.
CONSTANTS
  Assets, WithdrawSupply, Limits, WithdrawAmounts, Periods, Counts, Width, MaxPermits, WithdrawTime,
  WithdrawUpdates

VARIABLES wBalance, permits, wNext, wBarred, wNow, wUpdates

W == INSTANCE WithdrawPermission WITH
  Supply <- WithdrawSupply, Amounts <- WithdrawAmounts, W <- Width, MaxTime <- WithdrawTime,
  MaxUpdates <- WithdrawUpdates,
  balance <- wBalance, next <- wNext, barred <- wBarred, now <- wNow, updates <- wUpdates

-----------------------------------------------------------------------------
(* Proposals: the inductive invariant.                                     *)

Ids == 1..MaxProposals
People == SUBSET Accounts

Proposal ==
  [body : Bodies, expires : Nat, review : Nat, reqOwner : People, reqActive : People,
   active : People, owner : People, keys : People, failed : BOOLEAN,
   frozen : [accounts : People, keys : People]]

\* What a session saves, and what Saved is.
States == [proposals : Maps(Proposal), done : [Ids -> Nat], vetoed : SUBSET Ids, nextId : Nat \ {0}]

Sessions == [kind : {"tx", "update", "expiry"}, p : Nat, pc : Nat \ {0}, saved : States]

\* The proposals of a state refer back, none has been created that has an id to
\* come, and none has taken effect twice.
StateOK(s) ==
  /\ s.nextId <= MaxProposals + 1
  /\ DOMAIN s.proposals \subseteq 1..(s.nextId - 1)
  /\ \A i \in DOMAIN s.proposals : LET b == s.proposals[i].body
       IN \A k \in DOMAIN b : b[k].kind \in {"update", "delete"} => b[k].target < i
  /\ \A i \in Ids : s.done[i] <= 1 /\ (i >= s.nextId => s.done[i] = 0)

\* At time t in phase ph no proposal has expired or gained approvals under review.
Timely(s, t, ph) ==
  \A i \in DOMAIN s.proposals : LET p == s.proposals[i]
    IN /\ p.review # 0 /\ t >= p.review => p.active \cup p.owner \subseteq p.frozen.accounts
       /\ ph = "idle" => p.expires > t

\* The proposal of a session is in state s, may be executed at time t, and has
\* taken effect only if an operation that acts has been passed.
Held(f, s, t) ==
  f.kind # "tx" =>
    /\ f.p \in DOMAIN s.proposals
    /\ s.proposals[f.p].review # 0 \/ f.kind = "expiry" => s.proposals[f.p].expires <= t
    /\ s.done[f.p] = 1 =>
         \E k \in DOMAIN s.proposals[f.p].body : k < f.pc /\ s.proposals[f.p].body[k].kind \in Acts

\* State s is one of the first n sessions of fs: their proposals are in it, and no
\* other that is in it has taken effect.
Standing(fs, n, s, t) ==
  /\ \A j \in 1..n : Held(fs[j], s, t)
  /\ \A i \in DOMAIN s.proposals : (\A j \in 1..n : fs[j].p # i) => s.done[i] = 0

\* State s has come from state r: what cannot be changed is the same, and nothing
\* that was gone in r is there.
ComesFrom(s, r) ==
  /\ r.nextId <= s.nextId
  /\ \A i \in DOMAIN s.proposals : i < r.nextId =>
       /\ i \in DOMAIN r.proposals
       /\ s.proposals[i].body = r.proposals[i].body
       /\ s.proposals[i].expires = r.proposals[i].expires
       /\ s.proposals[i].review = r.proposals[i].review
       /\ s.proposals[i].reqActive = r.proposals[i].reqActive
       /\ s.proposals[i].reqOwner = r.proposals[i].reqOwner

\* Session k of fs: transactions and expirations are the outermost sessions, others
\* go to older proposals, and the state to return to is sound.
Nested(fs, k, t, ph) ==
  /\ fs[k].kind # "update" => k = 1
  /\ fs[k].kind = "tx" => fs[k].p = 0
  /\ \A j \in 1..(k - 1) : fs[j].kind # "tx" => fs[k].p < fs[j].p
  /\ k > 1 => ComesFrom(fs[k].saved, fs[k - 1].saved)
  /\ fs[k].kind # "tx" =>
       /\ fs[k].p \in DOMAIN fs[k].saved.proposals
       /\ fs[k].kind = "expiry" => fs[k].saved.proposals[fs[k].p].expires <= t
  /\ StateOK(fs[k].saved) /\ Timely(fs[k].saved, t, ph) /\ Standing(fs, k - 1, fs[k].saved, t)

\* The index tracks only accounts that have a part in a proposal of m.
Tracks(idx, m) ==
  /\ idx \subseteq Accounts \X Ids
  /\ \A x \in idx : x[2] \in DOMAIN m /\ x[1] \in Parties(m[x[2]])

\* All of it: for the state s, the index, the sessions, the time and the phase.
Guarded(s, idx, fs, t, ph) ==
  /\ s \in States /\ fs \in Seq(Sessions) /\ Len(fs) <= MaxNesting + 1
  /\ StateOK(s) /\ Timely(s, t, ph) /\ Standing(fs, Len(fs), s, t)
  /\ \A k \in 1..Len(fs) : Nested(fs, k, t, ph)
  /\ fs # <<>> => ComesFrom(s, fs[Len(fs)].saved)
  /\ Tracks(idx, s.proposals)

PInv ==
  /\ now \in 0..MaxTime /\ phase \in {"idle", "expiring"}
  /\ Guarded(Saved, index, frames, now, phase)

-----------------------------------------------------------------------------
(* Proposals: the index.                                                   *)

\* What a proposal is made of.
LEMMA ProposalType ==
  ASSUME NEW m \in Maps(Proposal), NEW i \in DOMAIN m
  PROVE  /\ m[i] \in Proposal /\ i \in Nat
         /\ m[i].reqActive \in People /\ m[i].reqOwner \in People
         /\ m[i].active \in People /\ m[i].owner \in People /\ m[i].keys \in People
         /\ m[i].body \in Bodies /\ m[i].expires \in Nat /\ m[i].review \in Nat
         /\ m[i]["active"] = m[i].active /\ m[i]["owner"] = m[i].owner /\ m[i]["keys"] = m[i].keys
<1>1. m[i] \in Proposal /\ i \in Nat
  BY MapType
<1> QED
  BY <1>1 DEF Proposal

\* What a body is.
LEMMA BodyType ==
  ASSUME ProposalsAssumption, NEW b \in Bodies
  PROVE  /\ b \in Seq(Operation) /\ Len(b) \in Nat /\ DOMAIN b = 1..Len(b) /\ DOMAIN b \subseteq Nat
         /\ \A k \in DOMAIN b : b[k] \in Operation
<1>1. b \in Seq(Operation)
  BY DEF ProposalsAssumption
<1>2. Len(b) \in Nat /\ DOMAIN b = 1..Len(b)
  BY <1>1
<1>3. \A k \in DOMAIN b : b[k] \in Operation
  BY <1>1, <1>2
<1> QED
  BY <1>1, <1>2, <1>3

\* The observers of an insertion, a removal or a modification leave the index with
\* nobody who has no part in a proposal (required_approval_index).
LEMMA IndexMoves ==
  ASSUME NEW m \in Maps(Proposal), NEW n \in Maps(Proposal), NEW idx, Tracks(idx, m),
         DOMAIN n \subseteq Ids,
         \A i \in DOMAIN m \cap DOMAIN n :
           m[i].reqActive = n[i].reqActive /\ m[i].reqOwner = n[i].reqOwner
  PROVE  Tracks(IndexMove(idx, m, n), n)
<1> DEFINE both == DOMAIN m \cap DOMAIN n
           inserted == UNION {{<<a, i>> : a \in Parties(n[i])} : i \in DOMAIN n \ DOMAIN m}
           gone(f) == UNION {{<<a, i>> : a \in m[i][f] \ n[i][f]} : i \in both}
           come(f) == UNION {{<<a, i>> : a \in n[i][f] \ m[i][f]} : i \in both}
           kept == {x \in idx : x[2] \notin DOMAIN m \ DOMAIN n}
           one == ((kept \cup inserted) \ gone("active")) \cup come("active")
           Fits(x) == /\ x \in Accounts \X Ids
                      /\ x[2] \in DOMAIN n /\ x[1] \in Parties(n[x[2]])
<1>1. IndexMove(idx, m, n) = (one \ gone("owner")) \cup come("owner")
  BY DEF IndexMove
<1>2. ASSUME NEW i \in DOMAIN n, NEW a \in Parties(n[i]) PROVE Fits(<<a, i>>)
  <2>1. a \in Accounts
    BY ProposalType DEF Parties, People
  <2> QED
    BY <2>1
<1>3. ASSUME NEW x \in inserted PROVE Fits(x)
  BY <1>2
<1>4. ASSUME NEW x \in come("active") PROVE Fits(x)
  <2>0. PICK i \in both : x \in {<<a, i>> : a \in n[i]["active"] \ m[i]["active"]}
    OBVIOUS
  <2>1. PICK a \in n[i]["active"] : x = <<a, i>>
    BY <2>0
  <2>2. a \in Parties(n[i])
    BY <2>1, ProposalType DEF Parties
  <2> QED
    BY <1>2, <2>1, <2>2
<1>5. ASSUME NEW x \in come("owner") PROVE Fits(x)
  <2>0. PICK i \in both : x \in {<<a, i>> : a \in n[i]["owner"] \ m[i]["owner"]}
    OBVIOUS
  <2>1. PICK a \in n[i]["owner"] : x = <<a, i>>
    BY <2>0
  <2>2. a \in Parties(n[i])
    BY <2>1, ProposalType DEF Parties
  <2> QED
    BY <1>2, <2>1, <2>2
<1>6. ASSUME NEW x \in kept, x \notin gone("active"), x \notin gone("owner") PROVE Fits(x)
  <2>1. PICK a \in Accounts, i \in Ids : x = <<a, i>>
    BY DEF Tracks
  <2>2. i \in both /\ a \in Parties(m[i])
    BY <2>1 DEF Tracks
  <2>3. a \notin m[i]["active"] \ n[i]["active"]
    BY <1>6, <2>1, <2>2
  <2>4. a \notin m[i]["owner"] \ n[i]["owner"]
    BY <1>6, <2>1, <2>2
  <2>5. m[i].reqActive = n[i].reqActive /\ m[i].reqOwner = n[i].reqOwner
    BY <2>2
  <2>6. a \in Parties(n[i])
    BY <2>2, <2>3, <2>4, <2>5, ProposalType DEF Parties
  <2> QED
    BY <1>2, <2>1, <2>2, <2>6
<1> HIDE DEF gone, come, kept, inserted
<1>7. \A x \in IndexMove(idx, m, n) : Fits(x)
  BY <1>1, <1>3, <1>4, <1>5, <1>6
<1> QED
  BY <1>7 DEF Tracks

-----------------------------------------------------------------------------
(* Proposals: states.                                                      *)

\* What a state is made of.
LEMMA StateType ==
  ASSUME NEW s \in States
  PROVE  /\ s.proposals \in Maps(Proposal) /\ s.done \in [Ids -> Nat]
         /\ s.vetoed \in SUBSET Ids /\ s.nextId \in Nat \ {0}
         /\ \A i \in DOMAIN s.proposals : s.proposals[i] \in Proposal /\ i \in Nat
<1>1. /\ s.proposals \in Maps(Proposal) /\ s.done \in [Ids -> Nat]
      /\ s.vetoed \in SUBSET Ids /\ s.nextId \in Nat \ {0}
  BY DEF States
<1> QED
  BY <1>1, MapType

\* A state comes from itself.
LEMMA ComesFromItself ==
  ASSUME NEW s \in States
  PROVE  ComesFrom(s, s)
BY StateType DEF ComesFrom

\* A state comes from what the state it comes from comes from.
LEMMA ComesFromEarlier ==
  ASSUME NEW s \in States, NEW r \in States, NEW q \in States,
         ComesFrom(s, r), ComesFrom(r, q)
  PROVE  ComesFrom(s, q)
<1>1. s.nextId \in Nat /\ r.nextId \in Nat /\ q.nextId \in Nat
  BY StateType
<1>2. q.nextId <= s.nextId
  BY <1>1 DEF ComesFrom
<1>3. ASSUME NEW i \in DOMAIN s.proposals, i < q.nextId
      PROVE  /\ i \in DOMAIN q.proposals
             /\ s.proposals[i].body = q.proposals[i].body
             /\ s.proposals[i].expires = q.proposals[i].expires
             /\ s.proposals[i].review = q.proposals[i].review
             /\ s.proposals[i].reqActive = q.proposals[i].reqActive
             /\ s.proposals[i].reqOwner = q.proposals[i].reqOwner
  <2>1. i \in Nat
    BY StateType
  <2>2. i < r.nextId
    BY <1>1, <1>3, <2>1 DEF ComesFrom
  <2>3. i \in DOMAIN r.proposals
    BY <2>2 DEF ComesFrom
  <2> QED
    BY <1>3, <2>2, <2>3 DEF ComesFrom
<1> QED
  BY <1>2, <1>3 DEF ComesFrom

\* Moving the index with the proposals, forth or back.
LEMMA IndexFollows ==
  ASSUME ProposalsAssumption, NEW s \in States, NEW r \in States, NEW idx, StateOK(s), StateOK(r),
         ComesFrom(s, r) \/ ComesFrom(r, s), Tracks(idx, s.proposals)
  PROVE  Tracks(IndexMove(idx, s.proposals, r.proposals), r.proposals)
<1>1. ASSUME NEW i \in DOMAIN s.proposals \cap DOMAIN r.proposals
      PROVE  /\ s.proposals[i].reqActive = r.proposals[i].reqActive
             /\ s.proposals[i].reqOwner = r.proposals[i].reqOwner
  <2>1. i \in Nat /\ s.nextId \in Nat /\ r.nextId \in Nat
    BY StateType
  <2>2. i \in 1..(s.nextId - 1) /\ i \in 1..(r.nextId - 1)
    BY DEF StateOK
  <2>3. i < s.nextId /\ i < r.nextId
    BY <2>1, <2>2
  <2> QED
    BY <2>3 DEF ComesFrom
<1>2. DOMAIN r.proposals \subseteq Ids
  <2>1. r.nextId \in Nat /\ r.nextId <= MaxProposals + 1 /\ DOMAIN r.proposals \subseteq 1..(r.nextId - 1)
    BY StateType DEF StateOK
  <2> SUFFICES ASSUME NEW i \in DOMAIN r.proposals PROVE i \in Ids
    OBVIOUS
  <2>2. i \in 1..(r.nextId - 1)
    BY <2>1
  <2> QED
    BY <2>1, <2>2 DEF Ids, ProposalsAssumption
<1>3. s.proposals \in Maps(Proposal) /\ r.proposals \in Maps(Proposal)
  BY StateType
<1> QED
  BY <1>1, <1>2, <1>3, IndexMoves

\* The proposals of m are those of n with other approvals or another reason of failure.
Mild(m, n) ==
  /\ DOMAIN m = DOMAIN n
  /\ \A i \in DOMAIN n :
       /\ m[i].body = n[i].body /\ m[i].expires = n[i].expires /\ m[i].review = n[i].review
       /\ m[i].reqActive = n[i].reqActive /\ m[i].reqOwner = n[i].reqOwner

\* A state with mild changes is as sound as before.
LEMMA MildChange ==
  ASSUME NEW s \in States, NEW r \in States, StateOK(s),
         Mild(r.proposals, s.proposals), r.done = s.done, r.nextId = s.nextId
  PROVE  /\ StateOK(r) /\ ComesFrom(r, s)
         /\ \A fs, n, t : Standing(fs, n, s, t) => Standing(fs, n, r, t)
<1>1. s.nextId \in Nat /\ DOMAIN r.proposals = DOMAIN s.proposals
  BY StateType DEF Mild
<1>2. StateOK(r)
  BY <1>1 DEF StateOK, Mild
<1>3. ComesFrom(r, s)
  BY <1>1 DEF ComesFrom, Mild
<1>4. ASSUME NEW fs, NEW n, NEW t, Standing(fs, n, s, t) PROVE Standing(fs, n, r, t)
  <2>1. ASSUME NEW j \in 1..n PROVE Held(fs[j], r, t)
    <3>1. Held(fs[j], s, t)
      BY <1>4 DEF Standing
    <3> QED
      BY <3>1, <1>1 DEF Held, Mild
  <2> QED
    BY <1>1, <1>4, <2>1 DEF Standing
<1> QED
  BY <1>2, <1>3, <1>4

\* A state without a proposal that no session executes is as sound as before.
LEMMA LessProposal ==
  ASSUME NEW s \in States, NEW r \in States, StateOK(s), NEW q,
         r.proposals = Without(s.proposals, q), r.done = s.done, r.nextId = s.nextId
  PROVE  /\ StateOK(r) /\ ComesFrom(r, s)
         /\ \A t, ph : Timely(s, t, ph) => Timely(r, t, ph)
         /\ \A fs, n, t : Standing(fs, n, s, t) /\ (\A j \in 1..n : fs[j].kind # "tx" => fs[j].p # q)
                          => Standing(fs, n, r, t)
<1>1. /\ DOMAIN r.proposals = DOMAIN s.proposals \ {q}
      /\ \A i \in DOMAIN r.proposals : r.proposals[i] = s.proposals[i]
  BY DEF Without, Restrict
<1>2. s.nextId \in Nat
  BY StateType
<1>3. StateOK(r)
  BY <1>1 DEF StateOK
<1>4. ComesFrom(r, s)
  BY <1>1, <1>2 DEF ComesFrom
<1>5. \A t, ph : Timely(s, t, ph) => Timely(r, t, ph)
  BY <1>1 DEF Timely
<1>6. ASSUME NEW fs, NEW n, NEW t, Standing(fs, n, s, t), \A j \in 1..n : fs[j].kind # "tx" => fs[j].p # q
      PROVE  Standing(fs, n, r, t)
  <2>1. ASSUME NEW j \in 1..n PROVE Held(fs[j], r, t)
    <3>1. Held(fs[j], s, t) /\ (fs[j].kind # "tx" => fs[j].p # q)
      BY <1>6 DEF Standing
    <3> QED
      BY <3>1, <1>1 DEF Held
  <2> QED
    BY <1>1, <1>6, <2>1 DEF Standing
<1> QED
  BY <1>3, <1>4, <1>5, <1>6

-----------------------------------------------------------------------------
(* Proposals: sessions.                                                    *)

\* The first n sessions of gs are those of fs, perhaps further on.
Like(fs, gs, n) ==
  \A k \in 1..n : /\ gs[k].kind = fs[k].kind /\ gs[k].p = fs[k].p /\ gs[k].saved = fs[k].saved
                  /\ fs[k].pc <= gs[k].pc

\* What is known of sessions does not depend on those above them, nor on how far
\* they are.
LEMMA LikeStack ==
  ASSUME ProposalsAssumption, NEW fs \in Seq(Sessions), NEW gs \in Seq(Sessions), NEW n \in Nat,
         n <= Len(fs), n <= Len(gs), Like(fs, gs, n), NEW t, NEW ph
  PROVE  /\ \A s \in States : \A k \in 0..n : Standing(fs, k, s, t) => Standing(gs, k, s, t)
         /\ \A k \in 1..n : Nested(fs, k, t, ph) => Nested(gs, k, t, ph)
<1>1. ASSUME NEW s \in States, NEW k \in 0..n, Standing(fs, k, s, t) PROVE Standing(gs, k, s, t)
  <2>1. ASSUME NEW j \in 1..k PROVE Held(gs[j], s, t)
    <3>1. j \in 1..n /\ j \in 1..Len(fs) /\ j \in 1..Len(gs)
      OBVIOUS
    <3>2. fs[j] \in Sessions /\ gs[j] \in Sessions
      BY <3>1
    <3>3. fs[j].pc \in Nat /\ gs[j].pc \in Nat
      BY <3>2 DEF Sessions
    <3>4. Held(fs[j], s, t)
      BY <1>1 DEF Standing
    <3>5. gs[j].kind = fs[j].kind /\ gs[j].p = fs[j].p /\ fs[j].pc <= gs[j].pc
      BY <3>1 DEF Like
    <3>6. ASSUME gs[j].kind # "tx" PROVE DOMAIN s.proposals[gs[j].p].body \subseteq Nat
      <4>1. gs[j].p \in DOMAIN s.proposals
        BY <3>4, <3>5, <3>6 DEF Held
      <4>2. s.proposals \in Maps(Proposal)
        BY StateType
      <4>3. s.proposals[gs[j].p].body \in Bodies
        BY <4>1, <4>2, ProposalType
      <4> QED
        BY <4>3, BodyType
    <3>7. CASE gs[j].kind # "tx" /\ s.done[gs[j].p] = 1
      <4> DEFINE b == s.proposals[gs[j].p].body
      <4>1. PICK k1 \in DOMAIN b : k1 < fs[j].pc /\ b[k1].kind \in Acts
        BY <3>4, <3>5, <3>7 DEF Held
      <4>2. k1 \in Nat
        BY <3>6, <3>7
      <4>3. k1 < gs[j].pc
        BY <3>3, <3>5, <4>1, <4>2
      <4> QED
        BY <3>4, <3>5, <4>1, <4>3 DEF Held
    <3> QED
      BY <3>4, <3>5, <3>7 DEF Held
  <2>2. ASSUME NEW i \in DOMAIN s.proposals, \A j \in 1..k : gs[j].p # i PROVE s.done[i] = 0
    <3>1. \A j \in 1..k : fs[j].p # i
      BY <2>2 DEF Like
    <3> QED
      BY <1>1, <3>1 DEF Standing
  <2> QED
    BY <2>1, <2>2 DEF Standing
<1>2. ASSUME NEW k \in 1..n, Nested(fs, k, t, ph) PROVE Nested(gs, k, t, ph)
  <2>1. gs[k].kind = fs[k].kind /\ gs[k].p = fs[k].p /\ gs[k].saved = fs[k].saved
    BY DEF Like
  <2>2. ASSUME k > 1 PROVE /\ gs[k - 1].kind = fs[k - 1].kind /\ gs[k - 1].p = fs[k - 1].p
                           /\ gs[k - 1].saved = fs[k - 1].saved
    <3>1. k - 1 \in 1..n
      BY <2>2
    <3> QED
      BY <3>1 DEF Like
  <2>4. \A j \in 1..(k - 1) : gs[j].kind # "tx" => gs[k].p < gs[j].p
    <3>1. \A j \in 1..(k - 1) : j \in 1..n
      OBVIOUS
    <3> QED
      BY <1>2, <2>1, <3>1 DEF Like, Nested
  <2>3. Standing(gs, k - 1, gs[k].saved, t)
    <3>1. k - 1 \in 0..n /\ k \in 1..Len(fs)
      OBVIOUS
    <3>2. fs[k] \in Sessions
      BY <3>1
    <3>3. fs[k].saved \in States
      BY <3>2 DEF Sessions
    <3>4. Standing(fs, k - 1, fs[k].saved, t)
      BY <1>2 DEF Nested
    <3> QED
      BY <1>1, <2>1, <3>1, <3>3, <3>4
  <2> QED
    BY <1>2, <2>1, <2>2, <2>3, <2>4 DEF Nested
<1> QED
  BY <1>1, <1>2

\* The sessions with the operation of the innermost one passed.
Adv(fs) == [fs EXCEPT ![Len(fs)].pc = @ + 1]

\* What passing an operation changes of the sessions.
LEMMA AdvanceOf ==
  ASSUME NEW fs \in Seq(Sessions), fs # <<>>
  PROVE  /\ Adv(fs) \in Seq(Sessions) /\ Len(Adv(fs)) = Len(fs) /\ Len(fs) \in Nat \ {0}
         /\ Like(fs, Adv(fs), Len(fs)) /\ Adv(fs) # <<>>
         /\ Adv(fs)[Len(fs)].pc = fs[Len(fs)].pc + 1
<1>1. Len(fs) \in Nat \ {0} /\ DOMAIN fs = 1..Len(fs)
  OBVIOUS
<1> DEFINE n == Len(fs)
           f == fs[n]
           g == [f EXCEPT !.pc = @ + 1]
<1>2. f \in Sessions
  BY <1>1
<1>3. g \in Sessions /\ g.kind = f.kind /\ g.p = f.p /\ g.saved = f.saved /\ g.pc = f.pc + 1 /\ f.pc \in Nat
  <2>1. ASSUME NEW h \in Sessions
        PROVE  LET e == [h EXCEPT !.pc = @ + 1]
               IN /\ e \in Sessions /\ e.kind = h.kind /\ e.p = h.p /\ e.saved = h.saved
                  /\ e.pc = h.pc + 1 /\ h.pc \in Nat
    BY DEF Sessions
  <2> HIDE DEF f
  <2> QED
    BY <1>2, <2>1
<1>4. Adv(fs) = [fs EXCEPT ![n] = g] /\ n = Len(fs)
  BY DEF Adv
<1> HIDE DEF g, n
<1>5. Adv(fs) \in Seq(Sessions) /\ Len(Adv(fs)) = n
  BY <1>1, <1>3, <1>4
<1>6. Adv(fs)[n] = g /\ \A k \in 1..n : k # n => Adv(fs)[k] = fs[k]
  <2>1. n \in DOMAIN fs /\ DOMAIN fs = 1..n
    BY <1>1, <1>4
  <2> HIDE DEF Adv
  <2> QED
    BY <1>4, <2>1
<1> USE DEF n
<1>7. \A k \in 1..n : fs[k].pc \in Nat
  <2>1. \A k \in 1..n : fs[k] \in Sessions
    BY <1>1
  <2> QED
    BY <2>1 DEF Sessions
<1>8. Like(fs, Adv(fs), n)
  <2> SUFFICES ASSUME NEW k \in 1..n
               PROVE  /\ Adv(fs)[k].kind = fs[k].kind /\ Adv(fs)[k].p = fs[k].p
                      /\ Adv(fs)[k].saved = fs[k].saved /\ fs[k].pc <= Adv(fs)[k].pc
    BY DEF Like
  <2>1. CASE k = n
    BY <2>1, <1>3, <1>6
  <2>2. CASE k # n
    BY <2>2, <1>6, <1>7
  <2> QED
    BY <2>1, <2>2
<1>9. Adv(fs) # <<>>
  BY <1>1, <1>5
<1> QED
  BY <1>1, <1>3, <1>5, <1>6, <1>8, <1>9

\* What the guarded sessions are.
LEMMA GuardedStack ==
  ASSUME NEW s, NEW idx, NEW fs, NEW t, NEW ph, Guarded(s, idx, fs, t, ph), fs # <<>>
  PROVE  /\ Len(fs) \in Nat \ {0} /\ fs[Len(fs)] \in Sessions /\ fs[Len(fs)].saved \in States
         /\ fs[Len(fs)].p \in Nat /\ fs[Len(fs)].pc \in Nat \ {0}
         /\ fs[Len(fs)].kind \in {"tx", "update", "expiry"}
         /\ Nested(fs, Len(fs), t, ph) /\ ComesFrom(s, fs[Len(fs)].saved) /\ Held(fs[Len(fs)], s, t)
         /\ fs[Len(fs)].kind = "tx" => Len(fs) = 1
         /\ \A j \in 1..(Len(fs) - 1) : /\ fs[j].kind # "tx" => fs[Len(fs)].p < fs[j].p
                                        /\ fs[j].kind = "tx" => fs[j].p = 0
<1>1. fs \in Seq(Sessions)
  BY DEF Guarded
<1>2. Len(fs) \in Nat \ {0}
  BY <1>1
<1>3. fs[Len(fs)] \in Sessions /\ Len(fs) \in 1..Len(fs)
  BY <1>1, <1>2
<1>4. Nested(fs, Len(fs), t, ph) /\ ComesFrom(s, fs[Len(fs)].saved)
  BY <1>3 DEF Guarded
<1>5. Held(fs[Len(fs)], s, t)
  BY <1>3 DEF Guarded, Standing
<1>6. fs[Len(fs)].kind = "tx" => Len(fs) = 1
  BY <1>4 DEF Nested
<1>7. ASSUME NEW j \in 1..(Len(fs) - 1)
      PROVE  /\ fs[j].kind # "tx" => fs[Len(fs)].p < fs[j].p
             /\ fs[j].kind = "tx" => fs[j].p = 0
  <2>1. j \in 1..Len(fs)
    BY <1>2
  <2>2. Nested(fs, j, t, ph)
    BY <2>1 DEF Guarded
  <2>3. fs[j].kind = "tx" => fs[j].p = 0
    BY <2>2 DEF Nested
  <2>4. fs[j].kind # "tx" => fs[Len(fs)].p < fs[j].p
    BY <1>4 DEF Nested
  <2> QED
    BY <2>3, <2>4
<1> QED
  BY <1>2, <1>3, <1>4, <1>5, <1>6, <1>7 DEF Sessions

-----------------------------------------------------------------------------
(* Proposals: what an operation, a new session and the end of one do.       *)

\* An operation of the innermost session changes the state to r.
LEMMA GuardedAdvance ==
  ASSUME ProposalsAssumption, NEW s, NEW idx, NEW fs, NEW t, NEW ph, Guarded(s, idx, fs, t, ph),
         fs # <<>>, NEW r \in States, StateOK(r), Timely(r, t, ph), ComesFrom(r, s),
         Standing(Adv(fs), Len(fs), r, t)
  PROVE  Guarded(r, IndexMove(idx, s.proposals, r.proposals), Adv(fs), t, ph)
<1> DEFINE gs == Adv(fs)
<1>1. s \in States /\ fs \in Seq(Sessions) /\ StateOK(s) /\ Tracks(idx, s.proposals)
  BY DEF Guarded
<1>2. /\ gs \in Seq(Sessions) /\ Len(gs) = Len(fs) /\ Len(fs) \in Nat \ {0}
      /\ Like(fs, gs, Len(fs)) /\ gs # <<>>
  BY <1>1, AdvanceOf
<1> HIDE DEF gs
<1>3. Len(gs) <= MaxNesting + 1
  BY <1>2 DEF Guarded
<1>4. ASSUME NEW k \in 1..Len(gs) PROVE Nested(gs, k, t, ph)
  <2>1. Nested(fs, k, t, ph)
    BY <1>2 DEF Guarded
  <2> QED
    BY <1>1, <1>2, <2>1, LikeStack
<1>5. ComesFrom(r, gs[Len(gs)].saved)
  <2>1. fs[Len(fs)].saved \in States /\ ComesFrom(s, fs[Len(fs)].saved)
    BY GuardedStack
  <2>2. ComesFrom(r, fs[Len(fs)].saved)
    BY <1>1, <2>1, ComesFromEarlier
  <2>3. Len(fs) \in 1..Len(fs)
    BY <1>2
  <2>4. gs[Len(fs)].saved = fs[Len(fs)].saved
    BY <1>2, <2>3 DEF Like
  <2> QED
    BY <1>2, <2>2, <2>4
<1>6. Tracks(IndexMove(idx, s.proposals, r.proposals), r.proposals)
  BY <1>1, IndexFollows
<1>7. Standing(gs, Len(gs), r, t)
  BY <1>2 DEF gs
<1> QED
  BY <1>2, <1>3, <1>4, <1>5, <1>6, <1>7 DEF Guarded, gs

\* A session is begun for a proposal that is older than those being executed.
LEMMA GuardedPush ==
  ASSUME ProposalsAssumption, NEW s, NEW idx, NEW fs, NEW t, NEW ph, Guarded(s, idx, fs, t, ph),
         fs # <<>>, Len(fs) <= MaxNesting, NEW q \in DOMAIN s.proposals, s.proposals[q].review = 0,
         fs[Len(fs)].kind # "tx" => q < fs[Len(fs)].p
  PROVE  Guarded(s, idx, Append(fs, Frame("update", q, s)), t, ph)
<1> DEFINE n == Len(fs)
           f == Frame("update", q, s)
           gs == Append(fs, f)
<1>1. s \in States /\ fs \in Seq(Sessions) /\ StateOK(s) /\ Tracks(idx, s.proposals) /\ Timely(s, t, ph)
  BY DEF Guarded
<1>2. q \in Nat \ {0}
  <2>1. q \in 1..(s.nextId - 1) /\ s.nextId \in Nat
    BY <1>1, StateType DEF StateOK
  <2> QED
    BY <2>1
<1>3. f \in Sessions /\ f.kind = "update" /\ f.p = q /\ f.saved = s
  BY <1>1, <1>2 DEF Frame, Sessions
<1>4. n \in Nat \ {0} /\ gs \in Seq(Sessions) /\ Len(gs) = n + 1 /\ gs[n + 1] = f
      /\ \A k \in 1..n : gs[k] = fs[k]
  <2> HIDE DEF f
  <2> QED
    BY <1>1, <1>3
<1> HIDE DEF f, gs
<1>5. Like(fs, gs, n)
  <2>1. \A k \in 1..n : fs[k] \in Sessions
    BY <1>1
  <2>2. \A k \in 1..n : fs[k].pc \in Nat
    BY <2>1 DEF Sessions
  <2> QED
    BY <1>4, <2>2 DEF Like
<1>6. Standing(gs, n, s, t)
  <2>1. Standing(fs, n, s, t)
    BY DEF Guarded
  <2>2. n \in 0..n /\ n <= Len(fs) /\ n <= Len(gs) /\ n \in Nat
    BY <1>4
  <2> QED
    BY <1>1, <1>4, <1>5, <2>1, <2>2, LikeStack
<1>7. ASSUME NEW j \in 1..n PROVE gs[j].p # q /\ (gs[j].kind # "tx" => q < gs[j].p)
  <2>1. gs[j] = fs[j] /\ fs[j] \in Sessions
    BY <1>1, <1>4
  <2>2. fs[j].p \in Nat
    BY <2>1 DEF Sessions
  <2>3. Nested(fs, j, t, ph)
    BY DEF Guarded
  <2>4. CASE j = n
    BY <2>1, <2>2, <2>3, <2>4, <1>2 DEF Nested
  <2>5. CASE j # n
    <3>1. j \in 1..(n - 1)
      BY <1>4, <2>5
    <3>2. /\ fs[j].kind # "tx" => fs[n].p < fs[j].p
          /\ fs[j].kind = "tx" => fs[j].p = 0
      BY <3>1, GuardedStack
    <3>3. fs[n].kind # "tx" /\ fs[n].p \in Nat
      BY <1>4, <3>1, GuardedStack
    <3> QED
      BY <1>2, <2>1, <2>2, <3>2, <3>3
  <2> QED
    BY <2>4, <2>5
<1>8. s.done[q] = 0
  BY <1>6, <1>7 DEF Standing
<1>9. Held(gs[n + 1], s, t)
  BY <1>3, <1>4, <1>8 DEF Held
<1>10. Standing(gs, n + 1, s, t)
  <2>1. ASSUME NEW j \in 1..(n + 1) PROVE Held(gs[j], s, t)
    <3>1. j \in 1..n \/ j = n + 1
      BY <1>4
    <3> QED
      BY <1>6, <1>9, <3>1 DEF Standing
  <2>2. \A j \in 1..n : j \in 1..(n + 1)
    BY <1>4
  <2> QED
    BY <1>6, <2>1, <2>2 DEF Standing
<1>11. ASSUME NEW k \in 1..(n + 1) PROVE Nested(gs, k, t, ph)
  <2>1. CASE k \in 1..n
    <3>1. Nested(fs, k, t, ph)
      BY <2>1 DEF Guarded
    <3> QED
      BY <1>1, <1>4, <1>5, <2>1, <3>1, LikeStack
  <2>2. CASE k = n + 1
    <3>1. ComesFrom(s, fs[n].saved)
      BY GuardedStack
    <3>2. ComesFrom(gs[k].saved, gs[k - 1].saved) /\ k - 1 = n
      BY <1>3, <1>4, <2>2, <3>1
    <3> QED
      BY <1>1, <1>3, <1>4, <1>6, <1>7, <2>2, <3>2 DEF Nested
  <2> QED
    BY <1>4, <2>1, <2>2
<1>12. ComesFrom(s, gs[n + 1].saved) /\ gs # <<>> /\ n + 1 <= MaxNesting + 1
  BY <1>1, <1>3, <1>4, ComesFromItself DEF ProposalsAssumption
<1> QED
  BY <1>1, <1>4, <1>10, <1>11, <1>12 DEF Guarded, gs, f

\* The innermost session ends in state r.
LEMMA GuardedPop ==
  ASSUME ProposalsAssumption, NEW s, NEW idx, NEW fs, NEW t, NEW ph, Guarded(s, idx, fs, t, ph),
         fs # <<>>, NEW r \in States, NEW jdx, StateOK(r), Timely(r, t, ph),
         ComesFrom(r, fs[Len(fs)].saved), Standing(fs, Len(fs) - 1, r, t), Tracks(jdx, r.proposals)
  PROVE  Guarded(r, jdx, Front(fs), t, ph)
<1> DEFINE n == Len(fs) - 1
           gs == Front(fs)
<1>1. fs \in Seq(Sessions) /\ Len(fs) <= MaxNesting + 1
  BY DEF Guarded
<1>2. /\ gs \in Seq(Sessions) /\ Len(gs) = n /\ n \in Nat /\ Len(fs) = n + 1
      /\ \A k \in 1..n : gs[k] = fs[k]
  BY <1>1, FrontOf
<1>3. \A k \in 1..n : k \in 1..Len(fs)
  BY <1>2
<1>4. Like(fs, gs, n)
  <2>1. \A k \in 1..n : fs[k] \in Sessions
    BY <1>1, <1>3
  <2>2. \A k \in 1..n : fs[k].pc \in Nat
    BY <2>1 DEF Sessions
  <2> QED
    BY <1>2, <2>2 DEF Like
<1> HIDE DEF gs
<1>5. Standing(gs, n, r, t)
  <2>1. n \in 0..n /\ n <= Len(fs) /\ n <= Len(gs) /\ Standing(fs, n, r, t)
    BY <1>2
  <2> HIDE DEF n
  <2>2. \A x \in States : \A k \in 0..n : Standing(fs, k, x, t) => Standing(gs, k, x, t)
    BY <1>1, <1>2, <1>4, <2>1, LikeStack
  <2> QED
    BY <2>1, <2>2
<1>6. ASSUME NEW k \in 1..n PROVE Nested(gs, k, t, ph)
  <2>1. Nested(fs, k, t, ph)
    BY <1>3 DEF Guarded
  <2>2. n <= Len(fs) /\ n <= Len(gs)
    BY <1>2
  <2> QED
    BY <1>1, <1>2, <1>4, <2>1, <2>2, LikeStack
<1>7. ASSUME gs # <<>> PROVE ComesFrom(r, gs[Len(gs)].saved)
  <2>1. n \in 1..n /\ Len(fs) > 1
    BY <1>2, <1>7
  <2>2. ComesFrom(fs[Len(fs)].saved, fs[n].saved) /\ fs[Len(fs)].saved \in States
    BY <2>1, GuardedStack DEF Nested
  <2>3. fs[n] \in Sessions
    BY <1>1, <1>3, <2>1
  <2>4. fs[n].saved \in States
    BY <2>3 DEF Sessions
  <2> QED
    BY <1>2, <2>1, <2>2, <2>4, ComesFromEarlier
<1>8. Len(gs) <= MaxNesting + 1
  BY <1>1, <1>2 DEF ProposalsAssumption
<1> QED
  BY <1>2, <1>5, <1>6, <1>7, <1>8 DEF Guarded, gs

-----------------------------------------------------------------------------
(* Proposals: the actions.                                                 *)

\* A state is made.
LEMMA MadeState ==
  ASSUME NEW m \in Maps(Proposal), NEW d \in [Ids -> Nat], NEW v \in SUBSET Ids, NEW n \in Nat \ {0}
  PROVE  LET r == [proposals |-> m, done |-> d, vetoed |-> v, nextId |-> n]
         IN r \in States /\ r.proposals = m /\ r.done = d /\ r.vetoed = v /\ r.nextId = n
BY DEF States

\* What the variables are.
LEMMA PNow ==
  ASSUME PInv
  PROVE  /\ Saved \in States /\ Saved.proposals = proposals /\ Saved.done = done
         /\ Saved.vetoed = vetoed /\ Saved.nextId = nextId
         /\ proposals \in Maps(Proposal) /\ done \in [Ids -> Nat]
         /\ vetoed \in SUBSET Ids /\ nextId \in Nat \ {0}
         /\ frames \in Seq(Sessions) /\ Len(frames) \in Nat /\ Len(frames) <= MaxNesting + 1
         /\ Guarded(Saved, index, frames, now, phase)
         /\ StateOK(Saved) /\ Timely(Saved, now, phase) /\ Standing(frames, Len(frames), Saved, now)
         /\ Tracks(index, proposals)
         /\ now \in Nat
<1>1. Saved.proposals = proposals /\ Saved.done = done /\ Saved.vetoed = vetoed /\ Saved.nextId = nextId
  BY DEF Saved
<1> HIDE DEF Saved
<1>2. Saved \in States /\ Guarded(Saved, index, frames, now, phase)
  BY DEF PInv, Guarded
<1>3. /\ proposals \in Maps(Proposal) /\ done \in [Ids -> Nat]
      /\ vetoed \in SUBSET Ids /\ nextId \in Nat \ {0}
  BY <1>1, <1>2, StateType
<1>4. now \in Nat
  BY DEF PInv
<1>5. frames \in Seq(Sessions) /\ Len(frames) \in Nat /\ Len(frames) <= MaxNesting + 1
  BY <1>2 DEF Guarded
<1> QED
  BY <1>1, <1>2, <1>3, <1>4, <1>5 DEF Guarded

\* The reason of a failure is written into a proposal.
LEMMA FailedMap ==
  ASSUME NEW m \in Maps(Proposal), NEW p
  PROVE  LET e == [m EXCEPT ![p].failed = TRUE]
         IN /\ e \in Maps(Proposal) /\ Mild(e, m)
            /\ \A i \in DOMAIN m : /\ e[i].active = m[i].active /\ e[i].owner = m[i].owner
                                   /\ e[i].frozen = m[i].frozen
<1> DEFINE e == [m EXCEPT ![p].failed = TRUE]
<1>1. m \in [DOMAIN m -> Proposal] /\ DOMAIN m \in SUBSET Nat
  BY MapType
<1>2. DOMAIN e = DOMAIN m
  OBVIOUS
<1>3. ASSUME NEW i \in DOMAIN m
      PROVE  /\ e[i] \in Proposal
             /\ e[i].body = m[i].body /\ e[i].expires = m[i].expires /\ e[i].review = m[i].review
             /\ e[i].reqActive = m[i].reqActive /\ e[i].reqOwner = m[i].reqOwner
             /\ e[i].active = m[i].active /\ e[i].owner = m[i].owner /\ e[i].frozen = m[i].frozen
  <2>1. m[i] \in Proposal
    BY <1>1
  <2>2. e[i] = IF i = p THEN [m[i] EXCEPT !.failed = TRUE] ELSE m[i]
    OBVIOUS
  <2> HIDE DEF e
  <2>3. ASSUME NEW x \in Proposal
        PROVE  LET y == [x EXCEPT !.failed = TRUE]
               IN /\ y \in Proposal
                  /\ y.body = x.body /\ y.expires = x.expires /\ y.review = x.review
                  /\ y.reqActive = x.reqActive /\ y.reqOwner = x.reqOwner
                  /\ y.active = x.active /\ y.owner = x.owner /\ y.frozen = x.frozen
    BY DEF Proposal
  <2> QED
    BY <2>1, <2>2, <2>3
<1>4. e \in [DOMAIN m -> Proposal]
  BY <1>2, <1>3
<1>5. e \in Maps(Proposal)
  <2> HIDE DEF e
  <2> QED
    BY <1>1, <1>4 DEF Maps
<1> HIDE DEF e
<1>6. Mild(e, m)
  BY <1>2, <1>3 DEF Mild
<1> QED
  BY <1>3, <1>5, <1>6 DEF e

\* A map without one of its proposals.
LEMMA WithoutMap ==
  ASSUME NEW m \in Maps(Proposal), NEW p
  PROVE  /\ Without(m, p) \in Maps(Proposal) /\ DOMAIN Without(m, p) = DOMAIN m \ {p}
         /\ \A i \in DOMAIN m \ {p} : Without(m, p)[i] = m[i]
<1>1. m \in [DOMAIN m -> Proposal] /\ DOMAIN m \in SUBSET Nat
  BY MapType
<1>2. DOMAIN Without(m, p) = DOMAIN m \ {p} /\ \A i \in DOMAIN m \ {p} : Without(m, p)[i] = m[i]
  BY DEF Without, Restrict
<1>3. Without(m, p) \in [DOMAIN m \ {p} -> Proposal]
  BY <1>1 DEF Without, Restrict
<1>4. DOMAIN m \ {p} \in SUBSET Nat
  BY <1>1
<1> QED
  BY <1>2, <1>3, <1>4 DEF Maps

\* What the next state of the variables saves.
LEMMA SavedNext ==
  Saved' = [proposals |-> proposals', done |-> done', vetoed |-> vetoed', nextId |-> nextId']
BY DEF Saved

\* An exception leaves the innermost session: what it restores is sound.
LEMMA ThrowKeeps ==
  ASSUME ProposalsAssumption, PInv, frames # <<>>, Throw
  PROVE  Guarded(Saved', index', frames', now, phase)
<1> DEFINE f == frames[Len(frames)]
           s == f.saved
<1>1. Top = f
  BY PNow, FrontOf DEF Top
<1>2. /\ Len(frames) \in Nat \ {0} /\ s \in States /\ Nested(frames, Len(frames), now, phase)
      /\ f.kind \in {"tx", "update", "expiry"} /\ ComesFrom(Saved, s)
  BY PNow, GuardedStack
<1>3. /\ StateOK(s) /\ Timely(s, now, phase) /\ Standing(frames, Len(frames) - 1, s, now)
      /\ f.kind = "expiry" => Len(frames) = 1
  BY <1>2 DEF Nested
<1>4. /\ s.proposals \in Maps(Proposal) /\ s.done \in [Ids -> Nat] /\ s.vetoed \in SUBSET Ids
      /\ s.nextId \in Nat \ {0}
  BY <1>2, StateType
<1>5. /\ done' = s.done /\ vetoed' = s.vetoed /\ nextId' = s.nextId /\ frames' = Front(frames)
      /\ index' = IndexMove(index, proposals, proposals')
      /\ f.kind = "tx" => proposals' = s.proposals
      /\ f.kind = "update" => proposals' = [s.proposals EXCEPT ![f.p].failed = TRUE]
      /\ f.kind = "expiry" => proposals' = Without(s.proposals, f.p)
  BY <1>1 DEF Throw, SetProposals
<1> PICK r : r = Saved'
  OBVIOUS
<1> HIDE DEF s, f
<1>6. /\ proposals' \in Maps(Proposal)
      /\ r.proposals = proposals' /\ r.done = s.done /\ r.vetoed = s.vetoed /\ r.nextId = s.nextId
      /\ r \in States /\ StateOK(r) /\ Timely(r, now, phase) /\ ComesFrom(r, s)
      /\ Standing(frames, Len(frames) - 1, r, now)
  <2>1. ASSUME proposals' \in Maps(Proposal)
        PROVE  /\ r \in States /\ r.proposals = proposals' /\ r.done = s.done /\ r.vetoed = s.vetoed
               /\ r.nextId = s.nextId
    BY <1>4, <1>5, <2>1, SavedNext, MadeState
  <2>2. CASE f.kind = "tx"
    <3>1. proposals' = s.proposals
      BY <1>5, <2>2
    <3>2. Mild(s.proposals, s.proposals)
      BY DEF Mild
    <3>3. Timely(r, now, phase)
      BY <1>3, <1>4, <2>1, <3>1 DEF Timely
    <3> QED
      BY <1>2, <1>3, <1>4, <2>1, <3>1, <3>2, <3>3, MildChange
  <2>3. CASE f.kind = "update"
    <3> DEFINE e == [s.proposals EXCEPT ![f.p].failed = TRUE]
    <3>1. proposals' = e
      BY <1>5, <2>3
    <3>2. /\ e \in Maps(Proposal) /\ Mild(e, s.proposals)
          /\ \A i \in DOMAIN s.proposals : /\ e[i].active = s.proposals[i].active
                                           /\ e[i].owner = s.proposals[i].owner
                                           /\ e[i].frozen = s.proposals[i].frozen
      BY <1>4, FailedMap
    <3> HIDE DEF e
    <3>3. Timely(r, now, phase)
      BY <1>3, <2>1, <3>1, <3>2 DEF Timely, Mild
    <3> QED
      BY <1>2, <1>3, <2>1, <3>1, <3>2, <3>3, MildChange
  <2>4. CASE f.kind = "expiry"
    <3>0. Without(s.proposals, f.p) \in Maps(Proposal)
      BY <1>4, WithoutMap
    <3>1. proposals' = Without(s.proposals, f.p) /\ proposals' \in Maps(Proposal)
      BY <1>5, <2>4, <3>0
    <3>2. \A j \in 1..(Len(frames) - 1) : frames[j].kind # "tx" => frames[j].p # f.p
      <4>1. Len(frames) = 1
        BY <1>3, <2>4
      <4>2. 1..(Len(frames) - 1) = {}
        BY <4>1
      <4> QED
        BY <4>2
    <3> QED
      BY <1>2, <1>3, <2>1, <3>1, <3>2, LessProposal
  <2> QED
    BY <1>2, <2>2, <2>3, <2>4
<1>7. Tracks(index', r.proposals)
  <2>1. ASSUME NEW i \in DOMAIN proposals \cap DOMAIN r.proposals
        PROVE  /\ proposals[i].reqActive = r.proposals[i].reqActive
               /\ proposals[i].reqOwner = r.proposals[i].reqOwner
    <3>1. i \in 1..(r.nextId - 1) /\ r.nextId \in Nat
      BY <1>4, <1>6 DEF StateOK
    <3>2. i < s.nextId
      BY <1>6, <3>1
    <3>3. ComesFrom(Saved, s) /\ Saved.proposals = proposals
      BY <1>2, PNow
    <3> QED
      BY <1>6, <3>2, <3>3 DEF ComesFrom
  <2>2. DOMAIN r.proposals \subseteq Ids
    <3>1. DOMAIN r.proposals \subseteq 1..(r.nextId - 1) /\ r.nextId \in Nat /\ r.nextId <= MaxProposals + 1
      BY <1>4, <1>6 DEF StateOK
    <3> QED
      BY <3>1 DEF Ids, ProposalsAssumption
  <2> QED
    BY <1>5, <1>6, <2>1, <2>2, PNow, IndexMoves
<1> QED
  BY <1>2, <1>5, <1>6, <1>7, PNow, GuardedPop DEF s, f

\* A set of approvals of a proposal is replaced.
LEMMA FieldChange ==
  ASSUME NEW x \in Proposal, NEW f \in Fields, NEW S \in People
  PROVE  LET y == [x EXCEPT ![f] = S]
         IN /\ y \in Proposal
            /\ y.body = x.body /\ y.expires = x.expires /\ y.review = x.review
            /\ y.reqActive = x.reqActive /\ y.reqOwner = x.reqOwner /\ y.frozen = x.frozen
            /\ y.active = IF f = "active" THEN S ELSE x.active
            /\ y.owner = IF f = "owner" THEN S ELSE x.owner
<1>1. CASE f = "active"
  BY <1>1 DEF Proposal
<1>2. CASE f = "owner"
  BY <1>2 DEF Proposal
<1>3. CASE f = "keys"
  BY <1>3 DEF Proposal
<1> QED
  BY <1>1, <1>2, <1>3 DEF Fields

\* Approvals are added and removed; in the review period none of an account is added.
LEMMA ApprovedMap ==
  ASSUME ProposalsAssumption, PInv, NEW q \in DOMAIN proposals, NEW f \in Fields,
         NEW add \in People, NEW remove \in People, UpdateAllowed(q, f, add, remove)
  PROVE  LET to == Approved(q, f, add, remove)
         IN /\ to \in Maps(Proposal) /\ Mild(to, proposals)
            /\ \A i \in DOMAIN proposals :
                 /\ to[i].frozen = proposals[i].frozen
                 /\ InReview(proposals[i]) =>
                      to[i].active \cup to[i].owner \subseteq proposals[i].active \cup proposals[i].owner
<1> DEFINE x == proposals[q]
           S == (x[f] \cup add) \ remove
           to == Approved(q, f, add, remove)
<1>1. proposals \in [DOMAIN proposals -> Proposal] /\ DOMAIN proposals \in SUBSET Nat
  BY PNow, MapType
<1>2. x \in Proposal /\ x.active \in People /\ x.owner \in People
      /\ x["active"] = x.active /\ x["owner"] = x.owner /\ x["keys"] \in People
  BY PNow, ProposalType
<1>3. x[f] \in People
  BY <1>2 DEF Fields
<1>4. S \in People
  BY <1>3 DEF People
<1>5. to = [proposals EXCEPT ![q] = [x EXCEPT ![f] = S]]
  BY DEF Approved
<1>6. InReview(x) /\ f # "keys" => add = {}
  BY DEF UpdateAllowed
<1> DEFINE y == [x EXCEPT ![f] = S]
<1>7. /\ y \in Proposal
      /\ y.body = x.body /\ y.expires = x.expires /\ y.review = x.review
      /\ y.reqActive = x.reqActive /\ y.reqOwner = x.reqOwner /\ y.frozen = x.frozen
      /\ y.active = IF f = "active" THEN S ELSE x.active
      /\ y.owner = IF f = "owner" THEN S ELSE x.owner
  <2> HIDE DEF x, S
  <2> QED
    BY <1>2, <1>4, FieldChange
<1>8. InReview(x) => y.active \cup y.owner \subseteq x.active \cup x.owner
  <2> SUFFICES ASSUME InReview(x) PROVE y.active \cup y.owner \subseteq x.active \cup x.owner
    OBVIOUS
  <2>1. CASE f = "active"
    <3>1. y.active = S /\ y.owner = x.owner /\ add = {} /\ S = (x.active \cup add) \ remove
      BY <1>2, <1>6, <1>7, <2>1
    <3> HIDE DEF S, x, y
    <3> QED
      BY <3>1
  <2>2. CASE f = "owner"
    <3>1. y.active = x.active /\ y.owner = S /\ add = {} /\ S = (x.owner \cup add) \ remove
      BY <1>2, <1>6, <1>7, <2>2
    <3> HIDE DEF S, x, y
    <3> QED
      BY <3>1
  <2>3. CASE f = "keys"
    <3>1. y.active = x.active /\ y.owner = x.owner
      BY <1>7, <2>3
    <3> HIDE DEF x, y
    <3> QED
      BY <3>1
  <2> QED
    BY <2>1, <2>2, <2>3 DEF Fields
<1> HIDE DEF y, S, to
<1>9. DOMAIN to = DOMAIN proposals /\ \A i \in DOMAIN proposals : to[i] = IF i = q THEN y ELSE proposals[i]
  BY <1>1, <1>5 DEF y
<1>10. to \in Maps(Proposal)
  <2>1. to \in [DOMAIN proposals -> Proposal]
    BY <1>1, <1>5, <1>7 DEF y
  <2> QED
    BY <1>1, <2>1 DEF Maps
<1>11. Mild(to, proposals)
  BY <1>7, <1>9 DEF Mild
<1>12. ASSUME NEW i \in DOMAIN proposals
       PROVE  /\ to[i].frozen = proposals[i].frozen
              /\ InReview(proposals[i]) =>
                   to[i].active \cup to[i].owner \subseteq proposals[i].active \cup proposals[i].owner
  BY <1>7, <1>8, <1>9
<1> QED
  BY <1>10, <1>11, <1>12 DEF to

\* With the proposals changed mildly and no approvals added under review, the state
\* is sound and comes from the one before.
LEMMA MildStep ==
  ASSUME ProposalsAssumption, PInv, NEW m \in Maps(Proposal), Mild(m, proposals),
         \A i \in DOMAIN proposals :
           /\ m[i].frozen = proposals[i].frozen
           /\ InReview(proposals[i]) =>
                m[i].active \cup m[i].owner \subseteq proposals[i].active \cup proposals[i].owner
  PROVE  LET r == [Saved EXCEPT !.proposals = m]
         IN /\ r = [proposals |-> m, done |-> done, vetoed |-> vetoed, nextId |-> nextId]
            /\ r \in States /\ r.proposals = m /\ StateOK(r) /\ Timely(r, now, phase) /\ ComesFrom(r, Saved)
            /\ Standing(frames, Len(frames), r, now)
<1> DEFINE r == [proposals |-> m, done |-> done, vetoed |-> vetoed, nextId |-> nextId]
<1>1. [Saved EXCEPT !.proposals = m] = r
  BY DEF Saved
<1>2. r \in States /\ r.proposals = m /\ r.done = done /\ r.vetoed = vetoed /\ r.nextId = nextId
  BY PNow, MadeState
<1> HIDE DEF r
<1>3. /\ StateOK(r) /\ ComesFrom(r, Saved)
      /\ \A fs, n, t : Standing(fs, n, Saved, t) => Standing(fs, n, r, t)
  BY <1>2, PNow, MildChange
<1>4. Timely(r, now, phase)
  <2>1. Timely(Saved, now, phase) /\ Saved.proposals = proposals
    BY PNow
  <2>2. \A i \in DOMAIN proposals : InReview(proposals[i]) =>
          proposals[i].active \cup proposals[i].owner \subseteq proposals[i].frozen.accounts
    BY <2>1 DEF Timely, InReview
  <2>3. ASSUME NEW i \in DOMAIN m, m[i].review # 0, now >= m[i].review
        PROVE  m[i].active \cup m[i].owner \subseteq m[i].frozen.accounts
    <3>1. i \in DOMAIN proposals /\ InReview(proposals[i]) /\ m[i].frozen = proposals[i].frozen
      BY <2>3 DEF Mild, InReview
    <3> QED
      BY <2>2, <3>1
  <2>4. ASSUME NEW i \in DOMAIN m, phase = "idle" PROVE m[i].expires > now
    BY <2>1, <2>4 DEF Timely, Mild
  <2> QED
    BY <1>2, <2>3, <2>4 DEF Timely
<1> QED
  BY <1>1, <1>2, <1>3, <1>4, PNow DEF r

\* The innermost session.
LEMMA TopIs ==
  ASSUME PInv, frames # <<>>
  PROVE  /\ Top = frames[Len(frames)] /\ Advanced = Adv(frames) /\ Len(frames) \in Nat \ {0}
         /\ Top.p \in Nat /\ Top.pc \in Nat \ {0}
         /\ Top.kind = "tx" => Len(frames) = 1 /\ Top.p = 0
         /\ \A j \in 1..(Len(frames) - 1) : /\ frames[j].kind # "tx" => Top.p < frames[j].p
                                            /\ frames[j].kind = "tx" => frames[j].p = 0
<1>1. Top = frames[Len(frames)] /\ Len(frames) \in Nat \ {0}
  BY PNow, FrontOf DEF Top
<1>2. Nested(frames, Len(frames), now, phase)
  BY PNow, GuardedStack
<1>3. Top.kind = "tx" => Len(frames) = 1 /\ Top.p = 0
  BY <1>1, <1>2 DEF Nested
<1> QED
  BY <1>1, <1>3, PNow, GuardedStack DEF Advanced, Adv

\* A proposal that is older than the one being executed is executed by no session.
LEMMA OlderIsFree ==
  ASSUME PInv, frames # <<>>, NEW q \in DOMAIN proposals, Top.kind # "tx" => q < Top.p
  PROVE  \A j \in 1..Len(frames) : frames[j].p # q
<1>1. q \in Nat \ {0}
  <2>1. q \in 1..(nextId - 1) /\ nextId \in Nat
    BY PNow DEF StateOK
  <2> QED
    BY <2>1
<1> SUFFICES ASSUME NEW j \in 1..Len(frames), frames[j].p = q PROVE FALSE
  OBVIOUS
<1>2. Len(frames) \in Nat \ {0} /\ Top.p \in Nat
  BY TopIs
<1>3. CASE j = Len(frames)
  BY <1>1, <1>2, <1>3, TopIs
<1>4. CASE j # Len(frames)
  <2>1. j \in 1..(Len(frames) - 1) /\ Len(frames) # 1
    <3>1. ASSUME NEW n \in Nat, NEW k \in 1..n, k # n PROVE k \in 1..(n - 1) /\ n # 1
      BY <3>1
    <3> QED
      BY <1>2, <1>4, <3>1
  <2>2. Top.kind # "tx"
    BY <2>1, TopIs
  <2>3. (frames[j].kind # "tx" => Top.p < q) /\ (frames[j].kind = "tx" => q = 0)
    BY <2>1, TopIs
  <2> QED
    BY <1>1, <1>2, <2>2, <2>3
<1> QED
  BY <1>3, <1>4

\* As long as the counter is below its limit there is room for a session.
LEMMA DepthBounds ==
  ASSUME ProposalsAssumption, PInv, frames # <<>>, ~(NestingDepth >= MaxNesting)
  PROVE  Len(frames) <= MaxNesting
<1> DEFINE D == {k \in DOMAIN frames : frames[k].kind # "tx"}
           n == Len(frames)
<1>1. n \in Nat \ {0} /\ DOMAIN frames = 1..n /\ MaxNesting \in Nat
  BY PNow, TopIs DEF ProposalsAssumption
<1>2. ASSUME NEW k \in 2..n PROVE k \in D
  <2>1. k \in 1..n /\ k # 1
    BY <1>1
  <2>2. Nested(frames, k, now, phase)
    BY <2>1, PNow DEF Guarded
  <2> QED
    BY <1>1, <2>1, <2>2 DEF Nested
<1>3. IsFiniteSet(1..n) /\ IsFiniteSet(2..n) /\ Cardinality(2..n) = n - 1
  BY <1>1, FS_Interval
<1> HIDE DEF n
<1>4. D \subseteq 1..n
  BY <1>1
<1>5. IsFiniteSet(D) /\ Cardinality(2..n) <= Cardinality(D) /\ Cardinality(D) \in Nat
  <2>1. IsFiniteSet(D)
    BY <1>3, <1>4, FS_Subset
  <2>2. 2..n \subseteq D
    BY <1>2
  <2> HIDE DEF D
  <2> QED
    BY <2>1, <2>2, FS_Subset, FS_CardinalityType
<1>6. ~(Cardinality(D) >= MaxNesting)
  BY DEF NestingDepth
<1> HIDE DEF D
<1>7. n <= MaxNesting
  BY <1>1, <1>3, <1>5, <1>6
<1> QED
  BY <1>7 DEF n

\* Approvals change, and the proposal may begin to execute (proposal_update_evaluator).
LEMMA UpdateKeeps ==
  ASSUME ProposalsAssumption, PInv, frames # <<>>, NEW q \in DOMAIN proposals, NEW f \in Fields,
         NEW add \in People, NEW remove \in People,
         UpdateAllowed(q, f, add, remove), Update(q, f, add, remove), Top.kind # "tx" => q < Top.p
  PROVE  Guarded(Saved', index', frames', now, phase)
<1> DEFINE to == Approved(q, f, add, remove)
           failed == [to EXCEPT ![q].failed = TRUE]
           run == to[q].review = 0 /\ is_authorized_to_execute(to[q])
           deep == NestingDepth >= MaxNesting
           After_(m) == [Saved EXCEPT !.proposals = m]
<1>1. /\ to \in Maps(Proposal) /\ Mild(to, proposals)
      /\ \A i \in DOMAIN proposals :
           /\ to[i].frozen = proposals[i].frozen
           /\ InReview(proposals[i]) =>
                to[i].active \cup to[i].owner \subseteq proposals[i].active \cup proposals[i].owner
  BY ApprovedMap
<1>2. /\ proposals' = IF run /\ deep THEN failed ELSE to
      /\ index' = IndexMove(index, proposals, proposals')
      /\ frames' = IF run /\ ~deep THEN Append(Adv(frames), Frame("update", q, After_(to))) ELSE Adv(frames)
      /\ done' = done /\ vetoed' = vetoed /\ nextId' = nextId
  BY TopIs DEF Update, SetProposals
<1> HIDE DEF to
<1>3. /\ failed \in Maps(Proposal) /\ Mild(failed, to)
      /\ \A i \in DOMAIN to : /\ failed[i].active = to[i].active /\ failed[i].owner = to[i].owner
                              /\ failed[i].frozen = to[i].frozen
  BY <1>1, FailedMap
<1> HIDE DEF failed
<1>4. /\ Mild(failed, proposals)
      /\ \A i \in DOMAIN proposals :
           /\ failed[i].frozen = proposals[i].frozen
           /\ InReview(proposals[i]) =>
                failed[i].active \cup failed[i].owner \subseteq proposals[i].active \cup proposals[i].owner
  BY <1>1, <1>3 DEF Mild
<1>5. ASSUME NEW m \in Maps(Proposal), Mild(m, proposals),
             \A i \in DOMAIN proposals :
               /\ m[i].frozen = proposals[i].frozen
               /\ InReview(proposals[i]) =>
                    m[i].active \cup m[i].owner \subseteq proposals[i].active \cup proposals[i].owner
      PROVE  /\ After_(m) \in States /\ After_(m).proposals = m
             /\ After_(m) = [proposals |-> m, done |-> done, vetoed |-> vetoed, nextId |-> nextId]
             /\ Guarded(After_(m), IndexMove(index, proposals, m), Adv(frames), now, phase)
  <2> PICK r : r = After_(m)
    OBVIOUS
  <2>1. /\ r = [proposals |-> m, done |-> done, vetoed |-> vetoed, nextId |-> nextId]
        /\ r \in States /\ r.proposals = m /\ StateOK(r) /\ Timely(r, now, phase) /\ ComesFrom(r, Saved)
        /\ Standing(frames, Len(frames), r, now)
    BY <1>5, MildStep
  <2>2. Standing(Adv(frames), Len(frames), r, now)
    <3>1. /\ Adv(frames) \in Seq(Sessions) /\ Len(Adv(frames)) = Len(frames) /\ Len(frames) \in Nat \ {0}
          /\ Like(frames, Adv(frames), Len(frames)) /\ frames \in Seq(Sessions)
      BY PNow, AdvanceOf
    <3>2. Len(frames) \in 0..Len(frames) /\ Len(frames) <= Len(frames)
      BY <3>1
    <3> QED
      BY <2>1, <3>1, <3>2, LikeStack
  <2>3. Guarded(r, IndexMove(index, Saved.proposals, r.proposals), Adv(frames), now, phase)
    BY <2>1, <2>2, PNow, GuardedAdvance
  <2> QED
    BY <2>1, <2>3, PNow
<1>6. CASE run /\ ~deep
  <2> PICK r : r = After_(to)
    OBVIOUS
  <2>1. /\ r \in States /\ r.proposals = to
        /\ r = [proposals |-> to, done |-> done, vetoed |-> vetoed, nextId |-> nextId]
        /\ Guarded(r, IndexMove(index, proposals, to), Adv(frames), now, phase)
    BY <1>1, <1>5
  <2>2. Saved' = r /\ index' = IndexMove(index, proposals, to)
        /\ frames' = Append(Adv(frames), Frame("update", q, r))
    BY <1>2, <1>6, <2>1, SavedNext
  <2>3. /\ Adv(frames) # <<>> /\ Len(Adv(frames)) = Len(frames) /\ Like(frames, Adv(frames), Len(frames))
        /\ Len(frames) \in 1..Len(frames)
    BY PNow, AdvanceOf
  <2>4. Len(Adv(frames)) <= MaxNesting
    BY <1>6, <2>3, DepthBounds
  <2>5. q \in DOMAIN r.proposals /\ r.proposals[q].review = 0
    BY <1>1, <1>6, <2>1 DEF Mild
  <2>6. Adv(frames)[Len(Adv(frames))].kind # "tx" => q < Adv(frames)[Len(Adv(frames))].p
    BY <2>3, TopIs DEF Like
  <2> HIDE DEF run, deep
  <2>7. Guarded(r, IndexMove(index, proposals, to), Append(Adv(frames), Frame("update", q, r)), now, phase)
    BY <2>1, <2>3, <2>4, <2>5, <2>6, GuardedPush
  <2> QED
    BY <2>2, <2>7
<1>7. CASE run /\ deep
  <2> PICK r : r = After_(failed)
    OBVIOUS
  <2>1. /\ r = [proposals |-> failed, done |-> done, vetoed |-> vetoed, nextId |-> nextId]
        /\ Guarded(r, IndexMove(index, proposals, failed), Adv(frames), now, phase)
    BY <1>3, <1>4, <1>5
  <2>2. Saved' = r /\ index' = IndexMove(index, proposals, failed) /\ frames' = Adv(frames)
    BY <1>2, <1>7, <2>1, SavedNext
  <2> QED
    BY <2>1, <2>2
<1>8. CASE ~run
  <2> PICK r : r = After_(to)
    OBVIOUS
  <2>1. /\ r = [proposals |-> to, done |-> done, vetoed |-> vetoed, nextId |-> nextId]
        /\ Guarded(r, IndexMove(index, proposals, to), Adv(frames), now, phase)
    BY <1>1, <1>5
  <2>2. Saved' = r /\ index' = IndexMove(index, proposals, to) /\ frames' = Adv(frames)
    BY <1>2, <1>8, <2>1, SavedNext
  <2> QED
    BY <2>1, <2>2
<1> QED
  BY <1>6, <1>7, <1>8

\* The sessions are further on.
LEMMA StandsAdvanced ==
  ASSUME ProposalsAssumption, PInv, frames # <<>>, NEW r \in States, NEW t,
         Standing(frames, Len(frames), r, t)
  PROVE  Standing(Adv(frames), Len(frames), r, t)
<1>1. /\ Adv(frames) \in Seq(Sessions) /\ Len(Adv(frames)) = Len(frames) /\ Len(frames) \in Nat \ {0}
      /\ Like(frames, Adv(frames), Len(frames)) /\ frames \in Seq(Sessions)
  BY PNow, AdvanceOf
<1>2. Len(frames) \in 0..Len(frames) /\ Len(frames) <= Len(frames)
  BY <1>1
<1> QED
  BY <1>1, <1>2, LikeStack

\* Nothing moves in the index when no proposal changes.
LEMMA IndexStill ==
  ASSUME NEW idx, NEW m
  PROVE  IndexMove(idx, m, m) = idx
<1>1. DOMAIN m \ DOMAIN m = {}
  OBVIOUS
<1>2. \A f : UNION {{<<a, i>> : a \in m[i][f] \ m[i][f]} : i \in DOMAIN m \cap DOMAIN m} = {}
  OBVIOUS
<1>3. UNION {{<<a, i>> : a \in Parties(m[i])} : i \in DOMAIN m \ DOMAIN m} = {}
  BY <1>1
<1>4. {x \in idx : x[2] \notin DOMAIN m \ DOMAIN m} = idx
  BY <1>1
<1> QED
  BY <1>2, <1>3, <1>4 DEF IndexMove

\* A proposal is deleted that no session executes (proposal_delete_evaluator).
LEMMA DeleteKeeps ==
  ASSUME ProposalsAssumption, PInv, frames # <<>>, NEW q \in DOMAIN proposals,
         Delete(q), Top.kind # "tx" => q < Top.p
  PROVE  Guarded(Saved', index', frames', now, phase)
<1> PICK r : r = [proposals |-> Without(proposals, q), done |-> done, vetoed |-> vetoed \cup {q},
                  nextId |-> nextId]
  OBVIOUS
<1>1. /\ Saved' = r /\ index' = IndexMove(index, proposals, Without(proposals, q))
      /\ frames' = Adv(frames)
  BY TopIs, SavedNext DEF Delete, SetProposals
<1>2. q \in Ids
  <2>1. q \in 1..(nextId - 1) /\ nextId \in Nat /\ nextId <= MaxProposals + 1
    BY PNow DEF StateOK
  <2> QED
    BY <2>1 DEF Ids, ProposalsAssumption
<1>3. Without(proposals, q) \in Maps(Proposal) /\ vetoed \cup {q} \in SUBSET Ids
  BY <1>2, PNow, WithoutMap
<1>4. /\ r \in States /\ r.proposals = Without(proposals, q) /\ r.done = done /\ r.nextId = nextId
  BY <1>3, PNow, MadeState
<1>5. /\ StateOK(r) /\ ComesFrom(r, Saved) /\ Timely(r, now, phase)
      /\ Standing(frames, Len(frames), r, now)
  <2>1. \A j \in 1..Len(frames) : frames[j].kind # "tx" => frames[j].p # q
    BY OlderIsFree
  <2>2. /\ Saved \in States /\ StateOK(Saved) /\ Timely(Saved, now, phase)
        /\ Standing(frames, Len(frames), Saved, now)
        /\ r.proposals = Without(Saved.proposals, q) /\ r.done = Saved.done /\ r.nextId = Saved.nextId
    BY <1>4, PNow
  <2>3. /\ StateOK(r) /\ ComesFrom(r, Saved)
        /\ \A t, ph : Timely(Saved, t, ph) => Timely(r, t, ph)
        /\ \A fs, n, t : Standing(fs, n, Saved, t) /\ (\A j \in 1..n : fs[j].kind # "tx" => fs[j].p # q)
                         => Standing(fs, n, r, t)
    BY <1>4, <2>2, LessProposal
  <2> QED
    BY <2>1, <2>2, <2>3
<1>6. Standing(Adv(frames), Len(frames), r, now)
  BY <1>4, <1>5, StandsAdvanced
<1>7. Guarded(r, IndexMove(index, Saved.proposals, r.proposals), Adv(frames), now, phase)
  BY <1>4, <1>5, <1>6, PNow, GuardedAdvance
<1> QED
  BY <1>1, <1>4, <1>7, PNow

\* The proposal that is being executed, and its body.
LEMMA ExecutingIs ==
  ASSUME ProposalsAssumption, PInv, Executing
  PROVE  /\ frames # <<>> /\ Top.kind # "tx" /\ Top.p \in DOMAIN proposals
         /\ Top.p \in Ids /\ Top.p < nextId
         /\ Body = proposals[Top.p].body /\ Body \in Bodies /\ Body \in Seq(Operation)
         /\ Held(Top, Saved, now)
         /\ \A k \in DOMAIN Body : Body[k].kind \in {"update", "delete"} => Body[k].target < Top.p
         /\ \A j \in 1..(Len(frames) - 1) : frames[j].p # Top.p
         /\ Top.pc <= Len(Body) => Top.pc \in DOMAIN Body /\ Op \in Operation
<1>1. frames # <<>> /\ Top.kind # "tx" /\ Top = frames[Len(frames)]
  BY TopIs DEF Executing
<1>2. Held(Top, Saved, now)
  BY <1>1, PNow, GuardedStack
<1>3. Top.p \in DOMAIN proposals
  BY <1>1, <1>2, PNow DEF Held
<1>4. /\ Body = proposals[Top.p].body /\ Body \in Bodies
  BY <1>3, PNow, ProposalType DEF Body
<1>5. Body \in Seq(Operation) /\ Len(Body) \in Nat /\ DOMAIN Body = 1..Len(Body)
      /\ \A k \in DOMAIN Body : Body[k] \in Operation
  BY <1>4, BodyType
<1>6. Top.p \in Ids /\ Top.p < nextId
  <2>1. Top.p \in 1..(nextId - 1) /\ nextId \in Nat /\ nextId <= MaxProposals + 1
    BY <1>3, PNow DEF StateOK
  <2> QED
    BY <2>1 DEF Ids, ProposalsAssumption
<1>7. \A k \in DOMAIN Body : Body[k].kind \in {"update", "delete"} => Body[k].target < Top.p
  BY <1>3, <1>4, PNow DEF StateOK
<1>8. ASSUME NEW j \in 1..(Len(frames) - 1) PROVE frames[j].p # Top.p
  <2>1. Len(frames) \in Nat \ {0} /\ Top.p \in Nat \ {0}
    BY <1>1, <1>6, TopIs DEF Ids
  <2>2. frames[j] \in Sessions
    BY <2>1, PNow
  <2>3. frames[j].p \in Nat
    BY <2>2 DEF Sessions
  <2>4. (frames[j].kind # "tx" => Top.p < frames[j].p) /\ (frames[j].kind = "tx" => frames[j].p = 0)
    BY <1>1, TopIs
  <2> QED
    BY <2>1, <2>3, <2>4
<1>9. ASSUME Top.pc <= Len(Body) PROVE Top.pc \in DOMAIN Body /\ Op \in Operation
  <2>1. Top.pc \in Nat \ {0}
    BY <1>1, TopIs
  <2>2. Top.pc \in DOMAIN Body
    BY <1>5, <1>9, <2>1
  <2> QED
    BY <1>5, <2>2 DEF Op
<1> QED
  BY <1>1, <1>2, <1>3, <1>4, <1>5, <1>6, <1>7, <1>8, <1>9

\* An operation that acts takes effect, for the first time.
LEMMA ActKeeps ==
  ASSUME ProposalsAssumption, PInv, Executing, Top.pc <= Len(Body), Op.kind \in Acts,
         done' = [done EXCEPT ![Top.p] = @ + 1], frames' = Advanced,
         UNCHANGED <<proposals, index, vetoed, nextId>>
  PROVE  Guarded(Saved', index', frames', now, phase)
<1> DEFINE p == Top.p
           n == Len(frames)
           d == [done EXCEPT ![p] = @ + 1]
<1> PICK r : r = [proposals |-> proposals, done |-> d, vetoed |-> vetoed, nextId |-> nextId]
  OBVIOUS
<1>1. frames # <<>> /\ p \in DOMAIN proposals /\ p \in Ids /\ Top.pc \in DOMAIN Body
      /\ Body = proposals[p].body /\ Body \in Bodies /\ Top.kind # "tx" /\ p < nextId
  BY ExecutingIs
<1>2. n \in Nat \ {0} /\ Top = frames[n] /\ frames' = Adv(frames)
  BY <1>1, TopIs
<1>3. done \in [Ids -> Nat] /\ done[p] \in Nat /\ nextId \in Nat /\ p \in Nat
  <2>1. done \in [Ids -> Nat] /\ nextId \in Nat
    BY PNow
  <2>2. p \in Nat
    BY <1>1 DEF Ids
  <2> QED
    BY <1>1, <2>1, <2>2
<1>4. done[p] = 0
  <2>1. done[p] <= 1
    BY <1>1, PNow DEF StateOK
  <2>2. ASSUME done[p] = 1 PROVE FALSE
    <3>1. PICK k \in DOMAIN Body : k < Top.pc /\ Body[k].kind \in Acts
      BY <1>1, <2>2, ExecutingIs, PNow DEF Held
    <3>2. Body[Top.pc].kind \in Acts
      BY DEF Op
    <3>3. k = Top.pc
      BY <1>1, <3>1, <3>2 DEF ProposalsAssumption
    <3>4. k \in Nat
      BY <1>1, BodyType
    <3> QED
      BY <3>1, <3>3, <3>4
  <2> QED
    BY <1>3, <2>1, <2>2
<1>5. d \in [Ids -> Nat] /\ d[p] = 1 /\ \A i \in Ids : i # p => d[i] = done[i]
  BY <1>1, <1>3, <1>4
<1>6. r \in States /\ r.proposals = proposals /\ r.done = d /\ r.vetoed = vetoed /\ r.nextId = nextId
  <2> HIDE DEF d
  <2> QED
    BY <1>5, PNow, MadeState
<1>7. Saved' = r
  BY SavedNext
<1> HIDE DEF d, p
<1>8. StateOK(r)
  <2>1. StateOK(Saved)
    BY PNow
  <2>2. ASSUME NEW i \in Ids PROVE r.done[i] <= 1 /\ (i >= r.nextId => r.done[i] = 0)
    <3>1. done[i] <= 1 /\ (i >= nextId => done[i] = 0) /\ i \in Nat
      <4>1. i \in Nat
        BY DEF Ids
      <4> QED
        BY <2>1, <4>1, PNow DEF StateOK
    <3>2. CASE i = p
      BY <1>1, <1>3, <1>5, <1>6, <3>2
    <3>3. CASE i # p
      BY <1>5, <1>6, <3>1, <3>3
    <3> QED
      BY <3>2, <3>3
  <2> QED
    BY <1>6, <2>1, <2>2, PNow DEF StateOK
<1>9. Timely(r, now, phase) /\ ComesFrom(r, Saved)
  <2>1. Timely(Saved, now, phase) /\ ComesFrom(Saved, Saved)
    BY PNow, ComesFromItself
  <2> QED
    BY <1>6, <2>1, PNow DEF Timely, ComesFrom
<1>10. Standing(Adv(frames), n, r, now)
  <2> DEFINE gs == Adv(frames)
  <2>1. Like(frames, gs, n) /\ gs[n].pc = Top.pc + 1
    BY <1>1, <1>2, PNow, AdvanceOf
  <2>2. Standing(gs, n, Saved, now)
    BY <1>1, PNow, StandsAdvanced
  <2> HIDE DEF gs
  <2>3. \A j \in 1..(n - 1) : gs[j].p # p
    <3>1. \A j \in 1..(n - 1) : j \in 1..n
      BY <1>2
    <3> QED
      BY <2>1, <3>1, ExecutingIs DEF Like, p
  <2>4. gs[n].p = p /\ n \in 1..n
    BY <1>2, <2>1 DEF Like, p
  <2>5. ASSUME NEW j \in 1..n, j # n PROVE Held(gs[j], r, now)
    <3>1. j \in 1..(n - 1)
      BY <1>2, <2>5
    <3>2. Held(gs[j], Saved, now) /\ gs[j].p # p
      BY <2>2, <2>3, <3>1 DEF Standing
    <3>3. gs[j].kind # "tx" => gs[j].p \in DOMAIN proposals
      BY <3>2, PNow DEF Held
    <3>4. gs[j].kind # "tx" => gs[j].p \in Ids
      <4>1. DOMAIN proposals \subseteq 1..(nextId - 1) /\ nextId <= MaxProposals + 1
        BY PNow DEF StateOK
      <4> QED
        BY <1>3, <3>3, <4>1 DEF Ids, ProposalsAssumption
    <3>5. gs[j].kind # "tx" => r.done[gs[j].p] = done[gs[j].p]
      BY <1>5, <1>6, <3>2, <3>4
    <3> QED
      BY <1>6, <3>2, <3>5, PNow DEF Held
  <2>6. Held(gs[n], r, now)
    <3>1. Held(gs[n], Saved, now)
      BY <2>2, <2>4 DEF Standing
    <3>2. Top.pc \in DOMAIN proposals[p].body /\ Top.pc < gs[n].pc /\ proposals[p].body[Top.pc].kind \in Acts
      <4>1. Top.pc \in Nat
        BY <1>1, TopIs
      <4> QED
        BY <1>1, <2>1, <4>1 DEF Op
    <3> QED
      BY <1>6, <2>4, <3>1, <3>2, PNow DEF Held
  <2>7. ASSUME NEW i \in DOMAIN r.proposals, \A j \in 1..n : gs[j].p # i PROVE r.done[i] = 0
    <3>1. i \in DOMAIN proposals /\ done[i] = 0
      BY <1>6, <2>2, <2>7, PNow DEF Standing
    <3>2. i # p
      BY <2>4, <2>7
    <3>3. i \in Ids
      <4>1. i \in 1..(nextId - 1) /\ nextId <= MaxProposals + 1
        BY <3>1, PNow DEF StateOK
      <4> QED
        BY <1>3, <4>1 DEF Ids, ProposalsAssumption
    <3> QED
      BY <1>5, <1>6, <3>1, <3>2, <3>3
  <2>8. Standing(gs, n, r, now)
    BY <2>5, <2>6, <2>7 DEF Standing
  <2> QED
    BY <2>8 DEF gs
<1>11. Guarded(r, IndexMove(index, Saved.proposals, r.proposals), Adv(frames), now, phase)
  BY <1>1, <1>6, <1>8, <1>9, <1>10, PNow, GuardedAdvance
<1>12. IndexMove(index, Saved.proposals, r.proposals) = index
  BY <1>6, PNow, IndexStill
<1> QED
  BY <1>2, <1>7, <1>11, <1>12

\* A proposal is created (proposal_create_evaluator).
LEMMA CreateKeeps ==
  ASSUME ProposalsAssumption, PInv, NEW body \in Bodies, NEW t \in 1..MaxTime, NEW review \in Reviews,
         proposal_create(body, t, review)
  PROVE  Guarded(Saved', index', frames', now, phase)
<1> DEFINE owner == Required(body, {"act_owner"})
           act == Required(body, {"act", "update", "delete"}) \ owner
           v == IF review = 0 THEN 0 ELSE t - review
           x == [body |-> body, expires |-> t, review |-> v,
                 reqOwner |-> owner, reqActive |-> act,
                 active |-> {}, owner |-> {}, keys |-> {}, failed |-> FALSE,
                 frozen |-> [accounts |-> Accounts, keys |-> Accounts]]
           m == Put(proposals, nextId, x)
<1> PICK r : r = [proposals |-> m, done |-> done, vetoed |-> vetoed, nextId |-> nextId + 1]
  OBVIOUS
<1>1. /\ frames # <<>> /\ Top.kind = "tx" /\ nextId <= MaxProposals /\ t > now /\ review < t - now
      /\ RefersBack(body) /\ proposals' = m /\ index' = IndexMove(index, proposals, m)
      /\ nextId' = nextId + 1 /\ frames' = Advanced /\ done' = done /\ vetoed' = vetoed
  BY DEF proposal_create, Running, SetProposals
<1>2. nextId \in Nat \ {0} /\ now \in Nat /\ MaxProposals \in Nat /\ MaxTime \in Nat /\ t \in Nat /\ review \in Nat
  <2>1. nextId \in Nat \ {0} /\ now \in Nat
    BY PNow
  <2>2. MaxProposals \in Nat /\ MaxTime \in Nat /\ Reviews \subseteq Nat
    BY DEF ProposalsAssumption
  <2>3. t \in Nat /\ review \in Nat
    BY ONLY <2>2, t \in 1..MaxTime, review \in Reviews
  <2> QED
    BY <2>1, <2>2, <2>3
<1>3. v \in Nat
  BY <1>1, <1>2
<1>4. owner \in People /\ act \in People
  <2>1. \A k \in DOMAIN body : body[k].by \in Accounts
    <3>1. \A k \in DOMAIN body : body[k] \in Operation
      BY BodyType
    <3> QED
      BY <3>1 DEF Operation
  <2> QED
    BY <2>1 DEF Required, People
<1>5. x \in Proposal /\ x.body = body /\ x.expires = t /\ x.active = {} /\ x.owner = {}
  <2> HIDE DEF owner, act, v
  <2> QED
    BY <1>2, <1>3, <1>4 DEF Proposal, People
<1> HIDE DEF x
<1>6. /\ m \in Maps(Proposal) /\ DOMAIN m = DOMAIN proposals \cup {nextId} /\ m[nextId] = x
      /\ \A i \in DOMAIN proposals : i # nextId => m[i] = proposals[i]
  <2>1. proposals \in [DOMAIN proposals -> Proposal] /\ DOMAIN proposals \in SUBSET Nat
    BY PNow, MapType
  <2>2. m \in [DOMAIN proposals \cup {nextId} -> Proposal]
    BY <1>5, <2>1 DEF Put
  <2>3. DOMAIN proposals \cup {nextId} \in SUBSET Nat
    BY <1>2, <2>1
  <2>4. m \in Maps(Proposal)
    <3> HIDE DEF m
    <3> QED
      BY <2>2, <2>3 DEF Maps
  <2> QED
    BY <2>4 DEF Put
<1> HIDE DEF m
<1>7. r \in States /\ r.proposals = m /\ r.done = done /\ r.vetoed = vetoed /\ r.nextId = nextId + 1
  <2>1. nextId + 1 \in Nat \ {0}
    BY <1>2
  <2> QED
    BY <1>6, <2>1, PNow, MadeState
<1>8. Saved' = r
  BY <1>1, SavedNext
<1>9. DOMAIN proposals \subseteq 1..(nextId - 1) /\ nextId \notin DOMAIN proposals
  <2>1. DOMAIN proposals \subseteq 1..(nextId - 1)
    BY PNow DEF StateOK
  <2> QED
    BY <1>2, <2>1
<1>10. StateOK(r)
  <2>1. nextId + 1 <= MaxProposals + 1
    BY <1>1, <1>2
  <2>2. DOMAIN m \subseteq 1..((nextId + 1) - 1)
    BY <1>2, <1>6, <1>9
  <2>3. ASSUME NEW i \in DOMAIN m
        PROVE  \A k \in DOMAIN m[i].body : m[i].body[k].kind \in {"update", "delete"} => m[i].body[k].target < i
    <3>1. CASE i = nextId
      BY <1>1, <1>5, <1>6, <3>1 DEF RefersBack
    <3>2. CASE i # nextId
      <4>1. i \in DOMAIN proposals /\ m[i] = proposals[i]
        BY <1>6, <3>2
      <4> QED
        BY <4>1, PNow DEF StateOK
    <3> QED
      BY <3>1, <3>2
  <2>4. ASSUME NEW i \in Ids PROVE done[i] <= 1 /\ (i >= nextId + 1 => done[i] = 0)
    <3>1. done[i] <= 1 /\ (i >= nextId => done[i] = 0)
      BY PNow DEF StateOK
    <3>2. i \in Nat
      BY DEF Ids
    <3> QED
      BY <1>2, <3>1, <3>2
  <2> QED
    BY <1>7, <2>1, <2>2, <2>3, <2>4 DEF StateOK
<1>11. Timely(r, now, phase)
  <2>1. ASSUME NEW i \in DOMAIN m
        PROVE  /\ m[i].review # 0 /\ now >= m[i].review =>
                    m[i].active \cup m[i].owner \subseteq m[i].frozen.accounts
               /\ phase = "idle" => m[i].expires > now
    <3>1. CASE i = nextId
      BY <1>1, <1>5, <1>6, <3>1
    <3>2. CASE i # nextId
      <4>1. i \in DOMAIN proposals /\ m[i] = proposals[i]
        BY <1>6, <3>2
      <4> QED
        BY <4>1, PNow DEF Timely
    <3> QED
      BY <3>1, <3>2
  <2> QED
    BY <1>7, <2>1 DEF Timely
<1>12. ComesFrom(r, Saved)
  <2>1. ASSUME NEW i \in DOMAIN m, i < nextId PROVE i \in DOMAIN proposals /\ m[i] = proposals[i]
    BY <1>2, <1>6, <2>1
  <2>2. nextId <= nextId + 1
    BY <1>2
  <2> QED
    BY <1>7, <2>1, <2>2, PNow DEF ComesFrom
<1>13. Standing(Adv(frames), Len(frames), r, now)
  <2>1. /\ Len(frames) = 1 /\ frames[1].kind = "tx" /\ frames[1].p = 0
    BY <1>1, TopIs
  <2>2. ASSUME NEW j \in 1..1 PROVE Held(frames[j], r, now)
    BY <2>1 DEF Held
  <2>3. ASSUME NEW i \in DOMAIN m PROVE done[i] = 0
    <3>1. CASE i = nextId
      <4>1. nextId \in Ids /\ nextId >= nextId
        BY <1>1, <1>2 DEF Ids
      <4> QED
        BY <3>1, <4>1, PNow DEF StateOK
    <3>2. CASE i # nextId
      <4>1. i \in DOMAIN proposals
        BY <1>6, <3>2
      <4>2. i # 0
        BY <1>9, <4>1
      <4>3. \A j \in 1..Len(frames) : frames[j].p # i
        BY <2>1, <4>2
      <4> QED
        BY <4>1, <4>3, PNow DEF Standing
    <3> QED
      BY <3>1, <3>2
  <2>4. Standing(frames, Len(frames), r, now)
    BY <1>7, <2>1, <2>2, <2>3 DEF Standing
  <2> QED
    BY <1>1, <1>7, <2>4, StandsAdvanced
<1>14. Guarded(r, IndexMove(index, Saved.proposals, r.proposals), Adv(frames), now, phase)
  BY <1>1, <1>7, <1>10, <1>11, <1>12, <1>13, PNow, GuardedAdvance
<1> QED
  BY <1>1, <1>7, <1>8, <1>14, PNow, TopIs

\* A proposal has been executed: it is removed and its session ends (push_proposal).
LEMMA FinishedKeeps ==
  ASSUME ProposalsAssumption, PInv, Finished
  PROVE  Guarded(Saved', index', frames', now, phase)
<1> DEFINE p == Top.p
           n == Len(frames) - 1
<1> PICK r : r = [proposals |-> Without(proposals, p), done |-> done, vetoed |-> vetoed, nextId |-> nextId]
  OBVIOUS
<1>1. /\ Executing /\ frames' = Front(frames) /\ Saved' = r
      /\ index' = IndexMove(index, proposals, Without(proposals, p))
  BY SavedNext DEF Finished, SetProposals
<1>2. /\ frames # <<>> /\ p \in DOMAIN proposals
      /\ \A j \in 1..n : frames[j].p # p
  BY <1>1, ExecutingIs
<1>3. Len(frames) \in Nat \ {0} /\ Top = frames[Len(frames)]
  BY <1>2, TopIs
<1>4. /\ Without(proposals, p) \in Maps(Proposal) /\ DOMAIN Without(proposals, p) = DOMAIN proposals \ {p}
      /\ \A i \in DOMAIN proposals \ {p} : Without(proposals, p)[i] = proposals[i]
  BY PNow, WithoutMap
<1>5. r \in States /\ r.proposals = Without(proposals, p) /\ r.done = done /\ r.nextId = nextId
  BY <1>4, PNow, MadeState
<1>6. StateOK(r) /\ ComesFrom(r, Saved) /\ Timely(r, now, phase)
  <2>1. /\ Saved \in States /\ StateOK(Saved) /\ Timely(Saved, now, phase)
        /\ r.proposals = Without(Saved.proposals, p) /\ r.done = Saved.done /\ r.nextId = Saved.nextId
    BY <1>5, PNow
  <2> QED
    BY <1>5, <2>1, LessProposal
<1>7. Standing(frames, n, r, now)
  <2>1. ASSUME NEW j \in 1..n PROVE Held(frames[j], r, now)
    <3>1. j \in 1..Len(frames)
      BY <1>3
    <3>2. Held(frames[j], Saved, now) /\ frames[j].p # p
      BY <1>2, <3>1, PNow DEF Standing
    <3>3. frames[j].p \in DOMAIN proposals => r.proposals[frames[j].p] = proposals[frames[j].p]
      BY <1>4, <1>5, <3>2
    <3> QED
      BY <1>4, <1>5, <3>2, <3>3, PNow DEF Held
  <2>2. ASSUME NEW i \in DOMAIN r.proposals, \A j \in 1..n : frames[j].p # i PROVE done[i] = 0
    <3>1. i \in DOMAIN proposals /\ i # p
      BY <1>4, <1>5
    <3>2. ASSUME NEW j \in 1..Len(frames) PROVE frames[j].p # i
      <4>1. j = Len(frames) \/ j \in 1..n
        BY <1>3
      <4> QED
        BY <1>3, <2>2, <3>1, <4>1
    <3> QED
      BY <3>1, <3>2, PNow DEF Standing
  <2> QED
    BY <1>5, <2>1, <2>2 DEF Standing
<1>8. ComesFrom(r, frames[Len(frames)].saved)
  BY <1>2, <1>5, <1>6, PNow, GuardedStack, ComesFromEarlier
<1>9. Tracks(IndexMove(index, proposals, Without(proposals, p)), r.proposals)
  <2>1. Tracks(IndexMove(index, Saved.proposals, r.proposals), r.proposals)
    BY <1>5, <1>6, PNow, IndexFollows
  <2> QED
    BY <1>5, <2>1, PNow
<1>10. Guarded(r, index', Front(frames), now, phase)
  BY <1>1, <1>2, <1>5, <1>6, <1>7, <1>8, <1>9, PNow, GuardedPop
<1> QED
  BY <1>1, <1>10

\* A state in which no session runs is sound when none of its proposals has taken effect.
LEMMA GuardedIdle ==
  ASSUME ProposalsAssumption, NEW s \in States, NEW idx, NEW t, NEW ph, StateOK(s), Timely(s, t, ph),
         \A i \in DOMAIN s.proposals : s.done[i] = 0, Tracks(idx, s.proposals)
  PROVE  Guarded(s, idx, <<>>, t, ph)
<1>1. <<>> \in Seq(Sessions) /\ Len(<<>>) = 0 /\ 0 <= MaxNesting + 1 /\ 1..0 = {}
  BY DEF ProposalsAssumption
<1> QED
  BY <1>1 DEF Guarded, Standing

\* In a state in which no session runs, no proposal has taken effect.
LEMMA IdleHasNoEffect ==
  ASSUME NEW s, NEW idx, NEW t, NEW ph, Guarded(s, idx, <<>>, t, ph)
  PROVE  \A i \in DOMAIN s.proposals : s.done[i] = 0
<1>1. Len(<<>>) = 0 /\ 1..0 = {}
  OBVIOUS
<1> QED
  BY <1>1 DEF Guarded, Standing

\* A transaction, or the execution of an expired proposal, begins.
LEMMA GuardedBegin ==
  ASSUME ProposalsAssumption, NEW s, NEW idx, NEW t, NEW ph, Guarded(s, idx, <<>>, t, ph),
         NEW kind, NEW p \in Nat,
         \/ kind = "tx" /\ p = 0
         \/ kind = "expiry" /\ p \in DOMAIN s.proposals /\ s.proposals[p].expires <= t
  PROVE  Guarded(s, idx, <<Frame(kind, p, s)>>, t, ph)
<1> DEFINE f == Frame(kind, p, s)
           fs == <<f>>
<1>1. s \in States /\ StateOK(s) /\ Timely(s, t, ph) /\ Tracks(idx, s.proposals)
  BY DEF Guarded
<1>2. /\ f.kind = kind /\ f.p = p /\ f.pc = 1 /\ f.saved = s
      /\ f \in Sessions
  BY <1>1 DEF Frame, Sessions
<1>3. \A i \in DOMAIN s.proposals : s.done[i] = 0
  BY IdleHasNoEffect
<1> HIDE DEF f
<1>4. fs \in Seq(Sessions) /\ Len(fs) = 1 /\ fs[1] = f /\ fs # <<>> /\ 1 <= MaxNesting + 1
  BY <1>2 DEF ProposalsAssumption
<1>5. Held(f, s, t)
  BY <1>2, <1>3 DEF Held
<1> HIDE DEF fs
<1>6. Standing(fs, 1, s, t)
  <2>1. \A j \in 1..1 : Held(fs[j], s, t)
    BY <1>4, <1>5
  <2> QED
    BY <1>3, <2>1 DEF Standing
<1>7. Standing(fs, 0, s, t)
  <2>1. 1..0 = {}
    OBVIOUS
  <2> QED
    BY <1>3, <2>1 DEF Standing
<1>8. Nested(fs, 1, t, ph)
  <2>1. 1..(1 - 1) = {} /\ 1 - 1 = 0
    OBVIOUS
  <2> QED
    BY <1>1, <1>2, <1>4, <1>7, <2>1 DEF Nested
<1>9. ComesFrom(s, fs[1].saved)
  BY <1>1, <1>2, <1>4, ComesFromItself
<1>10. \A k \in 1..Len(fs) : Nested(fs, k, t, ph)
  BY <1>4, <1>8
<1>11. Guarded(s, idx, fs, t, ph)
  BY <1>1, <1>4, <1>6, <1>9, <1>10 DEF Guarded
<1> QED
  BY <1>11 DEF fs, f

\* A transaction begins, ends well or fails.
LEMMA TransactionKeeps ==
  ASSUME ProposalsAssumption, PInv, TxBegin \/ TxCommit \/ TxFail
  PROVE  Guarded(Saved', index', frames', now, phase)
<1>1. CASE TxBegin
  <2>1. frames = <<>> /\ frames' = <<Frame("tx", 0, Saved)>> /\ index' = index
    BY <1>1 DEF TxBegin
  <2>2. Saved' = Saved
    BY <1>1 DEF TxBegin, Saved
  <2>3. Guarded(Saved, index, <<>>, now, phase)
    BY <2>1, PNow
  <2>4. Guarded(Saved, index, <<Frame("tx", 0, Saved)>>, now, phase)
    BY <2>3, GuardedBegin
  <2> QED
    BY <2>1, <2>2, <2>4
<1>2. CASE TxCommit
  <2>1. frames # <<>> /\ Top.kind = "tx" /\ frames' = <<>> /\ index' = index
    BY <1>2 DEF TxCommit, Running
  <2>2. Saved' = Saved
    BY <1>2 DEF TxCommit, Saved
  <2>3. Len(frames) = 1 /\ frames[1].p = 0
    BY <2>1, TopIs
  <2>4. ASSUME NEW i \in DOMAIN proposals PROVE done[i] = 0
    <3>1. i \in 1..(nextId - 1) /\ nextId \in Nat
      BY PNow DEF StateOK
    <3>2. i # 0
      BY <3>1
    <3>3. \A j \in 1..Len(frames) : frames[j].p # i
      BY <2>3, <3>2
    <3> QED
      BY <3>3, PNow DEF Standing
  <2>5. Guarded(Saved, index, <<>>, now, phase)
    BY <2>4, PNow, GuardedIdle
  <2> QED
    BY <2>1, <2>2, <2>5
<1>3. CASE TxFail
  BY <1>3, ThrowKeeps DEF TxFail, Running
<1> QED
  BY <1>1, <1>2, <1>3

\* An operation of a proposal that executes, or its failure.
LEMMA OperationKeeps ==
  ASSUME ProposalsAssumption, PInv, apply_operation \/ OperationThrows
  PROVE  Guarded(Saved', index', frames', now, phase)
<1>1. CASE OperationThrows
  BY <1>1, ThrowKeeps DEF OperationThrows, Executing
<1>2. CASE apply_operation
  <2>1. Executing /\ Top.pc <= Len(Body) /\ CanDo
    BY <1>2 DEF apply_operation
  <2>2. /\ Op \in Operation /\ frames # <<>> /\ Top.kind # "tx"
        /\ Op.kind \in {"update", "delete"} => Op.target < Top.p
    BY <2>1, ExecutingIs DEF Op
  <2>3. Op.kind \in {"act", "act_owner", "update", "delete"} /\ Op.by \in Accounts
    BY <2>2 DEF Operation
  <2>4. CASE Op.kind \in Acts
    <3>1. done' = [done EXCEPT ![Top.p] = @ + 1] /\ frames' = Advanced
          /\ UNCHANGED <<proposals, index, vetoed, nextId>>
      BY <1>2, <2>4 DEF apply_operation, Acts
    <3> QED
      BY <2>1, <2>4, <3>1, ActKeeps
  <2>5. CASE Op.kind = "update"
    <3>1. UpdateAllowed(Op.target, "active", {Op.by}, {}) /\ Update(Op.target, "active", {Op.by}, {})
      BY <1>2, <2>1, <2>5 DEF apply_operation, CanDo, Acts
    <3>2. /\ Op.target \in DOMAIN proposals /\ "active" \in Fields
          /\ {Op.by} \in People /\ {} \in People /\ Op.target < Top.p
      BY <2>2, <2>3, <2>5, <3>1 DEF UpdateAllowed, Fields, People
    <3> QED
      BY <2>2, <3>1, <3>2, UpdateKeeps
  <2>6. CASE Op.kind = "delete"
    <3>1. DeleteAllowed(Op.target, Op.by) /\ Delete(Op.target)
      BY <1>2, <2>1, <2>6 DEF apply_operation, CanDo, Acts
    <3>2. Op.target \in DOMAIN proposals /\ Op.target < Top.p
      BY <2>2, <2>6, <3>1 DEF DeleteAllowed
    <3> QED
      BY <2>2, <3>1, <3>2, DeleteKeeps
  <2> QED
    BY <2>3, <2>4, <2>5, <2>6 DEF Acts
<1> QED
  BY <1>1, <1>2

\* An operation of a transaction on a proposal that is there.
LEMMA TransactionOperationKeeps ==
  ASSUME ProposalsAssumption, PInv, NEW q \in DOMAIN proposals, NEW a \in Accounts,
         \/ \E f \in Fields : proposal_update(q, f, {a}, {}) \/ proposal_update(q, f, {}, {a})
         \/ proposal_delete(q, a)
  PROVE  Guarded(Saved', index', frames', now, phase)
<1>1. {a} \in People /\ {} \in People
  BY DEF People
<1>2. ASSUME NEW f \in Fields, NEW add \in People, NEW remove \in People, proposal_update(q, f, add, remove)
      PROVE  Guarded(Saved', index', frames', now, phase)
  <2>1. /\ frames # <<>> /\ Top.kind = "tx" /\ UpdateAllowed(q, f, add, remove)
        /\ Update(q, f, add, remove)
    BY <1>2 DEF proposal_update, Running
  <2> QED
    BY <2>1, UpdateKeeps
<1>3. CASE proposal_delete(q, a)
  <2>1. frames # <<>> /\ Top.kind = "tx" /\ Delete(q)
    BY <1>3 DEF proposal_delete, Running
  <2> QED
    BY <2>1, DeleteKeeps
<1> QED
  BY <1>1, <1>2, <1>3

\* When a proposal has expired there is one to be taken first.
LEMMA FirstExpiredIs ==
  ASSUME PInv, Expired # {}
  PROVE  FirstExpired \in Expired
<1> DEFINE E == Expired
           e(i) == proposals[i].expires
           Times == {e(i) : i \in E}
<1>1. \A i \in E : i \in DOMAIN proposals /\ i \in Nat /\ e(i) \in Nat
  <2>1. ASSUME NEW i \in E PROVE i \in DOMAIN proposals /\ i \in Nat /\ e(i) \in Nat
    <3>1. i \in DOMAIN proposals
      BY DEF Expired
    <3> QED
      BY <3>1, PNow, ProposalType
  <2> QED
    BY <2>1
<1>2. FirstExpired = CHOOSE i \in E : \A j \in E : e(i) < e(j) \/ (e(i) = e(j) /\ i <= j)
  BY DEF FirstExpired
<1> HIDE DEF E, e
<1>3. E # {}
  BY DEF E
<1>4. PICK m \in Times : \A y \in Times : m <= y
  <2>1. Times \subseteq Nat /\ Times # {}
    BY <1>1, <1>3
  <2> HIDE DEF Times
  <2> QED
    BY <2>1, LeastNumber
<1> DEFINE Firsts == {i \in E : e(i) = m}
<1>5. PICK i \in Firsts : \A j \in Firsts : i <= j
  <2>1. Firsts \subseteq Nat /\ Firsts # {}
    BY <1>1, <1>4
  <2> HIDE DEF Firsts
  <2> QED
    BY <2>1, LeastNumber
<1>6. ASSUME NEW j \in E PROVE e(i) < e(j) \/ (e(i) = e(j) /\ i <= j)
  <2>1. e(j) \in Times /\ e(i) = m /\ e(j) \in Nat /\ e(i) \in Nat
    BY <1>1, <1>5
  <2>2. m <= e(j)
    BY <1>4, <2>1
  <2>3. e(i) = e(j) => j \in Firsts
    BY <2>1
  <2> QED
    BY <1>5, <2>1, <2>2, <2>3
<1>7. \E k \in E : \A j \in E : e(k) < e(j) \/ (e(k) = e(j) /\ k <= j)
  BY <1>5, <1>6
<1>8. FirstExpired \in E
  BY <1>2, <1>7
<1> QED
  BY <1>8 DEF E

\* An expired proposal is executed or removed (clear_expired_proposals).
LEMMA ExpireKeeps ==
  ASSUME ProposalsAssumption, PInv, ExpireProposal
  PROVE  Guarded(Saved', index', frames', now, phase)
<1> DEFINE p == FirstExpired
<1>1. frames = <<>> /\ Expired # {} /\ done' = done /\ vetoed' = vetoed /\ nextId' = nextId
  BY DEF ExpireProposal
<1>2. p \in DOMAIN proposals /\ proposals[p].expires <= now /\ p \in Nat
  <2>1. p \in DOMAIN proposals /\ proposals[p].expires <= now
    BY <1>1, FirstExpiredIs DEF Expired
  <2> QED
    BY <2>1, PNow, ProposalType
<1>3. Guarded(Saved, index, <<>>, now, phase) /\ \A i \in DOMAIN proposals : done[i] = 0
  BY <1>1, PNow, IdleHasNoEffect
<1>4. CASE is_authorized_to_execute(proposals[p])
  <2>1. frames' = <<Frame("expiry", p, Saved)>> /\ proposals' = proposals /\ index' = index
    BY <1>4 DEF ExpireProposal
  <2>2. Saved' = Saved
    BY <1>1, <2>1 DEF Saved
  <2>3. Guarded(Saved, index, <<Frame("expiry", p, Saved)>>, now, phase)
    BY <1>2, <1>3, PNow, GuardedBegin
  <2> QED
    BY <2>1, <2>2, <2>3
<1>5. CASE ~is_authorized_to_execute(proposals[p])
  <2> PICK r : r = [proposals |-> Without(proposals, p), done |-> done, vetoed |-> vetoed, nextId |-> nextId]
    OBVIOUS
  <2>1. /\ proposals' = Without(proposals, p) /\ frames' = frames
        /\ index' = IndexMove(index, proposals, Without(proposals, p))
    BY <1>5 DEF ExpireProposal, SetProposals
  <2>2. Saved' = r
    BY <1>1, <2>1, SavedNext
  <2>3. Without(proposals, p) \in Maps(Proposal) /\ DOMAIN Without(proposals, p) = DOMAIN proposals \ {p}
    BY PNow, WithoutMap
  <2>4. r \in States /\ r.proposals = Without(proposals, p) /\ r.done = done /\ r.nextId = nextId
    BY <2>3, PNow, MadeState
  <2>5. StateOK(r) /\ ComesFrom(r, Saved) /\ Timely(r, now, phase)
    <3>1. /\ Saved \in States /\ StateOK(Saved) /\ Timely(Saved, now, phase)
          /\ r.proposals = Without(Saved.proposals, p) /\ r.done = Saved.done /\ r.nextId = Saved.nextId
      BY <2>4, PNow
    <3> QED
      BY <2>4, <3>1, LessProposal
  <2>6. Tracks(index', r.proposals)
    <3>1. Tracks(IndexMove(index, Saved.proposals, r.proposals), r.proposals)
      BY <2>4, <2>5, PNow, IndexFollows
    <3> QED
      BY <2>1, <2>4, <3>1, PNow
  <2>7. \A i \in DOMAIN r.proposals : r.done[i] = 0
    BY <1>3, <2>3, <2>4
  <2>8. Guarded(r, index', <<>>, now, phase)
    BY <2>4, <2>5, <2>6, <2>7, GuardedIdle
  <2> QED
    BY <1>1, <2>1, <2>2, <2>8
<1> QED
  BY <1>4, <1>5

\* The time goes on: a proposal that enters its review period does so with the
\* approvals it has.
LEMMA NewBlockKeeps ==
  ASSUME ProposalsAssumption, PInv, NewBlock
  PROVE  Guarded(Saved', index', frames', now', phase')
<1> DEFINE Frozen(x) == [x EXCEPT !.frozen = [accounts |-> x.active \cup x.owner, keys |-> x.keys]]
           m == [i \in DOMAIN proposals |->
                   IF proposals[i].review = now + 1 THEN Frozen(proposals[i]) ELSE proposals[i]]
<1> PICK r : r = [proposals |-> m, done |-> done, vetoed |-> vetoed, nextId |-> nextId]
  OBVIOUS
<1>1. /\ frames = <<>> /\ now' = now + 1 /\ phase' = "expiring" /\ proposals' = m
      /\ done' = done /\ vetoed' = vetoed /\ index' = index /\ frames' = frames /\ nextId' = nextId
  BY DEF NewBlock
<1>2. ASSUME NEW x \in Proposal
      PROVE  LET y == Frozen(x)
             IN /\ y \in Proposal
                /\ y.body = x.body /\ y.expires = x.expires /\ y.review = x.review
                /\ y.reqActive = x.reqActive /\ y.reqOwner = x.reqOwner
                /\ y.active = x.active /\ y.owner = x.owner
                /\ y.active \cup y.owner \subseteq y.frozen.accounts
  BY DEF Proposal, People
<1> HIDE DEF Frozen
<1>3. ASSUME NEW i \in DOMAIN proposals
      PROVE  /\ proposals[i] \in Proposal /\ proposals[i].review \in Nat
             /\ m[i] \in Proposal
             /\ m[i].body = proposals[i].body /\ m[i].expires = proposals[i].expires
             /\ m[i].review = proposals[i].review
             /\ m[i].reqActive = proposals[i].reqActive /\ m[i].reqOwner = proposals[i].reqOwner
             /\ m[i].active = proposals[i].active /\ m[i].owner = proposals[i].owner
             /\ \/ m[i] = proposals[i] /\ proposals[i].review # now + 1
                \/ m[i].active \cup m[i].owner \subseteq m[i].frozen.accounts
  <2>1. proposals[i] \in Proposal /\ proposals[i].review \in Nat
    BY PNow, ProposalType
  <2> QED
    BY <1>2, <2>1
<1>4. DOMAIN m = DOMAIN proposals
  OBVIOUS
<1>5. m \in Maps(Proposal)
  <2>1. m \in [DOMAIN proposals -> Proposal]
    BY <1>3
  <2>2. DOMAIN proposals \in SUBSET Nat
    BY PNow, MapType
  <2> HIDE DEF m
  <2> QED
    BY <2>1, <2>2 DEF Maps
<1> HIDE DEF m
<1>6. r \in States /\ r.proposals = m /\ r.done = done /\ r.nextId = nextId
  BY <1>5, PNow, MadeState
<1>7. Saved' = r
  BY <1>1, SavedNext
<1>8. StateOK(r)
  <2>1. Mild(m, proposals)
    BY <1>3, <1>4 DEF Mild
  <2> QED
    BY <1>6, <2>1, PNow, MildChange
<1>9. Timely(r, now + 1, "expiring")
  <2> SUFFICES ASSUME NEW i \in DOMAIN m, m[i].review # 0, now + 1 >= m[i].review
               PROVE  m[i].active \cup m[i].owner \subseteq m[i].frozen.accounts
    BY <1>6 DEF Timely
  <2>1. i \in DOMAIN proposals /\ now \in Nat
    BY <1>4, PNow
  <2>2. ASSUME m[i] = proposals[i], proposals[i].review # now + 1
        PROVE  m[i].active \cup m[i].owner \subseteq m[i].frozen.accounts
    <3>1. proposals[i].review # 0 /\ now >= proposals[i].review
      BY <1>3, <2>1, <2>2
    <3> QED
      BY <2>1, <2>2, <3>1, PNow DEF Timely
  <2> QED
    BY <1>3, <2>1, <2>2
<1>10. Tracks(index, m)
  <2>1. Tracks(index, proposals)
    BY PNow
  <2>2. \A i \in DOMAIN proposals : Parties(m[i]) = Parties(proposals[i])
    BY <1>3 DEF Parties
  <2> QED
    BY <1>4, <2>1, <2>2 DEF Tracks
<1>11. \A i \in DOMAIN m : done[i] = 0
  <2>1. Guarded(Saved, index, <<>>, now, phase)
    BY <1>1, PNow
  <2> QED
    BY <1>4, <2>1, PNow, IdleHasNoEffect
<1>12. Guarded(r, index, <<>>, now + 1, "expiring")
  BY <1>6, <1>8, <1>9, <1>10, <1>11, GuardedIdle
<1> QED
  BY <1>1, <1>7, <1>12

\* The step that ends a block, and the change of circumstances.
LEMMA StillKeeps ==
  ASSUME ProposalsAssumption, PInv, BlockDone \/ Toggle \/ UNCHANGED vars
  PROVE  PInv'
<1>1. Saved' = Saved /\ index' = index /\ frames' = frames /\ now' = now
  BY DEF BlockDone, Toggle, vars, Saved
<1>2. CASE BlockDone
  <2>1. frames = <<>> /\ Expired = {} /\ phase' = "idle"
    BY <1>2 DEF BlockDone
  <2>2. Guarded(Saved, index, <<>>, now, phase)
    BY <2>1, PNow
  <2>3. \A i \in DOMAIN proposals : done[i] = 0
    BY <2>2, PNow, IdleHasNoEffect
  <2>4. Timely(Saved, now, "idle")
    <3>1. ASSUME NEW i \in DOMAIN proposals PROVE proposals[i].expires > now
      <4>1. ~(proposals[i].expires <= now)
        BY <2>1 DEF Expired
      <4>2. proposals[i].expires \in Nat /\ now \in Nat
        BY PNow, ProposalType
      <4> QED
        BY <4>1, <4>2
    <3> QED
      BY <3>1, PNow DEF Timely
  <2>5. Guarded(Saved, index, <<>>, now, "idle")
    BY <2>3, <2>4, PNow, GuardedIdle
  <2>6. now \in 0..MaxTime
    BY DEF PInv
  <2> QED
    BY <1>1, <2>1, <2>5, <2>6 DEF PInv
<1>3. CASE Toggle \/ UNCHANGED vars
  <2>1. phase' = phase
    BY <1>3 DEF Toggle, vars
  <2> QED
    BY <1>1, <2>1 DEF PInv
<1> QED
  BY <1>2, <1>3

\* Every step keeps the invariant.
LEMMA ProposalsStep ==
  ASSUME ProposalsAssumption, PInv, [Next]_vars
  PROVE  PInv'
<1>1. now \in 0..MaxTime /\ phase \in {"idle", "expiring"} /\ MaxTime \in Nat
  BY DEF PInv, ProposalsAssumption
<1>2. ASSUME Guarded(Saved', index', frames', now, phase), Rest PROVE PInv'
  <2>1. now' = now /\ phase' = phase
    BY <1>2 DEF Rest
  <2> QED
    BY <1>1, <1>2, <2>1 DEF PInv
<1>3. CASE TxBegin \/ TxCommit \/ TxFail
  BY <1>2, <1>3, TransactionKeeps DEF TxBegin, TxCommit, TxFail
<1>4. ASSUME NEW b \in Bodies, NEW t \in 1..MaxTime, NEW r \in Reviews, proposal_create(b, t, r)
      PROVE  PInv'
  BY <1>2, <1>4, CreateKeeps DEF proposal_create
<1>5. ASSUME NEW q \in DOMAIN proposals, NEW a \in Accounts,
             \/ \E f \in Fields : proposal_update(q, f, {a}, {}) \/ proposal_update(q, f, {}, {a})
             \/ proposal_delete(q, a)
      PROVE  PInv'
  <2>1. Rest
    BY <1>5 DEF proposal_update, proposal_delete
  <2> QED
    BY <1>2, <1>5, <2>1, TransactionOperationKeeps
<1>6. CASE apply_operation \/ OperationThrows
  BY <1>2, <1>6, OperationKeeps DEF apply_operation, OperationThrows
<1>7. CASE Finished
  BY <1>2, <1>7, FinishedKeeps DEF Finished
<1>8. CASE ExpireProposal
  BY <1>2, <1>8, ExpireKeeps DEF ExpireProposal
<1>9. CASE NewBlock
  <2>1. now' \in 0..MaxTime /\ phase' = "expiring"
    BY <1>1, <1>9 DEF NewBlock
  <2> QED
    BY <1>9, <2>1, NewBlockKeeps DEF PInv
<1>10. CASE BlockDone \/ Toggle \/ UNCHANGED vars
  BY <1>10, StillKeeps
<1> QED
  BY <1>3, <1>4, <1>5, <1>6, <1>7, <1>8, <1>9, <1>10 DEF Next

\* The invariant holds at the start.
LEMMA ProposalsInit ==
  ASSUME ProposalsAssumption, Init
  PROVE  PInv
<1>1. /\ proposals = EmptyFun /\ done = [i \in Ids |-> 0] /\ vetoed = {} /\ index = {} /\ frames = <<>>
      /\ now = 0 /\ phase = "idle" /\ nextId = 1
  BY DEF Init, Ids
<1>2. DOMAIN EmptyFun = {} /\ EmptyFun \in Maps(Proposal)
  <2>1. EmptyFun \in [{} -> Proposal] /\ {} \in SUBSET Nat
    BY DEF EmptyFun
  <2> QED
    BY <2>1 DEF Maps, EmptyFun
<1>3. MaxProposals \in Nat /\ MaxTime \in Nat
  BY DEF ProposalsAssumption
<1>4. done \in [Ids -> Nat] /\ \A i \in Ids : done[i] = 0
  BY <1>1
<1>5. /\ Saved \in States /\ Saved.proposals = EmptyFun /\ Saved.done = done /\ Saved.nextId = 1
  <2>1. vetoed \in SUBSET Ids /\ nextId \in Nat \ {0} /\ proposals \in Maps(Proposal)
    BY <1>1, <1>2
  <2>2. LET r == [proposals |-> proposals, done |-> done, vetoed |-> vetoed, nextId |-> nextId]
        IN r \in States /\ r.proposals = proposals /\ r.done = done /\ r.nextId = nextId
    BY <1>4, <2>1, MadeState
  <2> QED
    BY <1>1, <2>2 DEF Saved
<1>6. StateOK(Saved)
  BY <1>2, <1>3, <1>4, <1>5 DEF StateOK
<1>7. Timely(Saved, now, phase) /\ Tracks(index, Saved.proposals)
  BY <1>1, <1>2, <1>5 DEF Timely, Tracks
<1>8. \A i \in DOMAIN Saved.proposals : Saved.done[i] = 0
  BY <1>2, <1>5
<1>9. Guarded(Saved, index, <<>>, now, phase)
  BY <1>5, <1>6, <1>7, <1>8, GuardedIdle
<1> QED
  BY <1>1, <1>3, <1>9 DEF PInv

-----------------------------------------------------------------------------
(* Proposals: what the invariant says.                                     *)

\* The invariant makes proposals that act on proposals harmless.
LEMMA InvGuards ==
  ASSUME ProposalsAssumption, PInv
  PROVE  TypeOK /\ ProposalsGuarded
<1>1. /\ frames \in Seq(Sessions) /\ Len(frames) \in Nat /\ DOMAIN frames = 1..Len(frames)
      /\ \A k \in DOMAIN frames : Held(frames[k], Saved, now) /\ Nested(frames, k, now, phase)
  BY PNow DEF Guarded, Standing
<1>2. FramesAlive
  BY <1>1, PNow DEF FramesAlive, Held
<1>3. NestingDescends
  <2> SUFFICES ASSUME NEW k \in 1..(Len(frames) - 1), frames[k].kind # "tx"
               PROVE  frames[k + 1].p < frames[k].p
    BY DEF NestingDescends
  <2>1. k + 1 \in DOMAIN frames /\ k \in 1..((k + 1) - 1)
    BY <1>1
  <2> QED
    BY <1>1, <2>1 DEF Nested
<1>4. ReviewHonoured
  <2> SUFFICES ASSUME NEW k \in DOMAIN frames, frames[k].p \in DOMAIN proposals,
                      proposals[frames[k].p].review # 0
               PROVE  proposals[frames[k].p].expires <= now
    BY DEF ReviewHonoured
  <2>1. frames[k].kind = "tx" => frames[k].p = 0
    BY <1>1 DEF Nested
  <2>2. frames[k].p \in 1..(nextId - 1) /\ nextId \in Nat
    BY PNow DEF StateOK
  <2>3. frames[k].kind # "tx"
    BY <2>1, <2>2
  <2> QED
    BY <1>1, <2>3, PNow DEF Held
<1>5. ReviewFrozen
  BY PNow DEF Timely, ReviewFrozen, InReview
<1>6. IndexSound
  BY PNow DEF Tracks, IndexSound
<1>7. TypeOK
  <2>1. DOMAIN proposals \subseteq 1..(nextId - 1)
    BY PNow DEF StateOK
  <2>2. ASSUME NEW i \in DOMAIN proposals
        PROVE  proposals[i].active \cup proposals[i].owner \cup proposals[i].keys \subseteq Accounts
    BY PNow, ProposalType DEF People
  <2>3. index \subseteq Accounts \X (1..MaxProposals)
    BY PNow DEF Tracks, Ids
  <2> QED
    BY <2>1, <2>2, <2>3, PNow DEF TypeOK, PInv
<1> QED
  BY <1>2, <1>3, <1>4, <1>5, <1>6, <1>7 DEF ProposalsGuarded

\* The invariant says that no proposal takes effect twice or outlives its expiration.
LEMMA InvResolves ==
  ASSUME ProposalsAssumption, PInv
  PROVE  ExecutedOnce /\ NoneExpired
<1>1. /\ DOMAIN done = Ids /\ Len(frames) \in Nat /\ DOMAIN frames = 1..Len(frames)
  BY PNow
<1>2. \A i \in Ids : done[i] <= 1
  BY PNow DEF StateOK
<1>3. \A i \in DOMAIN proposals : (\A k \in DOMAIN frames : frames[k].p # i) => done[i] = 0
  BY <1>1, PNow DEF Standing
<1>4. NoneExpired
  BY PNow DEF Timely, NoneExpired
<1> QED
  BY <1>1, <1>2, <1>3, <1>4 DEF ExecutedOnce

\* The session of a proposal is undone: the proposal is kept, unless it has expired.
LEMMA ThrowResolves ==
  ASSUME ProposalsAssumption, PInv, frames # <<>>, Throw, NEW i \in DOMAIN proposals
  PROVE  Kept(i)
<1> DEFINE f == frames[Len(frames)]
           s == f.saved
<1>1. /\ Top = f /\ f.kind \in {"tx", "update", "expiry"} /\ s \in States /\ ComesFrom(Saved, s)
      /\ Held(f, Saved, now)
  BY TopIs, PNow, GuardedStack
<1> HIDE DEF f, s
<1>2. /\ nextId' = s.nextId
      /\ f.kind = "tx" => proposals' = s.proposals
      /\ f.kind = "update" => proposals' = [s.proposals EXCEPT ![f.p].failed = TRUE]
      /\ f.kind = "expiry" => proposals' = Without(s.proposals, f.p)
  BY <1>1 DEF Throw, SetProposals, s
<1>3. s.nextId \in Nat /\ i \in Nat /\ s.proposals \in Maps(Proposal)
  BY <1>1, PNow, StateType, ProposalType
<1>4. CASE i < s.nextId
  <2>1. i \in DOMAIN s.proposals
    BY <1>1, <1>4, PNow DEF ComesFrom
  <2>2. CASE f.kind = "expiry"
    <3>1. DOMAIN proposals' = DOMAIN s.proposals \ {f.p}
      <4>1. DOMAIN Without(s.proposals, f.p) = DOMAIN s.proposals \ {f.p}
        BY <1>3, WithoutMap
      <4> QED
        BY <1>2, <2>2, <4>1
    <3>2. proposals[f.p].expires <= now
      BY <1>1, <2>2, PNow DEF Held
    <3> QED
      BY <2>1, <3>1, <3>2 DEF Kept
  <2>3. CASE f.kind # "expiry"
    <3>1. DOMAIN proposals' = DOMAIN s.proposals
      BY <1>1, <1>2, <2>3
    <3> QED
      BY <2>1, <3>1 DEF Kept
  <2> QED
    BY <2>2, <2>3
<1>5. CASE i >= s.nextId
  BY <1>2, <1>5 DEF Kept
<1> QED
  BY <1>3, <1>4, <1>5

\* A proposal has the same place after its approvals have changed.
LEMMA UpdateResolves ==
  ASSUME NEW q, NEW f, NEW add, NEW remove, Update(q, f, add, remove), NEW i \in DOMAIN proposals
  PROVE  Kept(i)
<1> DEFINE to == Approved(q, f, add, remove)
           failed == [to EXCEPT ![q].failed = TRUE]
<1>1. DOMAIN to = DOMAIN proposals /\ DOMAIN failed = DOMAIN proposals
  BY DEF Approved
<1> HIDE DEF to, failed
<1>2. proposals' = to \/ proposals' = failed
  BY DEF Update, SetProposals, to, failed
<1> QED
  BY <1>1, <1>2 DEF Kept

\* A proposal that is deleted is vetoed.
LEMMA DeleteResolves ==
  ASSUME PInv, NEW q, Delete(q), NEW i \in DOMAIN proposals
  PROVE  Kept(i)
<1>1. DOMAIN proposals' = DOMAIN proposals \ {q} /\ q \in vetoed'
  BY PNow, WithoutMap DEF Delete, SetProposals
<1> QED
  BY <1>1 DEF Kept

\* No step makes a proposal disappear without a reason.
LEMMA StepResolves ==
  ASSUME ProposalsAssumption, PInv, [Next]_vars, NEW i \in DOMAIN proposals
  PROVE  Kept(i)
<1>1. ASSUME DOMAIN proposals \subseteq DOMAIN proposals' PROVE Kept(i)
  BY <1>1 DEF Kept
<1>2. CASE TxBegin \/ TxCommit \/ BlockDone \/ Toggle \/ UNCHANGED vars
  <2>1. proposals' = proposals
    BY <1>2 DEF TxBegin, TxCommit, BlockDone, Toggle, vars
  <2> QED
    BY <1>1, <2>1
<1>3. ASSUME NEW b \in Bodies, NEW t \in 1..MaxTime, NEW r \in Reviews, proposal_create(b, t, r)
      PROVE  Kept(i)
  <2>1. DOMAIN proposals \subseteq DOMAIN proposals'
    BY <1>3 DEF proposal_create, SetProposals, Put
  <2> QED
    BY <1>1, <2>1
<1>4. ASSUME NEW q, NEW f, NEW add, NEW remove, proposal_update(q, f, add, remove) PROVE Kept(i)
  BY <1>4, UpdateResolves DEF proposal_update
<1>5. ASSUME NEW q, NEW a, proposal_delete(q, a) PROVE Kept(i)
  BY <1>5, DeleteResolves DEF proposal_delete
<1>6. CASE TxFail \/ OperationThrows
  BY <1>6, ThrowResolves DEF TxFail, OperationThrows, Running, Executing
<1>7. CASE apply_operation
  <2>1. Executing /\ Top.pc <= Len(Body)
    BY <1>7 DEF apply_operation
  <2>2. Op \in Operation
    BY <2>1, ExecutingIs
  <2>3. Op.kind \in {"act", "act_owner", "update", "delete"}
    BY <2>2 DEF Operation
  <2>4. CASE Op.kind \in Acts
    <3>1. proposals' = proposals
      BY <1>7, <2>4 DEF apply_operation, Acts
    <3> QED
      BY <1>1, <3>1
  <2>5. CASE Op.kind = "update"
    <3>1. Update(Op.target, "active", {Op.by}, {})
      BY <1>7, <2>5 DEF apply_operation, Acts
    <3> QED
      BY <3>1, UpdateResolves
  <2>6. CASE Op.kind = "delete"
    <3>1. Delete(Op.target)
      BY <1>7, <2>6 DEF apply_operation, Acts
    <3> QED
      BY <3>1, DeleteResolves
  <2> QED
    BY <2>3, <2>4, <2>5, <2>6 DEF Acts
<1>8. CASE Finished
  <2>1. DOMAIN proposals' = DOMAIN proposals \ {Top.p} /\ frames # <<>> /\ Top.pc > Len(proposals[Top.p].body)
    BY <1>8, PNow, WithoutMap DEF Finished, SetProposals, Executing, Body
  <2> QED
    BY <2>1 DEF Kept
<1>9. CASE ExpireProposal
  <2>1. FirstExpired \in Expired
    BY <1>9, FirstExpiredIs DEF ExpireProposal
  <2>2. DOMAIN proposals \ {FirstExpired} \subseteq DOMAIN proposals'
    BY <1>9, PNow, WithoutMap DEF ExpireProposal, SetProposals
  <2> QED
    BY <2>1, <2>2 DEF Kept, Expired
<1>10. CASE NewBlock
  <2>1. DOMAIN proposals' = DOMAIN proposals
    BY <1>10 DEF NewBlock
  <2> QED
    BY <1>1, <2>1
<1> QED
  BY <1>2, <1>3, <1>4, <1>5, <1>6, <1>7, <1>8, <1>9, <1>10 DEF Next

\* The invariant of proposals: every session that is open, whichever operation or
\* expiration began it, can be undone to a sound state, and goes to an older
\* proposal than the sessions around it.
THEOREM ProposalsInvariant ==
  ASSUME ProposalsAssumption
  PROVE  Spec => []PInv
<1>1. Init => PInv
  BY ProposalsInit
<1>2. PInv /\ [Next]_vars => PInv'
  BY ProposalsStep
<1> QED
  BY <1>1, <1>2, PTL DEF Spec

\* However proposals approve, delete and execute each other, none is deleted while
\* it executes, the nesting descends and ends before the nesting guard, nothing in
\* its review period gains approvals of accounts or is executed before its time,
\* and the index tracks no stranger (proposal_evaluator.cpp, db_block.cpp push_proposal).
THEOREM ProposalsAreGuarded ==
  ASSUME ProposalsAssumption
  PROVE  Spec => [](TypeOK /\ ProposalsGuarded)
<1>1. PInv => TypeOK /\ ProposalsGuarded
  BY InvGuards
<1> QED
  BY <1>1, ProposalsInvariant, PTL

\* A proposal takes effect at most once, none is left when a block is done that has
\* expired, and none disappears without having been executed, vetoed or expired.
THEOREM ProposalsAllResolve ==
  ASSUME ProposalsAssumption
  PROVE  Spec => ProposalsResolve
<1>1. PInv => ExecutedOnce /\ NoneExpired
  BY InvResolves
<1>2. PInv /\ [Next]_vars => [\A i \in DOMAIN proposals : Kept(i)]_vars
  BY StepResolves
<1> QED
  BY <1>1, <1>2, ProposalsInvariant, PTL DEF Spec, ProposalsResolve, KeptUntilResolved

-----------------------------------------------------------------------------
(* Hash time-locked contracts.                                             *)

Contract ==
  [from : Accounts, to : Accounts, amount : HtlcAmounts, preimage : Preimages, size : Nat,
   expiration : Nat, agreed : Nat]

\* What the contracts of a table hold.
Amounts(m) == [i \in DOMAIN m |-> m[i].amount]

\* What contract i of a table holds; nothing if it is not there.
Share(m, i) == IF i \in DOMAIN m THEN m[i].amount ELSE 0

\* The accounts and the contracts own what there was at the start.
Balanced(b, m) == SumOver(b, Accounts) + SumOver(Amounts(m), DOMAIN m) = HtlcSupply * Cardinality(Accounts)

\* No contract of m ends before what was agreed, nor, unless the options can be
\* unset, further ahead of t than some options allow.
Locked(m, t) ==
  \A i \in DOMAIN m : /\ m[i].agreed <= m[i].expiration
                      /\ H!NoOptions \notin Options => \E o \in Options : m[i].expiration <= t + o

HInv ==
  /\ hBalance \in [Accounts -> Nat] /\ htlcs \in Maps(Contract) /\ hNext \in Nat \ {0}
  /\ options \in Options /\ hNow \in 0..HtlcTime
  /\ DOMAIN htlcs \subseteq 1..(hNext - 1)
  /\ Balanced(hBalance, htlcs)
  /\ Locked(htlcs, hNow)

\* The operators of the module are those of the lemmas.
LEMMA HtlcTerms ==
  /\ H!Live = DOMAIN htlcs /\ H!Held = Amounts(htlcs)
  /\ \A f, S : H!SumOver(f, S) = SumOver(f, S)
  /\ \A f, S : H!Restrict(f, S) = Restrict(f, S)
  /\ \A S : H!IsFiniteSet(S) = IsFiniteSet(S)
  /\ \A S : H!Cardinality(S) = Cardinality(S)
<1>1. H!Live = DOMAIN htlcs /\ H!Held = Amounts(htlcs)
  BY DEF H!Live, H!Held, Amounts
<1>2. ASSUME NEW f, NEW S
      PROVE  H!SumOver(f, S) = SumOver(f, S) /\ H!Restrict(f, S) = Restrict(f, S)
             /\ H!IsFiniteSet(S) = IsFiniteSet(S) /\ H!Cardinality(S) = Cardinality(S)
  BY DEF H!SumOver, H!FoldFunctionOnSet, H!MapThenFoldSet, SumOver, FoldFunctionOnSet, MapThenFoldSet,
         H!Restrict, Restrict, H!IsFiniteSet, IsFiniteSet, H!Cardinality, Cardinality
<1> QED
  BY <1>1, <1>2

\* What the constants are.
LEMMA HtlcConstants ==
  ASSUME H!HtlcAssumption
  PROVE  /\ HtlcSupply \in Nat /\ HtlcTime \in Nat /\ HtlcAmounts \subseteq Nat \ {0} /\ Timeouts \subseteq Nat
         /\ MaxPreimageSize \in Nat
         /\ Options \subseteq Nat /\ IsFiniteSet(Options) /\ IsFiniteSet(Accounts)
BY HtlcTerms DEF H!HtlcAssumption

\* What a table of contracts is.
LEMMA ContractType ==
  ASSUME H!HtlcAssumption, NEW m \in Maps(Contract), NEW k \in Nat, DOMAIN m \subseteq 1..k
  PROVE  /\ IsFiniteSet(DOMAIN m)
         /\ \A i \in DOMAIN m : /\ m[i] \in Contract /\ m[i].from \in Accounts /\ m[i].to \in Accounts
                                /\ m[i].amount \in Nat /\ m[i].amount \in HtlcAmounts
                                /\ m[i].expiration \in Nat /\ m[i].agreed \in Nat
                                /\ Amounts(m)[i] = m[i].amount
<1>1. \A i \in DOMAIN m : m[i] \in Contract
  BY MapType
<1>2. IsFiniteSet(DOMAIN m)
  <2>1. 1 \in Int /\ k \in Int
    OBVIOUS
  <2>2. IsFiniteSet(1..k)
    BY <2>1, FS_Interval
  <2> QED
    BY <2>2, FS_Subset
<1> QED
  BY <1>1, <1>2, HtlcConstants DEF Contract, Amounts

\* An account pays an amount into a new contract, or gets it from one that ends.
LEMMA HtlcMoves ==
  ASSUME H!HtlcAssumption, NEW b \in [Accounts -> Nat], NEW c \in [Accounts -> Int],
         NEW m \in Maps(Contract), NEW n \in Maps(Contract), NEW k \in Nat,
         DOMAIN m \subseteq 1..k, DOMAIN n \subseteq 1..k,
         NEW a \in Accounts, NEW i, NEW d \in Int, Balanced(b, m),
         c[a] = b[a] + d, \A x \in Accounts \ {a} : c[x] = b[x],
         DOMAIN m \ {i} = DOMAIN n \ {i}, \A j \in DOMAIN m \ {i} : n[j].amount = m[j].amount,
         Share(n, i) = Share(m, i) - d
  PROVE  Balanced(c, n)
<1> DEFINE B == SumOver(b, Accounts)
           C == SumOver(c, Accounts)
           M == SumOver(Amounts(m), DOMAIN m)
           N == SumOver(Amounts(n), DOMAIN n)
           S == HtlcSupply * Cardinality(Accounts)
           u == IF i \in DOMAIN m THEN m[i].amount ELSE 0
           v == IF i \in DOMAIN n THEN n[i].amount ELSE 0
<1>1. IsFiniteSet(Accounts) /\ IsFiniteSet(DOMAIN m) /\ IsFiniteSet(DOMAIN n)
  BY HtlcConstants, ContractType
<1>2. /\ \A j \in DOMAIN m : Amounts(m)[j] = m[j].amount /\ m[j].amount \in Nat
      /\ \A j \in DOMAIN n : Amounts(n)[j] = n[j].amount /\ n[j].amount \in Nat
  BY ContractType
<1>3. M \in Int /\ N = M + v - u /\ u \in Int /\ v \in Int
  <2>1. /\ \A j \in DOMAIN m : Amounts(m)[j] \in Int
        /\ \A j \in DOMAIN n : Amounts(n)[j] \in Int
        /\ \A j \in DOMAIN m \ {i} : Amounts(m)[j] = Amounts(n)[j]
        /\ DOMAIN m \ {i} = DOMAIN n \ {i}
    BY <1>2
  <2>2. /\ M \in Int
        /\ N = M + (IF i \in DOMAIN n THEN Amounts(n)[i] ELSE 0) - (IF i \in DOMAIN m THEN Amounts(m)[i] ELSE 0)
    <3>1. PICK f, g, X, Y : f = Amounts(m) /\ g = Amounts(n) /\ X = DOMAIN m /\ Y = DOMAIN n
      OBVIOUS
    <3>2. /\ IsFiniteSet(X) /\ IsFiniteSet(Y) /\ X \ {i} = Y \ {i}
          /\ \A j \in X : f[j] \in Int
          /\ \A j \in Y : g[j] \in Int
          /\ \A j \in X \ {i} : f[j] = g[j]
      BY <1>1, <2>1, <3>1
    <3>3. /\ SumOver(f, X) \in Int
          /\ SumOver(g, Y) = SumOver(f, X) + (IF i \in Y THEN g[i] ELSE 0) - (IF i \in X THEN f[i] ELSE 0)
      BY ONLY <3>2, SumDiffer
    <3> QED
      BY <3>1, <3>3
  <2> QED
    BY <1>2, <2>2
<1>4. B \in Int /\ C = B + c[a] - b[a]
  <2>1. /\ \A x \in Accounts : b[x] \in Int /\ c[x] \in Int
        /\ \A x \in Accounts \ {a} : b[x] = c[x]
        /\ a \in Accounts
    OBVIOUS
  <2>2. B \in Int
    BY <1>1, <2>1, SumType
  <2>3. SumOver(c, Accounts) = SumOver(b, Accounts) + c[a] - b[a]
    BY ONLY <1>1, <2>1, SumChange
  <2> QED
    BY <2>2, <2>3
<1>5. c[a] = b[a] + d /\ b[a] \in Int
  OBVIOUS
<1>6. B + M = S /\ v = u - d
  BY DEF Balanced, Share
<1>7. C + N = S
  <2> HIDE DEF B, C, M, N, S, u, v
  <2> QED
    BY <1>3, <1>4, <1>5, <1>6
<1> QED
  BY <1>7 DEF Balanced

\* What the accounts own when the contracts in G have ended and what they held has
\* gone back to those it came from.
Refunded(b, m, G) == [a \in Accounts |-> b[a] + SumOver(Amounts(m), {i \in G : m[i].from = a})]

\* Such a refund keeps the sum.
LEMMA HtlcRefunds ==
  ASSUME H!HtlcAssumption, NEW b \in [Accounts -> Nat], NEW m \in Maps(Contract), NEW k \in Nat,
         DOMAIN m \subseteq 1..k, NEW G \in SUBSET DOMAIN m, Balanced(b, m)
  PROVE  Refunded(b, m, G) \in [Accounts -> Nat] /\ Balanced(Refunded(b, m, G), Restrict(m, DOMAIN m \ G))
<1> DEFINE f == Amounts(m)
           back == [a \in Accounts |-> SumOver(f, {i \in G : m[i].from = a})]
           c == [a \in Accounts |-> b[a] + SumOver(f, {i \in G : m[i].from = a})]
           n == Restrict(m, DOMAIN m \ G)
           from == [i \in G |-> m[i].from]
<1>1. IsFiniteSet(Accounts) /\ IsFiniteSet(DOMAIN m) /\ IsFiniteSet(G) /\ IsFiniteSet(DOMAIN m \ G)
  BY HtlcConstants, ContractType, FS_Subset
<1>2. \A i \in DOMAIN m : f[i] \in Nat /\ m[i].from \in Accounts
  BY ContractType
<1>3. SumOver(back, Accounts) = SumOver(f, G)
  <2>1. \A i \in G : from[i] \in Accounts /\ f[i] \in Int
    BY <1>2
  <2>2. \A a \in Accounts : {i \in G : m[i].from = a} = {i \in G : from[i] = a}
    OBVIOUS
  <2>3. back = [a \in Accounts |-> SumOver(f, {i \in G : from[i] = a})]
    BY <2>2
  <2> HIDE DEF from, f, back
  <2> QED
    BY <1>1, <2>1, <2>3, SumFibres
<1>4. ASSUME NEW a \in Accounts PROVE back[a] \in Nat /\ b[a] \in Nat /\ c[a] = b[a] + back[a]
  <2> DEFINE g == {i \in G : m[i].from = a}
  <2>1. g \subseteq G
    OBVIOUS
  <2>2. IsFiniteSet(g) /\ \A i \in g : f[i] \in Nat
    BY <1>1, <1>2, <2>1, FS_Subset
  <2> HIDE DEF g, f
  <2>3. SumOver(f, g) \in Nat
    BY <2>2, SumNat
  <2> QED
    BY <2>3 DEF g
<1>5. c \in [Accounts -> Nat]
  BY <1>4
<1>6. SumOver(c, Accounts) = SumOver(b, Accounts) + SumOver(back, Accounts)
  <2> HIDE DEF back, c, f
  <2> QED
    BY <1>1, <1>4, SumPlus
<1>7. SumOver(f, DOMAIN m) = SumOver(f, G) + SumOver(f, DOMAIN m \ G)
  <2>1. DOMAIN m = G \cup (DOMAIN m \ G) /\ G \cap (DOMAIN m \ G) = {}
    OBVIOUS
  <2>2. \A i \in G \cup (DOMAIN m \ G) : f[i] \in Int
    BY <1>2
  <2> HIDE DEF f
  <2>3. SumOver(f, G \cup (DOMAIN m \ G)) = SumOver(f, G) + SumOver(f, DOMAIN m \ G)
    BY <1>1, <2>1, <2>2, SumUnion
  <2> QED
    BY <2>1, <2>3
<1>8. DOMAIN n = DOMAIN m \ G /\ SumOver(Amounts(n), DOMAIN n) = SumOver(f, DOMAIN m \ G)
  <2>1. DOMAIN n = DOMAIN m \ G /\ \A i \in DOMAIN m \ G : Amounts(n)[i] = f[i]
    BY DEF Restrict, Amounts
  <2> HIDE DEF f, n
  <2> QED
    BY <1>1, <2>1, SumSame
<1>9. SumOver(f, G) \in Int /\ SumOver(f, DOMAIN m \ G) \in Int /\ SumOver(b, Accounts) \in Int
  <2>1. \A i \in DOMAIN m : f[i] \in Int
    BY <1>2
  <2> HIDE DEF f
  <2> QED
    BY <1>1, <1>4, <2>1, SumType
<1>10. SumOver(b, Accounts) + SumOver(f, DOMAIN m) = HtlcSupply * Cardinality(Accounts)
  BY DEF Balanced
<1>11. SumOver(c, Accounts) + SumOver(Amounts(n), DOMAIN n) = HtlcSupply * Cardinality(Accounts)
  <2> HIDE DEF f, n, c, back
  <2> QED
    BY <1>3, <1>6, <1>7, <1>8, <1>9, <1>10
<1> QED
  BY <1>5, <1>11 DEF Balanced, Refunded

\* What the invariant says of the variables.
LEMMA HtlcNow ==
  ASSUME H!HtlcAssumption, HInv
  PROVE  /\ hNext - 1 \in Nat /\ hNow \in Nat /\ options \in Nat
         /\ \A i \in DOMAIN htlcs : /\ i \in Nat /\ i < hNext
                                    /\ htlcs[i] \in Contract /\ htlcs[i].from \in Accounts
                                    /\ htlcs[i].to \in Accounts /\ htlcs[i].amount \in Nat
                                    /\ htlcs[i].amount \in HtlcAmounts
                                    /\ htlcs[i].expiration \in Nat /\ htlcs[i].agreed \in Nat
<1>1. hNext - 1 \in Nat /\ hNow \in Nat /\ options \in Nat
  BY HtlcConstants DEF HInv
<1>2. htlcs \in Maps(Contract) /\ DOMAIN htlcs \subseteq 1..(hNext - 1)
  BY DEF HInv
<1>3. \A i \in DOMAIN htlcs : i \in Nat /\ i < hNext
  BY <1>1, <1>2 DEF HInv
<1> QED
  BY <1>1, <1>2, <1>3, ContractType

\* A contract is made (htlc_create_evaluator).
LEMMA HtlcCreateKeeps ==
  ASSUME H!HtlcAssumption, HInv, NEW from \in Accounts, NEW to \in Accounts, NEW n \in HtlcAmounts,
         NEW p \in Preimages, NEW size \in 0..MaxPreimageSize, NEW period \in Timeouts,
         H!htlc_create(from, to, n, p, size, period)
  PROVE  HInv'
<1> DEFINE x == [from |-> from, to |-> to, amount |-> n, preimage |-> p, size |-> size,
                 expiration |-> hNow + period, agreed |-> hNow + period]
           m == [i \in DOMAIN htlcs \cup {hNext} |-> IF i # hNext THEN htlcs[i] ELSE x]
           c == [hBalance EXCEPT ![from] = @ - n]
<1>1. /\ period <= options /\ hBalance[from] >= n /\ options # H!NoOptions
      /\ hBalance' = c /\ htlcs' = m /\ hNext' = hNext + 1 /\ options' = options /\ hNow' = hNow
  BY HtlcTerms DEF H!htlc_create
<1>2. n \in Nat \ {0} /\ period \in Nat /\ hNow \in Nat /\ hNext \in Nat \ {0} /\ size \in Nat /\ options \in Nat
  <2>1. MaxPreimageSize \in Nat /\ size \in 0..MaxPreimageSize
    BY HtlcConstants
  <2>2. size \in Nat
    BY ONLY <2>1
  <2> QED
    BY <2>2, HtlcConstants, HtlcNow DEF HInv
<1>3. x \in Contract /\ x.amount = n /\ x.expiration = hNow + period /\ x.agreed = hNow + period
  BY <1>2 DEF Contract
<1> HIDE DEF x
<1>4. /\ DOMAIN m = DOMAIN htlcs \cup {hNext} /\ m[hNext] = x /\ hNext \notin DOMAIN htlcs
      /\ \A i \in DOMAIN htlcs : m[i] = htlcs[i]
  <2>1. hNext \notin DOMAIN htlcs
    BY <1>2, HtlcNow
  <2> QED
    BY <2>1
<1>5. m \in Maps(Contract) /\ DOMAIN m \subseteq 1..hNext /\ DOMAIN htlcs \subseteq 1..hNext
  <2>1. \A i \in DOMAIN m : m[i] \in Contract /\ i \in 1..hNext
    BY <1>2, <1>3, <1>4, HtlcNow DEF HInv
  <2>2. m \in [DOMAIN m -> Contract]
    <3>1. m = [i \in DOMAIN m |-> m[i]]
      OBVIOUS
    <3> HIDE DEF m
    <3> QED
      BY <2>1, <3>1
  <2>4. DOMAIN m \in SUBSET Nat
    <3>1. \A i \in DOMAIN m : i \in Nat
      BY <1>2, <1>4, HtlcNow
    <3> HIDE DEF m
    <3> QED
      BY <3>1
  <2>3. DOMAIN htlcs \subseteq DOMAIN m
    BY <1>4
  <2> HIDE DEF m
  <2> QED
    BY <2>1, <2>2, <2>3, <2>4 DEF Maps
<1>6. /\ c \in [Accounts -> Nat] /\ c[from] = hBalance[from] + (-n)
      /\ \A a \in Accounts \ {from} : c[a] = hBalance[a]
  <2>1. hBalance \in [Accounts -> Nat] /\ hBalance[from] >= n
    BY <1>1 DEF HInv
  <2>2. hBalance[from] - n \in Nat
    BY <1>2, <2>1
  <2> QED
    BY ONLY <1>2, <2>1, <2>2, from \in Accounts
<1> HIDE DEF m, c
<1>7. Balanced(c, m)
  <2>1. /\ DOMAIN htlcs \ {hNext} = DOMAIN m \ {hNext}
        /\ \A j \in DOMAIN htlcs \ {hNext} : m[j].amount = htlcs[j].amount
        /\ Share(m, hNext) = Share(htlcs, hNext) - (-n)
    BY <1>2, <1>3, <1>4 DEF Share
  <2>2. hBalance \in [Accounts -> Nat] /\ htlcs \in Maps(Contract) /\ Balanced(hBalance, htlcs)
    BY DEF HInv
  <2>3. c \in [Accounts -> Int] /\ -n \in Int /\ hNext \in Nat
    BY <1>2, <1>6
  <2> QED
    BY ONLY H!HtlcAssumption, from \in Accounts, <1>5, <1>6, <2>1, <2>2, <2>3, HtlcMoves
<1>8. Locked(m, hNow)
  <2> SUFFICES ASSUME NEW i \in DOMAIN m
               PROVE  /\ m[i].agreed <= m[i].expiration
                      /\ H!NoOptions \notin Options => \E o \in Options : m[i].expiration <= hNow + o
    BY DEF Locked
  <2>1. CASE i = hNext
    <3>1. hNow + period <= hNow + options /\ options \in Options /\ hNow + period <= hNow + period
      BY <1>1, <1>2 DEF HInv
    <3> QED
      BY <1>3, <1>4, <2>1, <3>1
  <2>2. CASE i # hNext
    <3>1. i \in DOMAIN htlcs /\ m[i] = htlcs[i]
      BY <1>4, <2>2
    <3> QED
      BY <3>1 DEF HInv, Locked
  <2> QED
    BY <2>1, <2>2
<1>9. hNext + 1 \in Nat \ {0} /\ (hNext + 1) - 1 = hNext
  BY <1>2
<1>10. hNow' \in 0..HtlcTime /\ options' \in Options
  BY <1>1 DEF HInv
<1> QED
  BY <1>1, <1>5, <1>6, <1>7, <1>8, <1>9, <1>10 DEF HInv

\* The contracts that remain are sound.
LEMMA HtlcRest ==
  ASSUME H!HtlcAssumption, HInv, NEW G
  PROVE  LET m == Restrict(htlcs, DOMAIN htlcs \ G)
         IN /\ m \in Maps(Contract) /\ DOMAIN m = DOMAIN htlcs \ G
            /\ \A i \in DOMAIN m : m[i] = htlcs[i]
            /\ DOMAIN m \subseteq 1..(hNext - 1) /\ Locked(m, hNow)
<1> DEFINE m == Restrict(htlcs, DOMAIN htlcs \ G)
<1>1. DOMAIN m = DOMAIN htlcs \ G /\ \A i \in DOMAIN m : m[i] = htlcs[i]
  BY DEF Restrict
<1>2. htlcs \in [DOMAIN htlcs -> Contract] /\ DOMAIN htlcs \in SUBSET Nat
  BY MapType DEF HInv
<1>3. m \in [DOMAIN htlcs \ G -> Contract] /\ DOMAIN htlcs \ G \in SUBSET Nat
  BY <1>2 DEF Restrict
<1> HIDE DEF m
<1>4. m \in Maps(Contract)
  BY <1>3 DEF Maps
<1>5. DOMAIN m \subseteq 1..(hNext - 1) /\ Locked(m, hNow)
  BY <1>1 DEF HInv, Locked
<1> QED
  BY <1>1, <1>4, <1>5 DEF m

\* A contract is redeemed (htlc_redeem_evaluator).
LEMMA HtlcRedeemKeeps ==
  ASSUME H!HtlcAssumption, HInv, NEW i \in DOMAIN htlcs, NEW p, H!htlc_redeem(i, p)
  PROVE  HInv'
<1> DEFINE m == Restrict(htlcs, DOMAIN htlcs \ {i})
           a == htlcs[i].to
           d == htlcs[i].amount
           c == [hBalance EXCEPT ![a] = @ + d]
<1>1. /\ hBalance' = c /\ htlcs' = m /\ hNext' = hNext /\ options' = options /\ hNow' = hNow
  BY HtlcTerms DEF H!htlc_redeem
<1>2. /\ m \in Maps(Contract) /\ DOMAIN m = DOMAIN htlcs \ {i} /\ \A j \in DOMAIN m : m[j] = htlcs[j]
      /\ DOMAIN m \subseteq 1..(hNext - 1) /\ Locked(m, hNow)
  BY HtlcRest
<1>3. a \in Accounts /\ d \in Nat /\ hNext - 1 \in Nat
  BY HtlcNow
<1>4. c \in [Accounts -> Nat]
  <2> HIDE DEF a, d
  <2> QED
    BY <1>3 DEF HInv
<1> HIDE DEF m, c
<1>5. Balanced(c, m)
  <2>1. /\ DOMAIN htlcs \ {i} = DOMAIN m \ {i}
        /\ \A j \in DOMAIN htlcs \ {i} : m[j].amount = htlcs[j].amount
        /\ Share(m, i) = Share(htlcs, i) - d
    BY <1>2, <1>3 DEF Share
  <2>2. hBalance \in [Accounts -> Nat] /\ htlcs \in Maps(Contract) /\ Balanced(hBalance, htlcs)
        /\ DOMAIN htlcs \subseteq 1..(hNext - 1)
    BY DEF HInv
  <2>3. /\ c \in [Accounts -> Int] /\ d \in Int /\ c[a] = hBalance[a] + d
        /\ \A x \in Accounts \ {a} : c[x] = hBalance[x]
    BY <1>3, <1>4, <2>2 DEF c
  <2> HIDE DEF a, d
  <2> QED
    BY ONLY H!HtlcAssumption, <1>2, <1>3, <2>1, <2>2, <2>3, HtlcMoves
<1> QED
  BY <1>1, <1>2, <1>4, <1>5 DEF HInv

\* A contract is extended (htlc_extend_evaluator).
LEMMA HtlcExtendKeeps ==
  ASSUME H!HtlcAssumption, HInv, NEW i \in DOMAIN htlcs, NEW period \in Timeouts, H!htlc_extend(i, period)
  PROVE  HInv'
<1> DEFINE m == [htlcs EXCEPT ![i].expiration = @ + period]
<1>1. /\ htlcs' = m /\ hBalance' = hBalance /\ hNext' = hNext /\ options' = options /\ hNow' = hNow
  BY DEF H!htlc_extend
<1>2. PICK max \in H!ReadMaxTimeout : htlcs[i].expiration + period <= hNow + max
  BY DEF H!htlc_extend
<1>3. period \in Nat /\ hNow \in Nat /\ htlcs[i].expiration \in Nat /\ htlcs[i].agreed \in Nat /\ htlcs[i] \in Contract
  BY HtlcConstants, HtlcNow
<1>4. ASSUME NEW x \in Contract, NEW e \in Nat
      PROVE  LET y == [x EXCEPT !.expiration = e]
             IN y \in Contract /\ y.amount = x.amount /\ y.expiration = e /\ y.agreed = x.agreed
  BY DEF Contract
<1>5. DOMAIN m = DOMAIN htlcs /\ \A j \in DOMAIN htlcs \ {i} : m[j] = htlcs[j]
  OBVIOUS
<1>6. m[i] = [htlcs[i] EXCEPT !.expiration = htlcs[i].expiration + period]
  OBVIOUS
<1>7. htlcs[i].expiration + period \in Nat
  BY <1>3
<1> HIDE DEF m
<1>8. /\ m[i] \in Contract /\ m[i].amount = htlcs[i].amount /\ m[i].agreed = htlcs[i].agreed
      /\ m[i].expiration = htlcs[i].expiration + period
  BY <1>3, <1>4, <1>6, <1>7
<1>9. m \in Maps(Contract)
  <2>1. htlcs \in [DOMAIN htlcs -> Contract] /\ DOMAIN htlcs \in SUBSET Nat
    BY MapType DEF HInv
  <2>2. m \in [DOMAIN htlcs -> Contract]
    <3>1. \A j \in DOMAIN htlcs : m[j] \in Contract
      BY <1>5, <1>8, <2>1
    <3>2. m = [j \in DOMAIN htlcs |-> m[j]]
      BY <1>5 DEF m
    <3> QED
      BY <3>1, <3>2
  <2> QED
    BY <2>1, <2>2 DEF Maps
<1>10. Amounts(m) = Amounts(htlcs)
  BY <1>5, <1>8 DEF Amounts
<1>11. Balanced(hBalance, m)
  BY <1>5, <1>10 DEF HInv, Balanced
<1>12. Locked(m, hNow)
  <2>1. htlcs[i].agreed <= htlcs[i].expiration
    BY DEF HInv, Locked
  <2>2. m[i].agreed <= m[i].expiration
    BY <1>3, <1>8, <2>1
  <2>3. ASSUME H!NoOptions \notin Options PROVE m[i].expiration <= hNow + options /\ options \in Options
    <3>1. options \in Options /\ options # H!NoOptions
      BY <2>3 DEF HInv
    <3>2. max = options
      BY <3>1 DEF H!ReadMaxTimeout
    <3> QED
      BY <1>2, <1>8, <3>1, <3>2
  <2> QED
    BY <1>5, <2>2, <2>3 DEF HInv, Locked
<1> QED
  BY <1>1, <1>5, <1>9, <1>11, <1>12 DEF HInv

\* The contracts that have expired are refunded (clear_expired_htlcs).
LEMMA HtlcBlockKeeps ==
  ASSUME H!HtlcAssumption, HInv, H!NewBlock
  PROVE  HInv'
<1> DEFINE G == H!Expired(hNow + 1)
           m == Restrict(htlcs, DOMAIN htlcs \ G)
           c == Refunded(hBalance, htlcs, G)
<1>1. /\ hNow < HtlcTime /\ hNow' = hNow + 1 /\ hBalance' = c /\ htlcs' = m /\ hNext' = hNext /\ options' = options
  BY HtlcTerms DEF H!NewBlock, Refunded
<1>2. G \in SUBSET DOMAIN htlcs
  BY HtlcTerms DEF H!Expired
<1>3. /\ m \in Maps(Contract) /\ DOMAIN m = DOMAIN htlcs \ G /\ \A i \in DOMAIN m : m[i] = htlcs[i]
      /\ DOMAIN m \subseteq 1..(hNext - 1) /\ Locked(m, hNow)
  BY HtlcRest
<1>4. c \in [Accounts -> Nat] /\ Balanced(c, m)
  <2>1. hBalance \in [Accounts -> Nat] /\ htlcs \in Maps(Contract) /\ Balanced(hBalance, htlcs)
        /\ DOMAIN htlcs \subseteq 1..(hNext - 1) /\ hNext - 1 \in Nat
    BY HtlcNow DEF HInv
  <2> HIDE DEF G
  <2> QED
    BY <1>2, <2>1, HtlcRefunds
<1> HIDE DEF m, c
<1>5. Locked(m, hNow + 1)
  <2> SUFFICES ASSUME NEW i \in DOMAIN m, H!NoOptions \notin Options
               PROVE  \E o \in Options : m[i].expiration <= (hNow + 1) + o
    BY <1>3 DEF Locked
  <2>1. PICK o \in Options : m[i].expiration <= hNow + o
    BY <1>3 DEF Locked
  <2>2. o \in Nat /\ hNow \in Nat /\ m[i].expiration \in Nat
    BY <1>3, HtlcConstants, HtlcNow
  <2>3. m[i].expiration <= (hNow + 1) + o
    BY <2>1, <2>2
  <2> QED
    BY <2>3
<1>6. hNow + 1 \in 0..HtlcTime
  BY <1>1, HtlcNow, HtlcConstants
<1> QED
  BY <1>1, <1>3, <1>4, <1>5, <1>6 DEF HInv

\* Every step keeps the invariant.
LEMMA HtlcStep ==
  ASSUME H!HtlcAssumption, HInv, H!Next \/ UNCHANGED H!vars
  PROVE  HInv'
<1>1. CASE H!NewBlock
  BY <1>1, HtlcBlockKeeps
<1>2. ASSUME NEW f \in Accounts, NEW t \in Accounts, NEW n \in HtlcAmounts, NEW p \in Preimages,
             NEW s \in 0..MaxPreimageSize, NEW d \in Timeouts, H!htlc_create(f, t, n, p, s, d)
      PROVE  HInv'
  BY <1>2, HtlcCreateKeeps
<1>3. ASSUME NEW i \in DOMAIN htlcs, NEW p \in Preimages, H!htlc_redeem(i, p) PROVE HInv'
  BY <1>3, HtlcRedeemKeeps
<1>4. ASSUME NEW i \in DOMAIN htlcs, NEW d \in Timeouts, H!htlc_extend(i, d) PROVE HInv'
  BY <1>4, HtlcExtendKeeps
<1>5. ASSUME NEW o \in Options, H!UpdateOptions(o) PROVE HInv'
  BY <1>5 DEF H!UpdateOptions, HInv
<1>6. ASSUME NEW a \in Restricted, H!Bar(a) PROVE HInv'
  BY <1>6 DEF H!Bar, HInv
<1>7. CASE UNCHANGED H!vars
  BY <1>7 DEF H!vars, HInv
<1> QED
  BY <1>1, <1>2, <1>3, <1>4, <1>5, <1>6, <1>7, HtlcTerms DEF H!Next

\* The invariant holds at the start.
LEMMA HtlcInit ==
  ASSUME H!HtlcAssumption, H!Init
  PROVE  HInv
<1> DEFINE e == [i \in {} |-> 0]
<1>1. /\ hBalance = [a \in Accounts |-> HtlcSupply] /\ htlcs = e /\ hNext = 1 /\ options \in Options /\ hNow = 0
  BY DEF H!Init
<1>2. DOMAIN e = {} /\ e \in [{} -> Contract] /\ {} \in SUBSET Nat
  OBVIOUS
<1>3. e \in Maps(Contract)
  <2> HIDE DEF e
  <2> QED
    BY <1>2 DEF Maps
<1>4. SumOver(hBalance, Accounts) = HtlcSupply * Cardinality(Accounts) /\ IsFiniteSet(Accounts)
      /\ Cardinality(Accounts) \in Nat /\ HtlcSupply \in Nat
  <2>1. IsFiniteSet(Accounts) /\ HtlcSupply \in Int /\ \A a \in Accounts : hBalance[a] = HtlcSupply
    BY <1>1, HtlcConstants
  <2>2. SumOver(hBalance, Accounts) = HtlcSupply * Cardinality(Accounts)
    BY ONLY <2>1, SumConstant
  <2> QED
    BY <2>1, <2>2, HtlcConstants, FS_CardinalityType
<1>5. Balanced(hBalance, htlcs)
  <2>1. SumOver(Amounts(htlcs), DOMAIN htlcs) = 0
    BY <1>1, <1>2, SumEmpty
  <2> QED
    BY <1>4, <2>1 DEF Balanced
<1>6. Locked(htlcs, hNow)
  BY <1>1, <1>2 DEF Locked
<1>7. hNow \in 0..HtlcTime /\ hNext \in Nat \ {0} /\ hBalance \in [Accounts -> Nat]
  BY <1>1, HtlcConstants
<1> QED
  BY <1>1, <1>2, <1>3, <1>5, <1>6, <1>7 DEF HInv

\* What the invariant says of the properties of the module.
LEMMA InvHtlc ==
  ASSUME H!HtlcAssumption, HInv
  PROVE  /\ H!TypeOK /\ H!Conserved
         /\ H!NoOptions \notin Options => H!LocksBounded
<1>1. H!TypeOK
  BY HtlcTerms, HtlcNow DEF H!TypeOK, HInv
<1>2. H!Conserved
  BY HtlcTerms DEF H!Conserved, HInv, Balanced
<1>3. ASSUME H!NoOptions \notin Options, NEW i \in DOMAIN htlcs PROVE htlcs[i].expiration <= hNow + H!Max(Options)
  <2>1. PICK o \in Options : htlcs[i].expiration <= hNow + o
    BY <1>3 DEF HInv, Locked
  <2>2. Options \subseteq Nat /\ Options # {} /\ IsFiniteSet(Options)
    BY HtlcConstants
  <2>3. PICK t \in Options : \A y \in Options : y <= t
    BY <2>2, GreatestNumber
  <2>4. \A y \in Options : t >= y
    BY <2>2, <2>3
  <2>5. H!Max(Options) \in Options /\ \A y \in Options : H!Max(Options) >= y
    BY <2>4 DEF H!Max
  <2>6. o \in Nat /\ H!Max(Options) \in Nat /\ hNow \in Nat /\ htlcs[i].expiration \in Nat /\ H!Max(Options) >= o
    BY <2>2, <2>5, HtlcNow
  <2> QED
    BY <2>1, <2>6
<1> QED
  BY <1>1, <1>2, <1>3, HtlcTerms DEF H!LocksBounded

\* Only a redemption ends a contract before the time that was agreed.
LEMMA HtlcNotEarly ==
  ASSUME H!HtlcAssumption, HInv, H!Next \/ UNCHANGED H!vars, NEW i \in DOMAIN htlcs, i \notin DOMAIN htlcs',
         hBalance' # [hBalance EXCEPT ![htlcs[i].to] = @ + htlcs[i].amount]
  PROVE  hNow' >= htlcs[i].agreed
<1>1. CASE H!NewBlock
  <2>1. hNow' = hNow + 1 /\ htlcs' = Restrict(htlcs, DOMAIN htlcs \ H!Expired(hNow + 1))
    BY <1>1, HtlcTerms DEF H!NewBlock
  <2>2. i \in H!Expired(hNow + 1)
    BY <2>1 DEF Restrict
  <2>3. htlcs[i].expiration <= hNow + 1
    BY <2>2 DEF H!Expired
  <2>4. htlcs[i].agreed <= htlcs[i].expiration /\ htlcs[i].agreed \in Nat /\ htlcs[i].expiration \in Nat /\ hNow \in Nat
    BY HtlcNow DEF HInv, Locked
  <2> QED
    BY <2>1, <2>3, <2>4
<1>2. ASSUME NEW f, NEW t, NEW n, NEW p, NEW s, NEW d, H!htlc_create(f, t, n, p, s, d) PROVE FALSE
  BY <1>2, HtlcTerms DEF H!htlc_create
<1>3. ASSUME NEW j \in DOMAIN htlcs, NEW p, H!htlc_redeem(j, p) PROVE FALSE
  <2>1. htlcs' = Restrict(htlcs, DOMAIN htlcs \ {j})
        /\ hBalance' = [hBalance EXCEPT ![htlcs[j].to] = @ + htlcs[j].amount]
    BY <1>3, HtlcTerms DEF H!htlc_redeem
  <2>2. i = j
    BY <2>1 DEF Restrict
  <2> QED
    BY <2>1, <2>2
<1>4. ASSUME NEW j, NEW d, H!htlc_extend(j, d) PROVE FALSE
  BY <1>4 DEF H!htlc_extend
<1>5. ASSUME NEW o, H!UpdateOptions(o) PROVE FALSE
  BY <1>5 DEF H!UpdateOptions
<1>6. ASSUME NEW a, H!Bar(a) PROVE FALSE
  BY <1>6 DEF H!Bar
<1>7. CASE UNCHANGED H!vars
  BY <1>7 DEF H!vars
<1> QED
  BY <1>1, <1>2, <1>3, <1>4, <1>5, <1>6, <1>7, HtlcTerms DEF H!Next

\* The inductive invariant of the contracts holds always.
THEOREM HtlcInvariant ==
  ASSUME H!HtlcAssumption
  PROVE  H!Spec => []HInv
<1>1. H!Init => HInv
  BY HtlcInit
<1>2. HInv /\ [H!Next]_H!vars => HInv'
  BY HtlcStep
<1> QED
  BY <1>1, <1>2, PTL DEF H!Spec

\* Whatever is created, extended, redeemed and refunded in whatever order, what the
\* contracts hold and what the accounts own add up to the supply (Conserved).
THEOREM HtlcConserves ==
  ASSUME H!HtlcAssumption
  PROVE  H!Spec => [](H!TypeOK /\ H!Conserved)
<1>1. HInv => H!TypeOK /\ H!Conserved
  BY InvHtlc
<1> QED
  BY <1>1, HtlcInvariant, PTL

\* No sender is refunded before the time agreed, whatever the committee does to the
\* options meanwhile (clear_expired_htlcs, htlc_extend_evaluator).
THEOREM HtlcNeverEarly ==
  ASSUME H!HtlcAssumption
  PROVE  H!Spec => H!NoEarlyRefund
<1>1. HInv /\ [H!Next]_H!vars =>
        [\A i \in H!Live : H!RefundInTime(i)]_H!vars
  BY HtlcNotEarly, HtlcTerms DEF H!RefundInTime
<1> QED
  BY <1>1, HtlcInvariant, PTL DEF H!Spec, H!NoEarlyRefund

\* Where the committee never unsets the options no contract is locked further ahead
\* than they allow, and no refund is early (TimeLocksHold).  With options unset an
\* extension reads them all the same and is bounded by nothing.
THEOREM HtlcTimeLocks ==
  ASSUME H!HtlcAssumption, H!NoOptions \notin Options
  PROVE  H!Spec => H!TimeLocksHold
<1>1. HInv => H!LocksBounded
  BY InvHtlc
<1> QED
  BY <1>1, HtlcInvariant, HtlcNeverEarly, PTL DEF H!TimeLocksHold

-----------------------------------------------------------------------------
(* Withdraw permissions.                                                   *)

\* No permission that can be made ends after the last time there is.
NoWrap == \A t \in 0..WithdrawTime, n \in Counts, d \in Periods : t + n * d < Width

Times == 0..WithdrawTime

Permission ==
  [from : Accounts, to : Accounts, claimed : Nat, updated : BOOLEAN, limit : Limits, asset : Assets,
   period : Periods, start : Nat, expiration : Nat, anchor : Times, count : Counts, taken : [Times -> Nat]]

\* The last period claimed in is m, and claimed is what was taken in it.
InPeriod(p, m, t) ==
  /\ m < p.count /\ p.start = p.anchor + m * p.period
  /\ m > 0 => p.start <= t
  /\ \A k \in Times : k > m => p.taken[k] = 0
  /\ p.taken[m] <= p.claimed
  /\ ~p.updated => p.taken[m] = p.claimed

\* What is known of a permission at time t.
Lawful(p, t) ==
  /\ p.expiration = p.anchor + p.count * p.period
  /\ \A k \in Times : p.taken[k] <= p.limit
  /\ \E m \in Times : InPeriod(p, m, t)

WInv ==
  /\ wBalance \in [Accounts -> [Assets -> Nat]] /\ wNow \in Times /\ wNext \in Nat \ {0}
  /\ permits \in Maps(Permission)
  /\ \A i \in DOMAIN permits : i < wNext /\ Lawful(permits[i], wNow)

\* What the constants are.
LEMMA WithdrawConstants ==
  ASSUME W!WithdrawAssumption
  PROVE  /\ WithdrawSupply \in Nat /\ WithdrawTime \in Nat /\ Width \in Nat /\ WithdrawTime < Width
         /\ Limits \subseteq Nat \ {0} /\ Periods \subseteq Nat \ {0} /\ Counts \subseteq Nat \ {0}
         /\ WithdrawAmounts \subseteq Nat \ {0}
BY DEF W!WithdrawAssumption

\* What a permission is made of.
LEMMA PermissionType ==
  ASSUME W!WithdrawAssumption, NEW p \in Permission
  PROVE  /\ p.from \in Accounts /\ p.to \in Accounts /\ p.asset \in Assets
         /\ p.claimed \in Nat /\ p.limit \in Nat /\ p.period \in Nat \ {0} /\ p.start \in Nat
         /\ p.expiration \in Nat /\ p.anchor \in Nat /\ p.anchor <= WithdrawTime /\ p.count \in Nat \ {0}
         /\ p.count \in Counts /\ p.period \in Periods
         /\ p.taken \in [Times -> Nat] /\ \A k \in Times : p.taken[k] \in Nat
<1>1. /\ p.from \in Accounts /\ p.to \in Accounts /\ p.asset \in Assets
      /\ p.claimed \in Nat /\ p.limit \in Limits /\ p.period \in Periods /\ p.start \in Nat
      /\ p.expiration \in Nat /\ p.anchor \in Times /\ p.count \in Counts /\ p.taken \in [Times -> Nat]
  BY DEF Permission
<1> QED
  BY <1>1, WithdrawConstants DEF Times

\* The terms and the periods of a permission, without wrap.
LEMMA PeriodFacts ==
  ASSUME W!WithdrawAssumption, NoWrap, NEW p \in Permission, NEW m \in Times, p.start = p.anchor + m * p.period,
         m < p.count
  PROVE  /\ m \in Nat /\ m * p.period \in Nat /\ p.start + p.period < Width
         /\ p.start + p.period <= p.anchor + p.count * p.period
         /\ W!After(p.start, p.period) = p.start + p.period
<1> DEFINE d == p.period
           c == p.count
           a == p.anchor
<1>1. d \in Nat \ {0} /\ c \in Nat /\ a \in Nat /\ a \in Times /\ p.start \in Nat /\ m \in Nat /\ c \in Counts /\ d \in Periods
  <2>1. m \in Nat /\ a \in Times
    BY WithdrawConstants DEF Times, Permission
  <2> QED
    BY <2>1, PermissionType
<1>2. m < c /\ p.start = a + m * d
  OBVIOUS
<1>3. a + c * d < Width
  BY <1>1 DEF NoWrap, Times
<1>4. Width \in Nat
  BY WithdrawConstants
<1> HIDE DEF d, c, a
<1>5. (m + 1) * d <= c * d /\ m * d \in Nat /\ c * d \in Nat
  BY <1>1, <1>2, MulMono, MulNat
<1>6. (m + 1) * d = m * d + d
  BY <1>1
<1>7. p.start + d <= a + c * d /\ p.start + d < Width
  BY <1>1, <1>2, <1>3, <1>4, <1>5, <1>6
<1>8. (p.start + d) % Width = p.start + d
  BY <1>1, <1>4, <1>7
<1> QED
  BY <1>1, <1>5, <1>7, <1>8 DEF W!After, d, c, a

\* At time wNow after its start a permission is in period j after the one it was
\* last claimed in.
LEMMA PeriodNow ==
  ASSUME W!WithdrawAssumption, NoWrap, wNow \in Times, NEW p \in Permission, Lawful(p, wNow),
         NEW m \in Times, InPeriod(p, m, wNow), p.start <= wNow
  PROVE  LET j == (wNow - p.start) \div p.period
         IN /\ j \in Nat /\ m + j \in Times /\ W!CurrentPeriod(p) = m + j
            /\ p.start + j * p.period <= wNow /\ wNow < p.start + (j + 1) * p.period
            /\ p.start + j * p.period = p.anchor + (m + j) * p.period
            /\ W!After(p.start, j * p.period) = p.start + j * p.period
            /\ W!After(p.start, p.period) = p.start + p.period
            /\ wNow >= W!After(p.start, p.period) <=> j > 0
            /\ wNow < p.expiration => m + j < p.count
<1> DEFINE d == p.period
           a == p.anchor
           c == p.count
           s == p.start
           x == wNow - s
           j == x \div d
<1>1. d \in Nat \ {0} /\ a \in Nat /\ s \in Nat /\ m \in Nat /\ c \in Nat
  BY WithdrawConstants, PermissionType DEF Times
<1>2. wNow \in Nat /\ WithdrawTime \in Nat /\ Width \in Nat /\ wNow <= WithdrawTime /\ WithdrawTime < Width
  BY WithdrawConstants DEF Times
<1>3. s = a + m * d /\ s <= wNow /\ m * d \in Nat /\ m < c
  BY <1>1, MulNat DEF InPeriod
<1>4. x \in Nat /\ wNow - a = x + m * d /\ p.expiration = a + c * d
  BY <1>1, <1>2, <1>3 DEF Lawful
<1>5. W!After(s, d) = s + d
  BY <1>3, PeriodFacts
<1> HIDE DEF d, a, s, x, c
<1>6. j \in Nat /\ d * j <= x /\ x < d * j + d
  BY <1>1, <1>4, DivFloor
<1>7. (x + m * d) \div d = j + m
  BY <1>1, <1>4, DivShift
<1> HIDE DEF j
<1>8. j * d = d * j /\ (j + 1) * d = j * d + d /\ (m + j) * d = m * d + j * d /\ j * d \in Nat
  BY <1>1, <1>6, MulNat
<1>9. s + j * d <= wNow /\ wNow < s + (j + 1) * d /\ s + j * d = a + (m + j) * d
  BY <1>1, <1>2, <1>3, <1>6, <1>8 DEF x
<1>10. W!CurrentPeriod(p) = m + j
  BY <1>1, <1>4, <1>6, <1>7 DEF W!CurrentPeriod, a, d
<1>11. (s + j * d) % Width = s + j * d
  BY <1>1, <1>2, <1>8, <1>9
<1>12. W!After(s, j * d) = s + j * d
  BY <1>11 DEF W!After
<1>13. m + j \in Times
  <2>1. (m + j) * 1 <= (m + j) * d
    BY <1>1, <1>6, MulMono
  <2>2. m + j <= wNow
    BY <1>1, <1>2, <1>6, <1>8, <1>9, <2>1
  <2> QED
    BY <1>1, <1>2, <1>6, <2>2 DEF Times
<1>14. wNow >= s + d <=> j > 0
  <2>1. CASE j = 0
    BY <1>1, <1>2, <1>8, <1>9, <2>1
  <2>2. CASE j >= 1
    <3>1. 1 * d <= j * d
      BY <1>1, <1>6, <2>2, MulMono
    <3> QED
      BY <1>1, <1>2, <1>6, <1>8, <1>9, <2>2, <3>1
  <2> QED
    BY <1>6, <2>1, <2>2
<1>15. ASSUME wNow < a + c * d PROVE m + j < c
  <2>1. SUFFICES ASSUME c <= m + j PROVE FALSE
    BY <1>1, <1>6
  <2>2. c * d <= (m + j) * d
    BY <1>1, <1>6, <2>1, MulMono
  <2>3. c * d \in Nat /\ (m + j) * d \in Nat
    BY <1>1, <1>6, MulNat
  <2> QED
    BY <1>1, <1>2, <1>9, <1>15, <2>2, <2>3
<1> QED
  BY <1>4, <1>5, <1>6, <1>9, <1>10, <1>12, <1>13, <1>14, <1>15 DEF j, x, d, a, s, c

\* A claim keeps what is known of a permission (withdraw_permission_claim_evaluator).
LEMMA ClaimLawful ==
  ASSUME W!WithdrawAssumption, NoWrap, wNow \in Times, NEW p \in Permission, Lawful(p, wNow),
         NEW n \in Nat \ {0}, p.expiration > wNow, p.start <= wNow, n <= W!Available(p)
  PROVE  W!Claimed(p, n) \in Permission /\ Lawful(W!Claimed(p, n), wNow)
<1>1. PICK m \in Times : InPeriod(p, m, wNow)
  BY DEF Lawful
<1> DEFINE j == (wNow - p.start) \div p.period
           k == m + j
           q == W!Claimed(p, n)
           e == p.start + j * p.period
           c == IF j = 0 THEN p.claimed + n ELSE n
           t == [p.taken EXCEPT ![k] = @ + n]
<1>2. /\ j \in Nat /\ k \in Times /\ W!CurrentPeriod(p) = k /\ e <= wNow /\ e = p.anchor + k * p.period
      /\ W!After(p.start, j * p.period) = e /\ k < p.count
      /\ wNow >= W!After(p.start, p.period) <=> j > 0
  <2>1. wNow < p.expiration
    BY PermissionType, WithdrawConstants DEF Times
  <2> QED
    BY <1>1, <2>1, PeriodNow
<1>3. /\ p.claimed \in Nat /\ p.limit \in Nat /\ p.period \in Nat /\ p.start \in Nat /\ m \in Nat
      /\ \A i \in Times : p.taken[i] \in Nat /\ i \in Nat
      /\ p.taken \in [Times -> Nat]
  BY PermissionType, WithdrawConstants DEF Times
<1>4. j * p.period \in Nat
  BY <1>2, <1>3, MulNat
<1>5. q = [p EXCEPT !.start = e, !.claimed = c, !.taken = t]
  BY <1>2 DEF W!Claimed
<1>6. e \in Nat /\ c \in Nat /\ p.taken[k] \in Nat
  BY <1>2, <1>3, <1>4
<1>7. t \in [Times -> Nat] /\ t[k] = p.taken[k] + n /\ \A i \in Times \ {k} : t[i] = p.taken[i]
  BY <1>2, <1>3, <1>6
<1>8. j = 0 => p.taken[k] <= p.claimed /\ n + p.claimed <= p.limit /\ (~p.updated => p.taken[k] = p.claimed)
  <2> SUFFICES ASSUME j = 0
               PROVE  p.taken[k] <= p.claimed /\ n + p.claimed <= p.limit /\ (~p.updated => p.taken[k] = p.claimed)
    OBVIOUS
  <2>1. k = m
    BY <1>3
  <2>2. W!Available(p) = IF p.limit > p.claimed THEN p.limit - p.claimed ELSE 0
    BY <1>2 DEF W!Available
  <2>3. p.taken[k] <= p.claimed /\ (~p.updated => p.taken[k] = p.claimed)
    BY <1>1, <2>1 DEF InPeriod
  <2>4. p.limit > p.claimed
    BY <2>2
  <2>5. n + p.claimed <= p.limit
    BY <1>3, <2>2, <2>4
  <2> QED
    BY <2>3, <2>5
<1>9. j > 0 => p.taken[k] = 0 /\ n <= p.limit
  <2> SUFFICES ASSUME j > 0 PROVE p.taken[k] = 0 /\ n <= p.limit
    OBVIOUS
  <2>1. k > m
    BY <1>2, <1>3
  <2>2. W!Available(p) = p.limit
    BY <1>2 DEF W!Available
  <2> QED
    BY <1>1, <1>2, <2>1, <2>2 DEF InPeriod
<1> HIDE DEF q, e, c, t
<1> DEFINE Made(x, b, f, g, y) == y = [x EXCEPT !.start = b, !.claimed = f, !.taken = g]
           Same(x, y) == y.updated = x.updated
<1>10. ASSUME NEW x \in Permission, NEW b \in Nat, NEW f \in Nat, NEW g \in [Times -> Nat], NEW y,
              Made(x, b, f, g, y)
       PROVE  /\ y \in Permission /\ y.start = b /\ y.claimed = f /\ y.taken = g
              /\ y.expiration = x.expiration /\ y.anchor = x.anchor /\ y.count = x.count
              /\ y.period = x.period /\ y.limit = x.limit /\ Same(x, y)
  BY <1>10 DEF Permission
<1>17. Made(p, e, c, t, q)
  BY <1>5
<1> HIDE DEF Made, Same
<1>11. /\ q \in Permission /\ q.start = e /\ q.claimed = c /\ q.taken = t
       /\ q.expiration = p.expiration /\ q.anchor = p.anchor /\ q.count = p.count
       /\ q.period = p.period /\ q.limit = p.limit /\ Same(p, q)
  BY ONLY p \in Permission, <1>6, <1>7, <1>10, <1>17
<1>12. \A i \in Times : t[i] <= p.limit
  BY <1>2, <1>3, <1>6, <1>7, <1>8, <1>9 DEF Lawful
<1>13. t[k] <= c /\ (~p.updated => t[k] = c)
  <2>1. CASE j = 0
    <3>1. c = p.claimed + n
      BY <2>1 DEF c
    <3>2. t[k] <= c
      BY <1>3, <1>6, <1>7, <1>8, <2>1, <3>1
    <3>3. ASSUME ~p.updated PROVE t[k] = c
      <4>1. p.taken[k] = p.claimed
        BY <1>8, <2>1, <3>3
      <4> QED
        BY <1>7, <3>1, <4>1
    <3> QED
      BY <3>2, <3>3
  <2>2. CASE j > 0
    <3>1. c = n /\ t[k] = 0 + n
      BY <1>2, <1>7, <1>9, <2>2 DEF c
    <3> QED
      BY <3>1
  <2> QED
    BY <1>2, <2>1, <2>2
<1>14. ASSUME NEW i \in Times, i > k PROVE t[i] = 0
  <2>1. i > m /\ i # k
    BY <1>2, <1>3, <1>14
  <2>2. p.taken[i] = 0
    BY <1>1, <2>1 DEF InPeriod
  <2> QED
    BY <1>7, <2>1, <2>2
<1>15. InPeriod(q, k, wNow)
  BY <1>2, <1>11, <1>13, <1>14 DEF InPeriod, Same
<1> QED
  BY <1>2, <1>11, <1>12, <1>15 DEF Lawful, q

\* New terms are lawful: nothing has been taken under them.
LEMMA TermsLawful ==
  ASSUME W!WithdrawAssumption, NoWrap, wNow \in Times, NEW x, x.from \in Accounts, x.to \in Accounts,
         x.claimed \in Nat, x.updated \in BOOLEAN, x.updated \/ x.claimed = 0, NEW start \in Times, NEW n \in Counts, NEW d \in Periods,
         NEW l \in Limits, NEW s \in Assets
  PROVE  W!Terms(x, start, n, d, l, s) \in Permission /\ Lawful(W!Terms(x, start, n, d, l, s), wNow)
<1> DEFINE e == W!Expiration(start, n, d)
           z == [k \in Times |-> 0]
           y == [from |-> x.from, to |-> x.to, claimed |-> x.claimed, updated |-> x.updated, limit |-> l,
                 asset |-> s, period |-> d, start |-> start, expiration |-> e,
                 anchor |-> start, count |-> n, taken |-> z]
<1>1. start \in Nat /\ n \in Nat \ {0} /\ d \in Nat \ {0} /\ l \in Nat /\ Width \in Nat /\ WithdrawTime \in Nat
  BY WithdrawConstants DEF Times
<1>2. n * d \in Nat /\ start + n * d < Width
  BY <1>1, MulNat DEF NoWrap, Times
<1>3. (start + n * d) % Width = start + n * d
  BY <1>1, <1>2
<1>4. e = start + n * d /\ e \in Nat
  BY <1>1, <1>2, <1>3 DEF W!Expiration, W!After
<1>5. W!Terms(x, start, n, d, l, s) = y
  BY DEF W!Terms, Times
<1>6. z \in [Times -> Nat] /\ \A k \in Times : z[k] = 0
  OBVIOUS
<1> HIDE DEF e, z
<1>7. y \in Permission
  BY <1>1, <1>4, <1>6 DEF Permission
<1>8. /\ y.expiration = e /\ y.anchor = start /\ y.start = start /\ y.count = n /\ y.period = d /\ y.limit = l
      /\ y.taken = z /\ y.claimed = x.claimed
  OBVIOUS
<1>11. y.updated = x.updated
  OBVIOUS
<1> HIDE DEF y
<1>9. 0 \in Times /\ 0 * d = 0
  BY <1>1 DEF Times
<1>10. InPeriod(y, 0, wNow)
  <2>1. z[0] = 0
    BY <1>6, <1>9
  <2>2. y.updated \/ y.claimed = 0
    BY <1>8, <1>11
  <2>3. y.taken[0] = 0
    BY <1>8, <2>1
  <2> QED
    BY <1>1, <1>6, <1>8, <1>9, <2>1, <2>2, <2>3 DEF InPeriod
<1> QED
  BY <1>1, <1>4, <1>5, <1>6, <1>7, <1>8, <1>9, <1>10 DEF Lawful

\* What is known of a permission gives the limits.
LEMMA LawfulLimits ==
  ASSUME W!WithdrawAssumption, NoWrap, wNow \in Times, NEW p \in Permission, Lawful(p, wNow)
  PROVE  /\ \A k \in Times : p.taken[k] <= p.limit
         /\ SumOver(p.taken, Times) <= p.limit * p.count
         /\ p.anchor <= wNow /\ ~p.updated => W!Available(p) = p.limit - p.taken[W!CurrentPeriod(p)]
<1>1. PICK m \in Times : InPeriod(p, m, wNow)
  BY DEF Lawful
<1> DEFINE A == {k \in Times : k < p.count}
           B == {k \in Times : k >= p.count}
           g == [k \in A |-> p.limit]
<1>2. /\ p.claimed \in Nat /\ p.limit \in Nat /\ p.start \in Nat /\ p.count \in Nat /\ p.anchor \in Nat
      /\ m \in Nat /\ wNow \in Nat
      /\ \A i \in Times : p.taken[i] \in Nat /\ i \in Nat
  BY PermissionType, WithdrawConstants DEF Times
<1>3. IsFiniteSet(Times)
  <2>1. 0 \in Int /\ WithdrawTime \in Int
    BY WithdrawConstants
  <2>2. IsFiniteSet(0..WithdrawTime)
    BY <2>1, FS_Interval
  <2> QED
    BY <2>2 DEF Times
<1>4. IsFiniteSet(A) /\ IsFiniteSet(B) /\ A \subseteq Times /\ B \subseteq Times
  BY <1>3, FS_Subset
<1>5. Times = A \cup B /\ A \cap B = {}
  BY <1>2
<1>6. \A k \in B : p.taken[k] = 0
  <2> SUFFICES ASSUME NEW k \in B PROVE p.taken[k] = 0
    OBVIOUS
  <2>1. m < p.count
    BY <1>1 DEF InPeriod
  <2>2. k > m
    BY <1>2, <2>1
  <2> QED
    BY <1>1, <2>2 DEF InPeriod
<1>7. Cardinality(A) \in Nat /\ Cardinality(A) <= p.count
  <2> DEFINE C == 0..(p.count - 1)
  <2>1. A \subseteq C
    <3> SUFFICES ASSUME NEW k \in A PROVE k \in C
      OBVIOUS
    <3>1. k \in Nat /\ k < p.count
      BY <1>2
    <3> QED
      BY <1>2, <3>1
  <2>2. 0 \in Int /\ p.count - 1 \in Int
    BY <1>2
  <2>3. IsFiniteSet(C) /\ Cardinality(C) = IF 0 > p.count - 1 THEN 0 ELSE (p.count - 1) - 0 + 1
    BY <2>2, FS_Interval
  <2>4. Cardinality(C) = p.count
    BY <1>2, <2>3
  <2> HIDE DEF A, C
  <2>5. Cardinality(A) <= Cardinality(C)
    BY <2>1, <2>3, FS_Subset
  <2> QED
    BY <1>4, <2>4, <2>5, FS_CardinalityType
<1>8. \A k \in A : g[k] = p.limit /\ p.taken[k] <= g[k] /\ p.taken[k] \in Int /\ g[k] \in Int
  BY <1>2 DEF Lawful
<1> HIDE DEF A, B, g
<1>9. SumOver(p.taken, A \cup B) = SumOver(p.taken, A) + SumOver(p.taken, B)
  <2>1. \A k \in A \cup B : p.taken[k] \in Int
    BY <1>2, <1>5
  <2> QED
    BY <1>4, <1>5, <2>1, SumUnion
<1>10. SumOver(p.taken, B) = 0 * Cardinality(B)
  BY <1>4, <1>6, SumConstant
<1>11. SumOver(p.taken, A) <= SumOver(g, A) /\ SumOver(p.taken, A) \in Int
  BY <1>4, <1>8, SumMonotone, SumType
<1>12. SumOver(g, A) = p.limit * Cardinality(A)
  <2>1. p.limit \in Int /\ \A k \in A : g[k] = p.limit
    BY <1>2, <1>8
  <2>2. PICK v : v = p.limit
    OBVIOUS
  <2>3. v \in Int /\ \A k \in A : g[k] = v
    BY <2>1, <2>2
  <2>4. SumOver(g, A) = v * Cardinality(A)
    BY ONLY <1>4, <2>3, SumConstant
  <2> QED
    BY <2>2, <2>4
<1>13. SumOver(p.taken, Times) <= p.limit * p.count
  <2>1. Cardinality(B) \in Nat
    BY <1>4, FS_CardinalityType
  <2>2. SumOver(p.taken, B) = 0
    BY <1>10, <2>1
  <2>3. p.limit * Cardinality(A) <= p.limit * p.count /\ p.limit * Cardinality(A) \in Nat /\ p.limit * p.count \in Nat
    BY <1>2, <1>7, MulMono, MulNat
  <2> QED
    BY <1>5, <1>9, <1>11, <1>12, <2>2, <2>3
<1>14. ASSUME p.anchor <= wNow, ~p.updated PROVE W!Available(p) = p.limit - p.taken[W!CurrentPeriod(p)]
  <2> DEFINE j == (wNow - p.start) \div p.period
  <2>1. p.start <= wNow
    <3>1. CASE m = 0
      <4>1. p.start = p.anchor + 0 * p.period /\ p.period \in Nat
        BY <1>1, <3>1, PermissionType DEF InPeriod
      <4> QED
        BY <1>2, <1>14, <4>1
    <3>2. CASE m > 0
      BY <1>1, <3>2 DEF InPeriod
    <3> QED
      BY <1>2, <3>1, <3>2
  <2>2. /\ j \in Nat /\ m + j \in Times /\ W!CurrentPeriod(p) = m + j
        /\ wNow >= W!After(p.start, p.period) <=> j > 0
    BY <1>1, <2>1, PeriodNow
  <2> HIDE DEF j
  <2>3. CASE j = 0
    <3>1. p.taken[m + j] = p.claimed /\ p.claimed <= p.limit
      <4>1. m + j = m
        BY <1>2, <2>3
      <4>2. p.taken[m] = p.claimed
        BY <1>1, <1>14 DEF InPeriod
      <4> QED
        BY <4>1, <4>2 DEF Lawful
    <3>2. W!Available(p) = IF p.limit > p.claimed THEN p.limit - p.claimed ELSE 0
      BY <2>2, <2>3 DEF W!Available
    <3> QED
      BY <1>2, <2>2, <3>1, <3>2
  <2>4. CASE j > 0
    <3>1. p.taken[m + j] = 0
      BY <1>1, <1>2, <2>2, <2>4 DEF InPeriod
    <3>2. W!Available(p) = p.limit
      BY <2>2, <2>4 DEF W!Available
    <3> QED
      BY <1>2, <2>2, <3>1, <3>2
  <2> QED
    BY <2>2, <2>3, <2>4
<1> QED
  BY <1>13, <1>14 DEF Lawful

\* The operators of the module are those of the lemmas.
LEMMA WithdrawTerms ==
  /\ W!Live = DOMAIN permits
  /\ \A f, S : W!SumOver(f, S) = SumOver(f, S)
  /\ \A f, S : W!Restrict(f, S) = Restrict(f, S)
<1>1. W!Live = DOMAIN permits
  BY DEF W!Live
<1>2. ASSUME NEW f, NEW S PROVE W!SumOver(f, S) = SumOver(f, S) /\ W!Restrict(f, S) = Restrict(f, S)
  BY DEF W!SumOver, W!FoldFunctionOnSet, W!MapThenFoldSet, SumOver, FoldFunctionOnSet, MapThenFoldSet,
         W!Restrict, Restrict
<1> QED
  BY <1>1, <1>2

\* What the invariant says of the permissions.
LEMMA WithdrawNow ==
  ASSUME W!WithdrawAssumption, WInv
  PROVE  /\ wNow \in Nat /\ wNext \in Nat
         /\ \A i \in DOMAIN permits : i \in Nat /\ permits[i] \in Permission
BY WithdrawConstants, MapType DEF WInv, Times

\* Some of the permissions, perhaps at a later time, are as lawful as before.
LEMMA WithdrawRest ==
  ASSUME W!WithdrawAssumption, WInv, NEW S \in SUBSET DOMAIN permits, NEW t \in Times, wNow <= t
  PROVE  LET m == Restrict(permits, S)
         IN m \in Maps(Permission) /\ \A i \in DOMAIN m : i < wNext /\ Lawful(m[i], t)
<1> DEFINE m == Restrict(permits, S)
<1>1. DOMAIN m = S /\ \A i \in S : m[i] = permits[i]
  BY DEF Restrict
<1>2. permits \in [DOMAIN permits -> Permission] /\ DOMAIN permits \in SUBSET Nat
  BY MapType DEF WInv
<1>3. m \in [S -> Permission] /\ S \in SUBSET Nat
  BY <1>2 DEF Restrict
<1> HIDE DEF m
<1>4. m \in Maps(Permission)
  BY <1>3 DEF Maps
<1>5. ASSUME NEW i \in S PROVE i < wNext /\ Lawful(permits[i], t)
  <2>1. i < wNext /\ Lawful(permits[i], wNow) /\ permits[i].start \in Nat /\ wNow \in Nat /\ t \in Nat
    BY <1>2, PermissionType, WithdrawConstants DEF WInv, Times
  <2>2. PICK k \in Times : InPeriod(permits[i], k, wNow)
    BY <2>1 DEF Lawful
  <2>3. permits[i].start <= wNow => permits[i].start <= t
    BY <2>1
  <2>4. InPeriod(permits[i], k, t)
    BY <2>2, <2>3 DEF InPeriod
  <2> QED
    BY <2>1, <2>4 DEF Lawful
<1> QED
  BY <1>1, <1>4, <1>5 DEF m

\* One permission becomes p, the others stay.
LEMMA WithdrawPut ==
  ASSUME W!WithdrawAssumption, WInv, NEW i \in Nat, NEW p \in Permission, Lawful(p, wNow), NEW m,
         DOMAIN m = DOMAIN permits \cup {i}, m = [j \in DOMAIN m |-> m[j]], m[i] = p,
         \A j \in DOMAIN permits \ {i} : m[j] = permits[j], NEW k \in Nat, wNext <= k, i < k
  PROVE  m \in Maps(Permission) /\ \A j \in DOMAIN m : j < k /\ Lawful(m[j], wNow)
<1>1. \A j \in DOMAIN permits : j \in Nat /\ permits[j] \in Permission /\ j < wNext /\ Lawful(permits[j], wNow)
  BY WithdrawNow DEF WInv
<1>2. wNext \in Nat
  BY WithdrawNow
<1>3. \A j \in DOMAIN m : m[j] \in Permission /\ j \in Nat /\ j < k /\ Lawful(m[j], wNow)
  BY <1>1, <1>2
<1>4. m \in [DOMAIN m -> Permission] /\ DOMAIN m \in SUBSET Nat
  BY <1>3
<1> QED
  BY <1>3, <1>4 DEF Maps

\* A payment leaves no account with less than nothing.
LEMMA PaidBalance ==
  ASSUME wBalance \in [Accounts -> [Assets -> Nat]], NEW f \in Accounts, NEW t \in Accounts, NEW s \in Assets,
         NEW n \in Nat, wBalance[f][s] >= n
  PROVE  W!Paid(f, t, s, n) \in [Accounts -> [Assets -> Nat]]
<1> DEFINE c == [wBalance EXCEPT ![f][s] = @ - n]
<1>1. c \in [Accounts -> [Assets -> Nat]]
  OBVIOUS
<1>2. W!Paid(f, t, s, n) = [c EXCEPT ![t][s] = @ + n]
  BY DEF W!Paid
<1> HIDE DEF c
<1>3. [c EXCEPT ![t][s] = @ + n] \in [Accounts -> [Assets -> Nat]]
  BY <1>1
<1> QED
  BY <1>2, <1>3

\* Every step keeps the invariant.
LEMMA WithdrawStep ==
  ASSUME W!WithdrawAssumption, NoWrap, WInv, W!Next \/ UNCHANGED W!vars
  PROVE  WInv'
<1> USE WithdrawTerms
<1>0. /\ wBalance \in [Accounts -> [Assets -> Nat]] /\ wNow \in Times /\ wNext \in Nat \ {0} /\ wNext + 1 \in Nat \ {0}
      /\ wNext \in Nat /\ wNow \in Nat /\ permits \in Maps(Permission)
      /\ permits = [j \in DOMAIN permits |-> permits[j]]
  BY WithdrawNow, MapType DEF WInv
<1>1. ASSUME NEW f \in Accounts, NEW t \in Accounts, NEW l \in Limits, NEW s \in Assets, NEW t0 \in 0..WithdrawTime,
             NEW n \in Counts, NEW d \in Periods, W!withdraw_permission_create(f, t, l, s, t0, n, d)
      PROVE  WInv'
  <2> DEFINE x == [from |-> f, to |-> t, claimed |-> 0, updated |-> FALSE]
             p == W!Terms(x, t0, n, d, l, s)
             m == [i \in DOMAIN permits \cup {wNext} |-> IF i # wNext THEN permits[i] ELSE p]
  <2>1. permits' = m /\ wNext' = wNext + 1 /\ wBalance' = wBalance /\ wNow' = wNow
    BY <1>1 DEF W!withdraw_permission_create
  <2>2. x.from \in Accounts /\ x.to \in Accounts /\ x.claimed \in Nat /\ x.updated \in BOOLEAN /\ x.claimed = 0
        /\ t0 \in Times
    BY DEF Times
  <2> HIDE DEF x
  <2>3. p \in Permission /\ Lawful(p, wNow)
    BY <1>0, <2>2, TermsLawful
  <2> HIDE DEF p
  <2>4. /\ DOMAIN m = DOMAIN permits \cup {wNext} /\ m = [j \in DOMAIN m |-> m[j]] /\ m[wNext] = p
        /\ \A j \in DOMAIN permits \ {wNext} : m[j] = permits[j]
        /\ wNext <= wNext + 1 /\ wNext < wNext + 1
    BY <1>0
  <2> HIDE DEF m
  <2>5. m \in Maps(Permission) /\ \A j \in DOMAIN m : j < wNext + 1 /\ Lawful(m[j], wNow)
    BY <1>0, <2>3, <2>4, WithdrawPut
  <2> QED
    BY <1>0, <2>1, <2>5 DEF WInv
<1>2. ASSUME NEW i \in DOMAIN permits, NEW l \in Limits, NEW s \in Assets, NEW t0 \in 0..WithdrawTime,
             NEW n \in Counts, NEW d \in Periods, W!withdraw_permission_update(i, l, s, t0, n, d)
      PROVE  WInv'
  <2> DEFINE x == [permits[i] EXCEPT !.updated = TRUE]
             p == W!Terms(x, t0, n, d, l, s)
             m == [permits EXCEPT ![i] = p]
  <2>1. permits' = m /\ wNext' = wNext /\ wBalance' = wBalance /\ wNow' = wNow
    BY <1>2 DEF W!withdraw_permission_update
  <2>2. permits[i] \in Permission /\ i \in Nat /\ t0 \in Times
    BY WithdrawNow DEF Times
  <2>3. x.from \in Accounts /\ x.to \in Accounts /\ x.claimed \in Nat
    BY <2>2 DEF Permission
  <2>4. x.updated = TRUE
    BY <2>2 DEF Permission
  <2> HIDE DEF x
  <2>5. p \in Permission /\ Lawful(p, wNow)
    <3>1. x.updated \in BOOLEAN /\ (x.updated \/ x.claimed = 0)
      BY <2>4
    <3> QED
      BY <1>0, <2>2, <2>3, <3>1, TermsLawful
  <2> HIDE DEF p
  <2>6. /\ DOMAIN m = DOMAIN permits \cup {i} /\ m = [j \in DOMAIN m |-> m[j]] /\ m[i] = p
        /\ \A j \in DOMAIN permits \ {i} : m[j] = permits[j]
        /\ wNext <= wNext /\ i < wNext
    <3>1. DOMAIN m = DOMAIN permits
      OBVIOUS
    <3>2. m = [j \in DOMAIN permits |-> m[j]]
      BY <1>0
    <3>3. m[i] = p /\ (\A j \in DOMAIN permits \ {i} : m[j] = permits[j]) /\ wNext <= wNext /\ i < wNext
      BY <1>0 DEF WInv
    <3> HIDE DEF m
    <3> QED
      BY <3>1, <3>2, <3>3
  <2> HIDE DEF m
  <2>7. m \in Maps(Permission) /\ \A j \in DOMAIN m : j < wNext /\ Lawful(m[j], wNow)
    BY <1>0, <2>2, <2>5, <2>6, WithdrawPut
  <2> QED
    BY <1>0, <2>1, <2>7 DEF WInv
<1>3. ASSUME NEW i \in DOMAIN permits, W!withdraw_permission_delete(i) PROVE WInv'
  <2>1. /\ permits' = Restrict(permits, DOMAIN permits \ {i})
        /\ wNext' = wNext /\ wBalance' = wBalance /\ wNow' = wNow
    BY <1>3 DEF W!withdraw_permission_delete
  <2>2. DOMAIN permits \ {i} \in SUBSET DOMAIN permits /\ wNow <= wNow
    BY <1>0
  <2> QED
    BY <1>0, <2>1, <2>2, WithdrawRest DEF WInv
<1>4. ASSUME NEW i \in DOMAIN permits, NEW n \in WithdrawAmounts, W!withdraw_permission_claim(i, n) PROVE WInv'
  <2> DEFINE p == permits[i]
             q == W!Claimed(p, n)
             m == [permits EXCEPT ![i] = q]
             b == W!Paid(p.from, p.to, p.asset, n)
  <2>1. /\ p.expiration > wNow /\ p.start <= wNow /\ n <= W!Available(p) /\ wBalance[p.from][p.asset] >= n
        /\ permits' = m /\ wBalance' = b /\ wNext' = wNext /\ wNow' = wNow
    BY <1>4 DEF W!withdraw_permission_claim
  <2>2. p \in Permission /\ i \in Nat /\ n \in Nat \ {0} /\ Lawful(p, wNow) /\ i < wNext
    BY WithdrawNow, WithdrawConstants DEF WInv
  <2>3. p.from \in Accounts /\ p.to \in Accounts /\ p.asset \in Assets
    BY <2>2, PermissionType
  <2>4. b \in [Accounts -> [Assets -> Nat]]
    <3> HIDE DEF p
    <3> QED
      BY <1>0, <2>1, <2>2, <2>3, PaidBalance
  <2> HIDE DEF b
  <2>5. q \in Permission /\ Lawful(q, wNow)
    <3> HIDE DEF p
    <3> QED
      BY <1>0, <2>1, <2>2, ClaimLawful
  <2> HIDE DEF q
  <2>6. /\ DOMAIN m = DOMAIN permits \cup {i} /\ m = [j \in DOMAIN m |-> m[j]] /\ m[i] = q
        /\ \A j \in DOMAIN permits \ {i} : m[j] = permits[j]
        /\ wNext <= wNext /\ i < wNext
    <3>1. DOMAIN m = DOMAIN permits
      OBVIOUS
    <3>2. m = [j \in DOMAIN permits |-> m[j]]
      BY <1>0
    <3>3. m[i] = q /\ (\A j \in DOMAIN permits \ {i} : m[j] = permits[j]) /\ wNext <= wNext /\ i < wNext
      BY <1>0, <2>2
    <3> HIDE DEF m
    <3> QED
      BY <3>1, <3>2, <3>3
  <2> HIDE DEF m
  <2>7. m \in Maps(Permission) /\ \A j \in DOMAIN m : j < wNext /\ Lawful(m[j], wNow)
    BY <1>0, <2>2, <2>5, <2>6, WithdrawPut
  <2> QED
    BY <1>0, <2>1, <2>4, <2>7 DEF WInv
<1>5. ASSUME NEW a, W!Bar(a) PROVE WInv'
  BY <1>5 DEF W!Bar, WInv
<1>6. CASE W!NewBlock
  <2> DEFINE S == {i \in DOMAIN permits : permits[i].expiration > wNow + 1}
  <2>1. /\ wNow < WithdrawTime /\ wNow' = wNow + 1 /\ permits' = Restrict(permits, S)
        /\ wNext' = wNext /\ wBalance' = wBalance
    BY <1>6 DEF W!NewBlock
  <2>2. S \in SUBSET DOMAIN permits /\ wNow <= wNow + 1 /\ wNow + 1 \in Times
    BY <1>0, <2>1, WithdrawConstants DEF Times
  <2> HIDE DEF S
  <2> QED
    BY <1>0, <2>1, <2>2, WithdrawRest DEF WInv
<1>7. CASE UNCHANGED W!vars
  BY <1>7 DEF W!vars, WInv
<1> QED
  BY <1>1, <1>2, <1>3, <1>4, <1>5, <1>6, <1>7 DEF W!Next

\* The invariant holds at the start.
LEMMA WithdrawInit ==
  ASSUME W!WithdrawAssumption, W!Init
  PROVE  WInv
<1> DEFINE e == [i \in {} |-> 0]
<1>1. /\ wBalance = [a \in Accounts |-> [s \in Assets |-> WithdrawSupply]] /\ permits = e /\ wNext = 1 /\ wNow = 0
  BY DEF W!Init
<1>2. DOMAIN e = {} /\ e \in [{} -> Permission] /\ {} \in SUBSET Nat
  OBVIOUS
<1>3. e \in Maps(Permission)
  <2> HIDE DEF e
  <2> QED
    BY <1>2 DEF Maps
<1>4. wBalance \in [Accounts -> [Assets -> Nat]] /\ wNow \in Times
  BY <1>1, WithdrawConstants DEF Times
<1> QED
  BY <1>1, <1>2, <1>3, <1>4 DEF WInv

\* What the invariant says of the properties of the module.
LEMMA InvWithdraw ==
  ASSUME W!WithdrawAssumption, NoWrap, WInv
  PROVE  W!TypeOK /\ W!WithinLimits
<1>1. \A i \in DOMAIN permits : permits[i] \in Permission /\ Lawful(permits[i], wNow) /\ i < wNext
  BY WithdrawNow DEF WInv
<1>2. ASSUME NEW i \in DOMAIN permits PROVE permits[i].start \in 0..(Width - 1) /\ permits[i].claimed \in Nat
  <2>1. PICK m \in Times : InPeriod(permits[i], m, wNow)
    BY <1>1 DEF Lawful
  <2>2. /\ permits[i].start + permits[i].period < Width /\ permits[i].start \in Nat /\ permits[i].period \in Nat
        /\ permits[i].claimed \in Nat
    BY <1>1, <2>1, PeriodFacts, PermissionType DEF InPeriod
  <2> QED
    BY <2>2, WithdrawConstants
<1>3. W!TypeOK
  BY <1>1, <1>2, WithdrawTerms DEF W!TypeOK, WInv, Times
<1>4. W!LimitPerPeriod
  BY <1>1, WithdrawTerms DEF W!LimitPerPeriod, Lawful, Times
<1>5. wNow \in Times
  BY DEF WInv
<1>6. W!TotalBounded
  BY <1>1, <1>5, LawfulLimits, WithdrawTerms DEF W!TotalBounded, Times
<1>7. W!AvailableExact
  BY <1>1, <1>5, LawfulLimits, WithdrawTerms DEF W!AvailableExact
<1> QED
  BY <1>3, <1>4, <1>6, <1>7 DEF W!WithinLimits

\* However periods drift between claims, and whatever the payer changes, no more
\* than the limit is taken in any period, nothing after the last one, and what is
\* available is exact (WithinLimits), as long as no time wraps at 32 bits.
THEOREM WithdrawWithinLimits ==
  ASSUME W!WithdrawAssumption, NoWrap
  PROVE  W!Spec => [](W!TypeOK /\ W!WithinLimits)
<1>1. W!Init => WInv
  BY WithdrawInit
<1>2. WInv /\ [W!Next]_W!vars => WInv'
  BY WithdrawStep
<1>3. WInv => W!TypeOK /\ W!WithinLimits
  BY InvWithdraw
<1> QED
  BY <1>1, <1>2, <1>3, PTL DEF W!Spec
=============================================================================
