------------------------------- MODULE Proposals -------------------------------
(***************************************************************************)
(* Proposed transactions: approvals, execution inside the transaction that *)
(* brings the last approval, execution at expiration, proposals that       *)
(* approve or delete other proposals, and the undo sessions that nest in   *)
(* each other while this happens.  The execution is a stack of frames, one *)
(* per undo session, and every operation of a proposal is a step.          *)
(***************************************************************************)
EXTENDS Integers, Sequences, FiniteSets, FiniteSetsExt, SequencesExt, Functions

CONSTANTS
  Accounts,     \* accounts that approve
  Bodies,       \* the sequences of operations that may be proposed
  Reviews,      \* review periods, 0 for none
  MaxLifetime,  \* maximum_proposal_lifetime
  MaxNesting,   \* twice the number of active witnesses
  MaxProposals, MaxTime, MaxOps, MaxToggles  \* bounds

Fields == {"active", "owner", "keys"}

\* A proposed operation: "act" stands for any operation that needs the active or
\* the owner authority of an account; the others are proposal_update with an
\* active approval and proposal_delete.
Operation == [kind : {"act", "act_owner", "update", "delete"}, by : Accounts, target : Nat]

Acts == {"act", "act_owner"}

\* What the constants are assumed to be; the operations of a body that act stand
\* together as one.
ProposalsAssumption ==
  /\ Bodies \subseteq Seq(Operation)
  /\ \A b \in Bodies : \A i, j \in DOMAIN b : b[i].kind \in Acts /\ b[j].kind \in Acts => i = j
  /\ Reviews \subseteq Nat
  /\ {MaxLifetime, MaxNesting, MaxProposals, MaxTime, MaxOps, MaxToggles} \subseteq Nat

VARIABLES
  proposals,  \* id -> proposal_object
  done,       \* id -> how often the operations of the proposal have taken effect
  vetoed,     \* ids that proposal_delete removed
  index,      \* required_approval_index: the set of pairs account, id
  frames,     \* the undo sessions of the running transaction, outermost first
  now,        \* head block time
  phase,      \* "idle", "expiring"
  works,      \* whether an operation "act" would succeed at present
  nextId, ops, toggles   \* the next id, and counters for the bounds

vars == <<proposals, done, vetoed, index, frames, now, phase, works, nextId, ops, toggles>>

EmptyFun == [i \in {} |-> 0]
Put(f, k, v) == [i \in DOMAIN f \cup {k} |-> IF i = k THEN v ELSE f[i]]
Without(f, k) == Restrict(f, DOMAIN f \ {k})
Saved == [proposals |-> proposals, done |-> done, vetoed |-> vetoed, nextId |-> nextId]

Init ==
  /\ proposals = EmptyFun
  /\ done = [i \in 1..MaxProposals |-> 0]
  /\ vetoed = {} /\ index = {}
  /\ frames = <<>>
  /\ now = 0 /\ phase = "idle" /\ works = TRUE
  /\ nextId = 1 /\ ops = 0 /\ toggles = 0

----------------------------------------------------------------------------
\* The secondary index of accounts and proposals

Parties(p) == p.reqActive \cup p.reqOwner \cup p.active \cup p.owner

\* mutant: undoing or deleting a proposal leaves the accounts that approved it
IndexMoveKeeps(idx, from, to) ==
  LET both == DOMAIN from \cap DOMAIN to
      inserted == UNION {{<<a, i>> : a \in Parties(to[i])} : i \in DOMAIN to \ DOMAIN from}
      gone(f) == UNION {{<<a, i>> : a \in from[i][f] \ to[i][f]} : i \in both}
      come(f) == UNION {{<<a, i>> : a \in to[i][f] \ from[i][f]} : i \in both}
      lost == UNION {{<<a, i>> : a \in from[i].reqActive \cup from[i].reqOwner} : i \in DOMAIN from \ DOMAIN to}
      one == (((idx \ lost) \cup inserted) \ gone("active")) \cup come("active")
  IN (one \ gone("owner")) \cup come("owner")

\* object_inserted, object_removed and the two insert_or_remove_delta of
\* object_modified, for every proposal that differs between two states; undoing
\* a session inserts, removes and modifies objects in the same way.
IndexMove(idx, from, to) ==
  LET both == DOMAIN from \cap DOMAIN to
      inserted == UNION {{<<a, i>> : a \in Parties(to[i])} : i \in DOMAIN to \ DOMAIN from}
      gone(f) == UNION {{<<a, i>> : a \in from[i][f] \ to[i][f]} : i \in both}
      come(f) == UNION {{<<a, i>> : a \in to[i][f] \ from[i][f]} : i \in both}
      kept == {x \in idx : x[2] \notin DOMAIN from \ DOMAIN to}
      one == ((kept \cup inserted) \ gone("active")) \cup come("active")
  IN (one \ gone("owner")) \cup come("owner")

\* All proposals change from one map to another, and the index with them.
SetProposals(to) ==
  /\ proposals' = to
  /\ index' = IndexMove(index, proposals, to)

----------------------------------------------------------------------------
\* Execution

Top == Last(frames)
Running(kind) == frames # <<>> /\ Top.kind = kind

\* is_authorized_to_execute; the key of an account is named by the account
is_authorized_to_execute(p) ==
  /\ \A a \in p.reqActive : a \in p.active \cup p.owner \cup p.keys
  /\ \A a \in p.reqOwner : a \in p.owner \cup p.keys

\* push_proposal begins: a session is started, unless the sessions are nested too deep.
Frame(kind, p, saved) == [kind |-> kind, p |-> p, pc |-> 1, saved |-> saved]

\* _undo_session_nesting_depth
NestingDepth == Cardinality({k \in DOMAIN frames : frames[k].kind # "tx"})

\* mutant: a proposal that fails is deleted at once
ThrowDeletes ==
  /\ done' = Top.saved.done /\ vetoed' = Top.saved.vetoed /\ nextId' = Top.saved.nextId
  /\ frames' = Front(frames)
  /\ SetProposals(IF Top.kind = "tx" THEN Top.saved.proposals
                  ELSE Without(Top.saved.proposals, Top.p))

\* An exception leaves the innermost session: its changes are undone.  The
\* evaluator of proposal_update remembers the failure and goes on,
\* clear_expired_proposals deletes the proposal, a transaction fails altogether.
Throw ==
  LET s == Top.saved IN
  /\ done' = s.done /\ vetoed' = s.vetoed /\ nextId' = s.nextId
  /\ frames' = Front(frames)
  /\ SetProposals(CASE Top.kind = "tx" -> s.proposals
                    [] Top.kind = "update" -> [s.proposals EXCEPT ![Top.p].failed = TRUE]
                    [] Top.kind = "expiry" -> Without(s.proposals, Top.p))

\* The frames with the operation of the innermost one passed.
Advanced == [frames EXCEPT ![Len(frames)].pc = @ + 1]

InReview(p) == p.review # 0 /\ now >= p.review

\* mutant: approvals may still be added in the review period
UpdateAllowedReview(q, f, add, remove) ==
  /\ q \in DOMAIN proposals
  /\ f # "keys" => remove \subseteq proposals[q][f]

UpdateAllowed(q, f, add, remove) ==
  /\ q \in DOMAIN proposals
  /\ (InReview(proposals[q]) /\ f # "keys") => add = {}
  /\ f # "keys" => remove \subseteq proposals[q][f]

Approved(q, f, add, remove) == [proposals EXCEPT ![q][f] = (@ \cup add) \ remove]

\* mutant: a proposal with a review period is executed as soon as it is authorized
UpdateNoReview(q, f, add, remove) ==
  LET to == Approved(q, f, add, remove)
      run == is_authorized_to_execute(to[q])
      deep == NestingDepth >= MaxNesting
  IN
  /\ SetProposals(IF run /\ deep THEN [to EXCEPT ![q].failed = TRUE] ELSE to)
  /\ frames' = IF run /\ ~deep
               THEN Append(Advanced, Frame("update", q, [Saved EXCEPT !.proposals = to])) ELSE Advanced
  /\ UNCHANGED <<done, vetoed, nextId>>

\* proposal_update: the approvals change; a proposal without a review period
\* that is now authorized is executed in a session of its own.
Update(q, f, add, remove) ==
  LET to == Approved(q, f, add, remove)
      run == to[q].review = 0 /\ is_authorized_to_execute(to[q])
      deep == NestingDepth >= MaxNesting
  IN
  /\ SetProposals(IF run /\ deep THEN [to EXCEPT ![q].failed = TRUE] ELSE to)
  /\ frames' = IF run /\ ~deep
               THEN Append(Advanced, Frame("update", q, [Saved EXCEPT !.proposals = to])) ELSE Advanced
  /\ UNCHANGED <<done, vetoed, nextId>>

\* The sender chooses using_owner_authority; of an operation inside a proposal the choice
\* is left open until it is executed.
DeleteAllowed(q, by) ==
  /\ q \in DOMAIN proposals
  /\ by \in proposals[q].reqActive \cup proposals[q].reqOwner

\* proposal_delete
Delete(q) ==
  /\ SetProposals(Without(proposals, q))
  /\ vetoed' = vetoed \cup {q}
  /\ frames' = Advanced
  /\ UNCHANGED <<done, nextId>>

----------------------------------------------------------------------------
\* Transactions

Rest == UNCHANGED <<now, phase, works, toggles>>

TxBegin ==
  /\ phase = "idle" /\ frames = <<>> /\ ops < MaxOps
  /\ frames' = <<Frame("tx", 0, Saved)>>
  /\ UNCHANGED <<proposals, done, vetoed, index, nextId, ops>> /\ Rest

\* mutant: a proposal may update or delete a proposal that is still to come
RefersAny(body) == TRUE

\* hardfork_visitor_1479: a proposal updates and deletes older proposals only.
RefersBack(body) ==
  \A i \in DOMAIN body : body[i].kind \in {"update", "delete"} => body[i].target < nextId

Required(body, kinds) == {body[i].by : i \in {j \in DOMAIN body : body[j].kind \in kinds}}

proposal_create(body, t, review) ==
  LET owner == Required(body, {"act_owner"})
  IN
  /\ Running("tx") /\ ops < MaxOps /\ nextId <= MaxProposals
  /\ t > now /\ t <= now + MaxLifetime
  /\ review < t - now
  /\ RefersBack(body)
  /\ SetProposals(Put(proposals, nextId,
       [body |-> body, expires |-> t, review |-> IF review = 0 THEN 0 ELSE t - review,
        reqOwner |-> owner, reqActive |-> Required(body, {"act", "update", "delete"}) \ owner,
        active |-> {}, owner |-> {}, keys |-> {}, failed |-> FALSE,
        frozen |-> [accounts |-> Accounts, keys |-> Accounts]]))
  /\ nextId' = nextId + 1
  /\ ops' = ops + 1
  /\ frames' = Advanced
  /\ UNCHANGED <<done, vetoed>> /\ Rest

proposal_update(q, f, add, remove) ==
  /\ Running("tx") /\ ops < MaxOps
  /\ UpdateAllowed(q, f, add, remove)
  /\ Update(q, f, add, remove)
  /\ ops' = ops + 1
  /\ Rest

proposal_delete(q, by) ==
  /\ Running("tx") /\ ops < MaxOps
  /\ DeleteAllowed(q, by)
  /\ Delete(q)
  /\ ops' = ops + 1
  /\ Rest

TxCommit ==
  /\ Running("tx")
  /\ frames' = <<>>
  /\ UNCHANGED <<proposals, done, vetoed, index, nextId, ops>> /\ Rest

\* A later operation of the transaction throws.
TxFail ==
  /\ Running("tx")
  /\ Throw
  /\ UNCHANGED ops /\ Rest

----------------------------------------------------------------------------
\* Steps of a proposal that executes

Executing == frames # <<>> /\ Top.kind # "tx"
Body == proposals[Top.p].body
Op == Body[Top.pc]
CanDo ==
  CASE Op.kind \in Acts -> works
    [] Op.kind = "update" -> UpdateAllowed(Op.target, "active", {Op.by}, {})
    [] Op.kind = "delete" -> DeleteAllowed(Op.target, Op.by)

apply_operation ==
  /\ Executing /\ Top.pc <= Len(Body)
  /\ CanDo
  /\ CASE Op.kind \in Acts ->
            /\ done' = [done EXCEPT ![Top.p] = @ + 1]
            /\ frames' = Advanced
            /\ UNCHANGED <<proposals, index, vetoed, nextId>>
       [] Op.kind = "update" -> Update(Op.target, "active", {Op.by}, {})
       [] Op.kind = "delete" -> Delete(Op.target)
  /\ UNCHANGED ops /\ Rest

OperationThrows ==
  /\ Executing /\ Top.pc <= Len(Body)
  /\ ~CanDo
  /\ Throw
  /\ UNCHANGED ops /\ Rest

\* mutant: a proposal that has been executed stays
FinishedStays ==
  /\ Executing /\ Top.pc > Len(Body)
  /\ frames' = Front(frames)
  /\ IF Top.kind = "expiry" THEN SetProposals(Without(proposals, Top.p)) ELSE UNCHANGED <<proposals, index>>
  /\ UNCHANGED <<done, vetoed, nextId, ops>> /\ Rest

\* push_proposal ends well: the proposal is removed and the session merged.
Finished ==
  /\ Executing /\ Top.pc > Len(Body)
  /\ frames' = Front(frames)
  /\ SetProposals(Without(proposals, Top.p))
  /\ UNCHANGED <<done, vetoed, nextId, ops>> /\ Rest

----------------------------------------------------------------------------
\* Blocks

\* frozen keeps the approvals with which a proposal enters its review period.
NewBlock ==
  /\ phase = "idle" /\ frames = <<>> /\ now < MaxTime
  /\ now' = now + 1
  /\ phase' = "expiring"
  /\ proposals' = [i \in DOMAIN proposals |->
                     IF proposals[i].review = now + 1
                     THEN [proposals[i] EXCEPT !.frozen = [accounts |-> proposals[i].active \cup proposals[i].owner,
                                                         keys |-> proposals[i].keys]]
                     ELSE proposals[i]]
  /\ UNCHANGED <<done, vetoed, index, frames, works, nextId, ops, toggles>>

\* mutant: a proposal is not yet expired at the very time of its expiration
ExpiredLate == {i \in DOMAIN proposals : proposals[i].expires < now}

Expired == {i \in DOMAIN proposals : proposals[i].expires <= now}
FirstExpired ==
  CHOOSE i \in Expired : \A j \in Expired :
    \/ proposals[i].expires < proposals[j].expires
    \/ proposals[i].expires = proposals[j].expires /\ i <= j

\* One turn of clear_expired_proposals.
ExpireProposal ==
  /\ phase = "expiring" /\ frames = <<>> /\ Expired # {}
  /\ IF is_authorized_to_execute(proposals[FirstExpired])
     THEN frames' = <<Frame("expiry", FirstExpired, Saved)>> /\ UNCHANGED <<proposals, index>>
     ELSE SetProposals(Without(proposals, FirstExpired)) /\ UNCHANGED frames
  /\ UNCHANGED <<done, vetoed, nextId, ops>> /\ Rest

BlockDone ==
  /\ phase = "expiring" /\ frames = <<>> /\ Expired = {}
  /\ phase' = "idle"
  /\ UNCHANGED <<proposals, done, vetoed, index, frames, now, works, nextId, ops, toggles>>

\* The circumstances in which the proposed operations succeed change.
Toggle ==
  /\ phase = "idle" /\ frames = <<>> /\ toggles < MaxToggles
  /\ works' = ~works
  /\ toggles' = toggles + 1
  /\ UNCHANGED <<proposals, done, vetoed, index, frames, now, phase, nextId, ops>>

Next ==
  \/ TxBegin
  \/ \E b \in Bodies, t \in 1..MaxTime, r \in Reviews : proposal_create(b, t, r)
  \/ \E q \in DOMAIN proposals, f \in Fields, a \in Accounts : proposal_update(q, f, {a}, {})
  \/ \E q \in DOMAIN proposals, f \in Fields, a \in Accounts : proposal_update(q, f, {}, {a})
  \/ \E q \in DOMAIN proposals, a \in Accounts : proposal_delete(q, a)
  \/ TxCommit
  \/ TxFail
  \/ apply_operation
  \/ OperationThrows
  \/ Finished
  \/ NewBlock
  \/ ExpireProposal
  \/ BlockDone
  \/ Toggle

Spec == Init /\ [][Next]_vars

----------------------------------------------------------------------------

TypeOK ==
  /\ DOMAIN proposals \subseteq 1..(nextId - 1)
  /\ \A i \in DOMAIN proposals : proposals[i].active \cup proposals[i].owner \cup proposals[i].keys \subseteq Accounts
  /\ index \subseteq Accounts \X (1..MaxProposals)
  /\ phase \in {"idle", "expiring"} /\ now \in 0..MaxTime
  /\ Len(frames) <= MaxNesting + 1

\* The proposal that a session executes is there until the session ends: the
\* evaluator and the loop keep a reference to it and modify or remove it then.
FramesAlive == \A k \in DOMAIN frames : frames[k].kind # "tx" => frames[k].p \in DOMAIN proposals

\* Nested executions go to older and older proposals, so that they end well
\* before the nesting guard stops them.
NestingDescends ==
  \A k \in 1..(Len(frames) - 1) : frames[k].kind # "tx" => frames[k + 1].p < frames[k].p

\* However often a proposal is approved, fails, is undone with the transaction
\* around it and is tried again, its operations take effect at most once, and a
\* proposal that is still there has had no effect (a body acts at most once).
ExecutedOnce ==
  \A i \in DOMAIN done :
    /\ done[i] <= 1
    /\ i \in DOMAIN proposals /\ (\A k \in DOMAIN frames : frames[k].p # i) => done[i] = 0

\* A proposal with a review period executes at its expiration only, also when
\* another proposal brings the last approval.
ReviewHonoured ==
  \A k \in DOMAIN frames : frames[k].p \in DOMAIN proposals =>
    LET p == proposals[frames[k].p] IN p.review # 0 => p.expires <= now

\* During its review period a proposal gains no approval of an account.
ReviewFrozen ==
  \A i \in DOMAIN proposals : InReview(proposals[i]) =>
    proposals[i].active \cup proposals[i].owner \subseteq proposals[i].frozen.accounts

\* During its review period a proposal gains no approval of a key.
\* It does not hold: see "Other disagreements" in the README.
ReviewFrozenKeys ==
  \A i \in DOMAIN proposals : InReview(proposals[i]) => proposals[i].keys \subseteq proposals[i].frozen.keys

\* When a block is done no expired proposal is left.
NoneExpired == phase = "idle" => \A i \in DOMAIN proposals : proposals[i].expires > now

\* The index tracks no proposal that is gone, and nobody who has no part in one.
IndexSound == \A x \in index : x[2] \in DOMAIN proposals /\ x[1] \in Parties(proposals[x[2]])

\* The index tracks every proposal under each account whose approval it requires.
\* It does not hold: see "Other disagreements" in the README.
IndexComplete ==
  \A i \in DOMAIN proposals, a \in Accounts :
    a \in proposals[i].reqActive \cup proposals[i].reqOwner => <<a, i>> \in index

\* Proposal i is there after the step, or is gone for a reason.
Kept(i) ==
  \/ i \in DOMAIN proposals' \/ i \in vetoed' \/ i >= nextId'
  \/ proposals[i].expires <= now
  \/ frames # <<>> /\ Top.p = i /\ Top.pc > Len(proposals[i].body)

\* A proposal that fails is kept for another try: it disappears only when it has
\* been executed, is vetoed by an account it requires, has expired, or with the
\* transaction that created it.
KeptUntilResolved == [][\A i \in DOMAIN proposals : Kept(i)]_vars

\* Every proposal comes to one end.
ProposalsResolve == [](ExecutedOnce /\ NoneExpired) /\ KeptUntilResolved

\* Proposals that act on proposals do no harm: no dangling reference, no endless
\* nesting, no way around the review period, no stale index entry.
ProposalsGuarded == FramesAlive /\ NestingDescends /\ ReviewHonoured /\ ReviewFrozen /\ IndexSound
============================================================================
