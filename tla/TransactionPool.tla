--------------------------- MODULE TransactionPool ---------------------------
(***************************************************************************)
(* Transactions between their arrival and their inclusion in the chain:    *)
(* the pending list and the session that holds its effects, block          *)
(* generation with a size limit, duplicate detection, expiration, TaPoS,   *)
(* and what happens to pending and popped transactions when a block is     *)
(* pushed, refused, or causes a fork switch (chain/db_block.cpp,           *)
(* db_with.hpp, db_update.cpp).                                            *)
(*                                                                         *)
(* A block is [t, txs, seen]: its time, its transactions and the duplicate *)
(* index as applying it leaves it, which popping restores.  The id of a    *)
(* block covers everything below it, so the chain up to a block stands for *)
(* that block's id.  What a transaction does is abstracted to what it      *)
(* needs to have been done before it and what it clashes with.             *)
(***************************************************************************)
EXTENDS Integers, FiniteSets, Sequences, SequencesExt

CONSTANTS
  Tx,          \* transactions
  Expiration,  \* [Tx -> Nat]
  Size,        \* [Tx -> Nat], packed size
  Needs,       \* [Tx -> SUBSET Tx]: it fails unless these were applied
  Clash,       \* [Tx -> SUBSET Tx]: it fails if one of these was applied
  MaxBlockSize,\* maximum_block_size less the header
  MaxUntil,    \* maximum_time_until_expiration
  Summaries,   \* number of block summary objects (2^16 in the code)
  MaxTime, MaxBlocks, MaxFork, MaxTxs  \* bounds: times, chain, branch, block

\* What the constants are assumed to be.
PoolAssumption ==
  /\ Expiration \in [Tx -> Nat] /\ Size \in [Tx -> Nat]
  /\ Needs \in [Tx -> SUBSET Tx] /\ Clash \in [Tx -> SUBSET Tx]
  /\ Summaries \in Nat \ {0}
  /\ {MaxUntil, MaxTime, MaxBlocks, MaxFork, MaxTxs} \subseteq Nat

VARIABLES
  chain,     \* the blocks of the current branch
  pending,   \* _pending_tx
  session,   \* what was applied in _pending_tx_session, in order
  ref,       \* per existing transaction: the block it refers to
  stale,     \* history: generate_block gave up after resetting the session
  failed     \* history: transactions that failed in the last generated block

vars == <<chain, pending, session, ref, stale, failed>>

-----------------------------------------------------------------------------
(* Applying transactions and blocks                                        *)

head_block_time(c) == IF c = <<>> THEN 0 ELSE Last(c).t
Seen(c) == IF c = <<>> THEN {} ELSE Last(c).seen
TxsOf(c) == FoldLeft(LAMBDA acc, b : acc \o b.txs, <<>>, c)

\* block_summary_object i: the id of the last block whose number ends in i
Summary(c, i) ==
  LET nums == {n \in 1..Len(c) : n % Summaries = i}
  IN  IF nums = {} THEN <<>> ELSE SubSeq(c, 1, CHOOSE n \in nums : \A m \in nums : m <= n)

\* The TaPoS check: ref_block_num and ref_block_prefix
RefersTo(c, tx) == Summary(c, Len(ref[tx]) % Summaries) = ref[tx]

\* mutant: the block a transaction refers to is not looked up
_apply_transaction_anywhere(c, done, tx) ==
  /\ tx \notin Seen(c) \cup ToSet(done)
  /\ c # <<>> => /\ Expiration[tx] <= head_block_time(c) + MaxUntil
                 /\ head_block_time(c) <= Expiration[tx]
  /\ LET past == ToSet(TxsOf(c)) \cup ToSet(done)
     IN  Needs[tx] \subseteq past /\ Clash[tx] \cap past = {}

\* _apply_transaction succeeds at the head of c after `done` was applied there.
\* Before the first block neither the expiration nor TaPoS is checked.
_apply_transaction(c, done, tx) ==
  /\ tx \notin Seen(c) \cup ToSet(done)
  /\ c # <<>> => /\ RefersTo(c, tx)
                 /\ Expiration[tx] <= head_block_time(c) + MaxUntil
                 /\ head_block_time(c) <= Expiration[tx]
  /\ LET past == ToSet(TxsOf(c)) \cup ToSet(done)
     IN  Needs[tx] \subseteq past /\ Clash[tx] \cap past = {}

\* All of txs can be applied in order
AppliesAll(c, txs) ==
  \A i \in 1..Len(txs) : _apply_transaction(c, SubSeq(txs, 1, i - 1), txs[i])

\* mutant: a transaction is forgotten in the second it expires in
NotExpired_early(seen, time) == {tx \in seen : time < Expiration[tx]}

\* clear_expired_transactions
NotExpired(seen, time) == {tx \in seen : time <= Expiration[tx]}

\* The block as _apply_block leaves it
Applied(c, time, txs) ==
  [t |-> time, txs |-> txs, seen |-> NotExpired(Seen(c) \cup ToSet(txs), time)]

\* A block of these transactions at this time may follow c
ValidBlock(c, time, txs) == time > head_block_time(c) /\ AppliesAll(c, txs)

-----------------------------------------------------------------------------
(* pending_transactions_restorer and the operations of the pool            *)

\* mutant: pending transactions go before the popped ones
Restored_pending_first(c, popped, pend) ==
  FoldLeft(LAMBDA done, tx : IF _apply_transaction(c, done, tx) THEN Append(done, tx)
                             ELSE done,
           <<>>, pend \o popped)

\* mutant: pending transactions are kept without applying them again
Restored_blindly(c, popped, pend) ==
  SelectSeq(popped \o pend, LAMBDA tx : tx \notin Seen(c))

\* Popped transactions, then pending ones, are pushed again unless they are
\* known; the invalid ones are dropped
Restored(c, popped, pend) ==
  FoldLeft(LAMBDA done, tx : IF _apply_transaction(c, done, tx) THEN Append(done, tx)
                             ELSE done,
           <<>>, popped \o pend)

\* The end of push_block, whether it succeeded or not
Restore(c, popped) ==
  /\ chain' = c
  /\ pending' = Restored(c, popped, pending)
  /\ session' = Restored(c, popped, pending)
  /\ stale' = FALSE
  /\ UNCHANGED ref

\* A client signs a transaction that refers to the head block (set_reference_block)
Create ==
  /\ \E tx \in Tx \ DOMAIN ref :
       ref' = [x \in DOMAIN ref \cup {tx} |-> IF x = tx THEN chain ELSE ref[x]]
  /\ UNCHANGED <<chain, pending, session, stale, failed>>

\* push_transaction
push_transaction ==
  /\ \E tx \in DOMAIN ref :
       /\ _apply_transaction(chain, session, tx)
       /\ pending' = Append(pending, tx)
       /\ session' = Append(session, tx)
  /\ UNCHANGED <<chain, ref, stale, failed>>

\* The transactions _generate_block puts in a block: each is skipped when it
\* would make the block too big, and when it does not apply
Generated ==
  FoldLeft(LAMBDA acc, tx :
             IF acc.size + Size[tx] > MaxBlockSize THEN acc
             ELSE IF ~_apply_transaction(chain, acc.txs, tx)
                  THEN [acc EXCEPT !.failed = @ \cup {tx}]
             ELSE [acc EXCEPT !.txs = Append(@, tx), !.size = @ + Size[tx]],
           [txs |-> <<>>, size |-> 0, failed |-> {}], pending)

\* generate_block: select, then push_block
generate_block ==
  /\ Len(chain) < MaxBlocks
  /\ \E time \in (head_block_time(chain) + 1)..MaxTime :
       Restore(Append(chain, Applied(chain, time, Generated.txs)), <<>>)
  /\ failed' = Generated.failed

\* generate_block with a key that is not the witness's: the session is gone,
\* the pending list is not.  (Bound: once between two blocks, or the pending
\* list could grow for ever.)
generate_block_wrong_key ==
  /\ session # <<>> /\ ~stale
  /\ session' = <<>>
  /\ stale' = TRUE
  /\ UNCHANGED <<chain, pending, ref, failed>>

\* Transaction lists a block of another node may hold
Payloads ==
  {s \in UNION {[1..n -> DOMAIN ref] : n \in 0..MaxTxs} : IsInjective(s)}

\* push_block of a block on the head
push_block ==
  /\ Len(chain) < MaxBlocks
  /\ \E time \in (head_block_time(chain) + 1)..MaxTime, txs \in Payloads :
       /\ ValidBlock(chain, time, txs)
       /\ Restore(Append(chain, Applied(chain, time, txs)), <<>>)
  /\ failed' = {}

\* push_block of a block that does not apply
push_invalid_block ==
  /\ \E txs \in Payloads : ~AppliesAll(chain, txs)
  /\ Restore(chain, <<>>)
  /\ UNCHANGED failed

\* A branch of valid blocks from c: times and payloads
Grow(c, bs) ==
  FoldLeft(LAMBDA acc, bl : Append(acc, Applied(acc, bl.t, bl.txs)), c, bs)

BranchOK(c, bs) == \A i \in 1..Len(bs) :
                     ValidBlock(Grow(c, SubSeq(bs, 1, i - 1)), bs[i].t, bs[i].txs)

\* Branches of n blocks: one second apart
Branches(c, n) ==
  {[i \in 1..n |-> [t |-> head_block_time(c) + i, txs |-> p[i]]] :
      p \in [1..n -> {s \in Payloads : Len(s) <= 1}]}

\* push_block with a switch to a longer branch: the blocks down to the common
\* one are popped, newest first, and their transactions remembered
switch_forks ==
  \E k \in 1..MaxFork :
    LET base == SubSeq(chain, 1, Len(chain) - k)
        popped == TxsOf(SubSeq(chain, Len(base) + 1, Len(chain)))
    IN
    /\ k <= Len(chain) /\ Len(chain) < MaxBlocks
    /\ head_block_time(base) + k + 1 <= MaxTime
    /\ \E bs \in Branches(base, k + 1) :
         /\ BranchOK(base, bs)
         /\ [t |-> chain[Len(base) + 1].t, txs |-> chain[Len(base) + 1].txs] # bs[1]
         /\ Restore(Grow(base, bs), popped)
    /\ failed' = {}

\* A switch that fails in the last block of the branch: the blocks that did
\* apply are popped as well, and the old branch is restored
switch_forks_fails ==
  \E k \in 1..MaxFork :
    LET base == SubSeq(chain, 1, Len(chain) - k)
        old == TxsOf(SubSeq(chain, Len(base) + 1, Len(chain)))
    IN
    /\ k <= Len(chain)
    /\ head_block_time(base) + k <= MaxTime
    /\ \E bs \in Branches(base, k) :
         /\ BranchOK(base, bs)
         /\ [t |-> chain[Len(base) + 1].t, txs |-> chain[Len(base) + 1].txs] # bs[1]
         /\ Restore(chain, TxsOf(bs) \o old)
    /\ UNCHANGED failed

Init ==
  /\ chain = <<>> /\ pending = <<>> /\ session = <<>>
  /\ ref = <<>>
  /\ stale = FALSE /\ failed = {}

Next ==
  \/ Create
  \/ push_transaction
  \/ generate_block
  \/ generate_block_wrong_key
  \/ push_block
  \/ push_invalid_block
  \/ switch_forks
  \/ switch_forks_fails

Spec == Init /\ [][Next]_vars

-----------------------------------------------------------------------------
(* Properties                                                              *)

\* The pending session is the result of applying the pending transactions to
\* the head block, in order, except between a generate_block that gave up and
\* the next block (the invariant _generate_block's comments speak of); even
\* then what the session holds can be applied.
PoolSound ==
  /\ AppliesAll(chain, session)
  /\ ~stale => session = pending

\* No transaction is applied twice on a branch, although the duplicate index
\* forgets it when it expires (_apply_transaction, clear_expired_transactions).
AppliedOnce == IsInjective(TxsOf(chain))

\* A transaction is only ever applied on a branch that holds the block it was
\* signed for (TaPoS).
TaposHonoured ==
  \A n \in 2..Len(chain) : \A i \in 1..Len(chain[n].txs) :
    IsPrefix(ref[chain[n].txs[i]], SubSeq(chain, 1, n - 1))

\* Whatever is pushed, generated, refused or switched to, a transaction that
\* was pending or in a popped block is then in the chain or pending, or it
\* could not be applied any more (pending_transactions_restorer).
KeepsTransactions ==
  \A tx \in ToSet(pending) \cup ToSet(TxsOf(chain)) :
    tx \in ToSet(pending') \cup ToSet(TxsOf(chain'))
    \/ ~(_apply_transaction(chain, session, tx)')
NothingLost == [][KeepsTransactions]_vars

\* A transaction in a block of the chain is in the duplicate index until it
\* has been expired for a while (the comment in clear_expired_transactions).
\* It does not hold: see "Other disagreements" in the README.
RememberedLonger ==
  \A tx \in ToSet(TxsOf(chain)) :
    head_block_time(chain) <= Expiration[tx] + 1 => tx \in Seen(chain)

\* A transaction that failed while a block was generated is not applied again
\* (the comment in _generate_block).
\* It does not hold: see "Other disagreements" in the README.
FailedNotReapplied == \A tx \in failed : tx \notin ToSet(pending)

\* Transactions are applied once, where they were meant, and not lost.
TransactionsKept == [](PoolSound /\ AppliedOnce /\ TaposHonoured) /\ NothingLost
=============================================================================
