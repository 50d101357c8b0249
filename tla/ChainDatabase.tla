--------------------------- MODULE ChainDatabase ---------------------------
(***************************************************************************)
(* libraries/chain: how a node follows the longest chain.  database keeps  *)
(* the state after its head block; fork_database the recent blocks of all  *)
(* branches; undo_database the versions to go back to; block_database the  *)
(* blocks on disk; the object database is written to disk only on close.   *)
(*                                                                         *)
(* push_block is split into the steps at which it can throw or the process *)
(* can die: fork_database::push_block, each pop_block, each apply_block    *)
(* with its store, and the re-pushing of transactions.  The variable pc    *)
(* says which step is next; nothing else runs on the chain in between.     *)
(*                                                                         *)
(* Abstractions.  A block is an element of Blocks with a parent, a signer  *)
(* and transactions.  A transaction is valid when nothing on the chain or  *)
(* pending spends what it spends; other reasons to reject a block are the  *)
(* set BadBlocks, whose application throws before                          *)
(* update_global_dynamic_data.  The state after a block is the chain that  *)
(* led to it, so a saved version (VersionStack) is a chain and its last    *)
(* irreversible number.  The active witnesses do not change.  Proposals,   *)
(* which only add nested sessions, and the check of the scheduled witness  *)
(* before the fork database is touched are left out.                       *)
(***************************************************************************)
EXTENDS Integers, Sequences, FiniteSets, SequencesExt

CONSTANTS
  Blocks,          \* every block that witnesses may sign
  Genesis,         \* block_id_type(): what block number 1 links to
  Parent,          \* signed_block_header::previous
  Signer,          \* signed_block_header::witness
  Txs,             \* signed_block::transactions
  BadBlocks,       \* blocks that do not apply
  Witnesses,       \* global_property_object::active_witnesses
  Transactions,    \* transactions that clients may push
  Spends,          \* what a transaction uses up
  MaxUndoHistory,  \* GRAPHENE_MAX_UNDO_HISTORY
  MinUndoHistory,  \* GRAPHENE_MIN_UNDO_HISTORY
  MaxForkSize,     \* initial fork_database::_max_size
  ReadAhead,       \* blocks that reindex reads ahead
  MaxPending,      \* bound: transactions pending at once
  MaxCrashes,      \* bound: crashes
  MaxCloses,       \* bound: orderly shutdowns
  None

\* A block names its parent by a hash, so no set of blocks links to itself.
ASSUME BlockTreeAssumption ==
  /\ IsFiniteSet(Blocks) /\ Blocks # {} /\ Genesis \notin Blocks /\ None \notin Blocks
  /\ Parent \in [Blocks -> Blocks \cup {Genesis}]
  /\ \A bs \in SUBSET Blocks : bs # {} => \E b \in bs : Parent[b] \notin bs
  /\ Txs \in [Blocks -> Seq(Transactions)]
ASSUME WitnessAssumption ==
  /\ IsFiniteSet(Witnesses) /\ Witnesses # {}
  /\ Signer \in [Blocks -> Witnesses]
ASSUME HistoryAssumption ==
  {MaxUndoHistory, MinUndoHistory, MaxForkSize, ReadAhead, MaxPending, MaxCrashes, MaxCloses} \subseteq Nat

VARIABLES
  chain,      \* the blocks applied to the object database, number 1 first
  lib,        \* dynamic_global_property_object::last_irreversible_block_num
  undo,       \* _undo_db: the committed versions, oldest first
  undoMax,    \* _undo_db::_max_size
  session,    \* whether _pending_tx_session is valid
  recording,  \* ~ _undo_db::_disabled
  forkIndex,  \* _fork_db::_index
  forkHead,   \* _fork_db::_head
  linked,     \* the items of _index whose prev was set and is not expired
  forkMax,    \* _fork_db::_max_size
  pending,    \* _pending_tx
  popped,     \* _popped_tx
  log,        \* _block_id_to_block: the block stored for every number
  unsynced,   \* the latest store, of which the operating system may know nothing
  disk,       \* the object database on disk
  pc,         \* the next step
  push,       \* the locals of push_block and its callers
  final,      \* history: the irreversible blocks of this run of the node
  crashes, closes

chainVars == <<chain, lib, undo, undoMax, session, recording>>
forkVars == <<forkIndex, forkHead, linked, forkMax>>
txVars == <<pending, popped>>
diskVars == <<log, unsynced, disk>>
boundVars == <<final, crashes, closes>>
vars == <<chainVars, forkVars, txVars, diskVars, pc, push, boundVars>>

-----------------------------------------------------------------------------
(* Blocks and chains.                                                      *)

\* The blocks from number 1 to b.
Lineage[b \in Blocks] ==
  IF Parent[b] = Genesis THEN <<b>> ELSE Append(Lineage[Parent[b]], b)

Num(b) == Len(Lineage[b])

MaxNum == CHOOSE n \in {Num(b) : b \in Blocks} : \A b \in Blocks : Num(b) <= n

HeadOf(c) == IF c = << >> THEN Genesis ELSE Last(c)
Head_ == HeadOf(chain)

Version == [chain |-> chain, lib |-> lib]

Included(c) == UNION {Range(Txs[c[i]]) : i \in DOMAIN c}

\* _apply_transaction: neither a duplicate nor in conflict with what applied.
TxApplies(t, before) == \A u \in before : Spends[u] # Spends[t]

\* last_confirmed_block_num of every active witness.
Confirmed(c, w) ==
  LET nums == {i \in DOMAIN c : Signer[c[i]] = w}
  IN  IF nums = {} THEN 0 ELSE CHOOSE i \in nums : \A j \in nums : j <= i

\* The offset-th smallest of the witnesses' confirmed numbers, counted from 0.
NthConfirmed(c, offset) ==
  LET conf == [w \in Witnesses |-> Confirmed(c, w)]
  IN  CHOOSE n \in Range(conf) :
        /\ Cardinality({w \in Witnesses : conf[w] < n}) <= offset
        /\ Cardinality({w \in Witnesses : conf[w] <= n}) > offset

\* update_last_irreversible_block that takes the highest number.
LastIrreversibleEager(c, old) ==
  LET nth == NthConfirmed(c, Cardinality(Witnesses) - 1)
  IN  IF nth > old THEN nth ELSE old

\* update_last_irreversible_block: the witness at the 30% position.
LastIrreversible(c, old) ==
  LET nth == NthConfirmed(c, (3 * Cardinality(Witnesses)) \div 10)
  IN  IF nth > old THEN nth ELSE old

\* apply_block throws unless the block builds on the head, is good, its
\* transactions apply and the undo history suffices.
Applies(b) ==
  /\ Parent[b] = Head_
  /\ b \notin BadBlocks
  /\ \A i \in DOMAIN Txs[b] :
        TxApplies(Txs[b][i], Included(chain) \cup {Txs[b][j] : j \in 1 .. i - 1})
  /\ Num(b) - lib < MaxUndoHistory

KeepLast(s, n) == IF Len(s) > n THEN SubSeq(s, Len(s) - n + 1, Len(s)) ELSE s

-----------------------------------------------------------------------------
(* fork_database                                                           *)

\* Items kept alive by push_block's local branches.
Held == Range(push.new) \cup Range(push.old)

\* prev.lock() gives the parent's item.
Locks(b, index) == b \in linked /\ Parent[b] \in index \cup Held

\* Items below this number are erased when the head is n and the size m.
Floor(n, m) == IF n > m THEN n - m ELSE 0

\* Refusing every block that is not above the fork head, so that no other
\* branch is ever stored.
TooOldAtHead(b) == forkHead # None /\ Num(b) <= Num(forkHead)

\* fork_database::push_block: too old, unlinkable, or accepted.  Blocks are
\* recent, so push_block asks for a known parent even of a block number 1.
TooOld(b) == forkHead # None /\ Num(b) <= Floor(Num(forkHead), forkMax)
Unlinkable(b) == forkHead # None /\ Parent[b] \notin forkIndex

Erase(index, floor) == {b \in index : Num(b) >= floor}

ForkPush(b) ==
  /\ linked' = IF forkHead # None /\ b \notin forkIndex THEN linked \cup {b} ELSE linked
  /\ IF forkHead = None \/ Num(b) > Num(forkHead)
     THEN /\ forkHead' = b
          /\ forkIndex' = IF forkHead = None THEN forkIndex \cup {b}
                          ELSE Erase(forkIndex \cup {b}, Floor(Num(b), forkMax))
     ELSE /\ forkHead' = forkHead
          /\ forkIndex' = forkIndex \cup {b}

\* fork_database::remove of one block.
ForkRemove(b, index, head) ==
  [index |-> index \ {b},
   head |-> IF head # b THEN head
            ELSE IF Locks(b, index) THEN Parent[b] ELSE None]

\* fetch_branch_from(f, s): both branches down to a common previous block,
\* oldest first; defined when no pointer on the way has expired.
Branches(f, s) ==
  LET lf == Lineage[f]
      ls == Lineage[s]
      common == {m \in 1..Len(lf) : m <= Len(ls) /\ Parent[lf[m]] = Parent[ls[m]]}
      m == CHOOSE m \in common : \A k \in common : k <= m
  IN  [new |-> SubSeq(lf, m, Len(lf)), old |-> SubSeq(ls, m, Len(ls))]

CanFetch(f, s, index, links) ==
  /\ f \in index /\ s \in index
  /\ LET br == Branches(f, s)
     IN  \A x \in Range(Tail(br.new)) \cup Range(Tail(br.old)) :
            x \in links /\ Parent[x] \in index

\* fork_database::set_max_size
Resized(m, index) ==
  IF forkHead = None THEN index ELSE Erase(index, Floor(Num(forkHead), m))

-----------------------------------------------------------------------------
(* The steps of push_block.                                                *)

\* block, the branches, the transactions set aside and the outcome; before,
\* irreversible and known (history: the chain, its irreversible number and the
\* transactions when push_block was called); cutoff of close; of reindex the
\* number of the last block, the blocks still to replay and whether a gap in
\* the block log ended them.
NoPush == [block |-> None, new |-> << >>, old |-> << >>, saved |-> << >>,
           failed |-> FALSE, before |-> << >>, irreversible |-> 0, known |-> {},
           cutoff |-> 0, last |-> 0, todo |-> << >>, gap |-> FALSE]

\* Where push_block goes when it is over.
Finish(failed) ==
  /\ pc' = "restore"
  /\ push' = [push EXCEPT !.failed = failed]

\* "Only switch forks if new_head is actually higher than head"
Higher(b) == Num(b) > Len(chain)

\* push_block: pending transactions are set aside, the block goes into the
\* fork database, and the new head of that decides what to do.
BeginPush(b) ==
  LET begun == [push EXCEPT !.block = b, !.saved = pending,
                            !.before = chain, !.irreversible = lib,
                            !.known = Included(chain) \cup Range(pending)]
  IN
  /\ pending' = << >>
  /\ session' = FALSE
  /\ UNCHANGED <<chain, lib, undo, undoMax, recording, forkMax, popped, diskVars, boundVars>>
  /\ \/ /\ TooOld(b) \/ Unlinkable(b)
        /\ UNCHANGED <<forkIndex, forkHead, linked>>
        /\ pc' = "restore"
        /\ push' = [begun EXCEPT !.failed = TRUE]
     \/ /\ ~TooOld(b) /\ ~Unlinkable(b)
        /\ ForkPush(b)
        /\ \/ /\ Parent[forkHead'] = Head_
              /\ pc' = "extend"
              /\ push' = begun
           \/ /\ Parent[forkHead'] # Head_
              /\ ~Higher(forkHead')
              /\ pc' = "restore"
              /\ push' = begun
           \/ /\ Parent[forkHead'] # Head_
              /\ Higher(forkHead')
              /\ IF CanFetch(forkHead', Head_, forkIndex', linked')
                 THEN /\ pc' = "pop"
                      /\ LET br == Branches(forkHead', Head_)
                         IN  push' = [begun EXCEPT !.new = br.new, !.old = br.old]
                 ELSE /\ pc' = "restore"
                      /\ push' = [begun EXCEPT !.failed = TRUE]

\* A block from the network, from a client or from this node's witness.  The
\* very first block after an empty start is the next one (sync is in order).
PushBlock(b) ==
  /\ pc = "idle"
  /\ forkHead = None => Parent[b] = Head_
  /\ BeginPush(b)

\* pop_block: fork_database first, then the undo history; either may throw.
PopOutcome ==
  IF forkHead = None THEN [ok |-> FALSE, head |-> forkHead]
  ELSE IF forkHead = Head_
       THEN IF ~Locks(forkHead, forkIndex) THEN [ok |-> FALSE, head |-> forkHead]
            ELSE [ok |-> undo # << >>, head |-> Parent[forkHead]]
       ELSE [ok |-> Head_ \in forkIndex /\ undo # << >>, head |-> forkHead]

PopVersion ==
  /\ chain' = Last(undo).chain
  /\ lib' = Last(undo).lib
  /\ undo' = Front(undo)
  /\ popped' = Txs[Head_] \o popped

\* "pop blocks until we hit the forked block"; an exception here is not caught.
PopForSwitch ==
  /\ pc = "pop"
  /\ Head_ # Parent[push.old[1]]
  /\ forkHead' = PopOutcome.head
  /\ IF PopOutcome.ok
     THEN PopVersion /\ UNCHANGED <<pc, push>>
     ELSE UNCHANGED <<chain, lib, undo, popped>> /\ Finish(TRUE)
  /\ UNCHANGED <<undoMax, session, recording, forkIndex, linked, forkMax, pending, diskVars, boundVars>>

PoppedForSwitch ==
  /\ pc = "pop"
  /\ Head_ = Parent[push.old[1]]
  /\ pc' = "switch"
  /\ UNCHANGED <<chainVars, forkVars, txVars, diskVars, push, boundVars>>

\* A block applies inside a new session, is stored and committed.  The sizes
\* are set from the irreversible number before this block.
ApplyWith(b, undoSize, forkSize, stored) ==
  /\ chain' = Append(chain, b)
  /\ lib' = LastIrreversible(Append(chain, b), lib)
  /\ undo' = Append(KeepLast(undo, undoMax), Version)
  /\ undoMax' = undoSize
  /\ forkMax' = forkSize
  /\ forkIndex' = Resized(forkSize, forkIndex)
  /\ log' = [log EXCEPT ![Num(b)] = stored]
  /\ unsynced' = [num |-> Num(b), old |-> log[Num(b)]]
  /\ final' = IF IsPrefix(final, SubSeq(chain', 1, lib')) THEN SubSeq(chain', 1, lib') ELSE final

BlockSize(b) == Num(b) - lib + 1

\* ApplyAndStore that keeps no undo history for the block itself.
ApplyAndStoreTight(b) == ApplyWith(b, BlockSize(b) - 2, BlockSize(b), b)

\* ApplyAndStore that never overwrites a stored block.
ApplyAndStoreOnce(b) ==
  ApplyWith(b, BlockSize(b), BlockSize(b), IF log[Num(b)] = None THEN b ELSE log[Num(b)])

ApplyAndStore(b) == ApplyWith(b, BlockSize(b), BlockSize(b), b)

\* The session of a block that throws is undone; dropped versions stay dropped.
ThrowInSession == undo' = KeepLast(undo, undoMax)

\* The block builds on the head: the usual case.
Extend ==
  /\ pc = "extend"
  /\ IF Applies(push.block)
     THEN /\ ApplyAndStore(push.block)
          /\ Finish(FALSE)
          /\ UNCHANGED forkHead
     ELSE /\ ThrowInSession
          /\ LET r == ForkRemove(push.block, forkIndex, forkHead)
             IN  forkIndex' = r.index /\ forkHead' = r.head
          /\ Finish(TRUE)
          /\ UNCHANGED <<chain, lib, undoMax, forkMax, log, unsynced, final>>
  /\ UNCHANGED <<session, recording, linked, txVars, disk, crashes, closes>>

\* The next block of the branch that is switched to.
Toward == push.new[Len(chain) - Num(push.new[1]) + 2]

\* SwitchApply that does not store the blocks.
SwitchApplyUnstored ==
  /\ pc = "switch"
  /\ Head_ # Last(push.new)
  /\ Applies(Toward)
  /\ ApplyWith(Toward, BlockSize(Toward), BlockSize(Toward), log[Num(Toward)])
  /\ UNCHANGED <<session, recording, forkHead, linked, txVars, disk, pc, push, crashes, closes>>

\* "push all blocks on the new fork"
SwitchApply ==
  /\ pc = "switch"
  /\ Head_ # Last(push.new)
  /\ Applies(Toward)
  /\ ApplyAndStore(Toward)
  /\ UNCHANGED <<session, recording, forkHead, linked, txVars, disk, pc, push, crashes, closes>>

\* SwitchFails that forgets to restore the head of the fork database.
SwitchFailsKeepsHead ==
  /\ pc = "switch"
  /\ Head_ # Last(push.new)
  /\ ~Applies(Toward)
  /\ ThrowInSession
  /\ forkIndex' = forkIndex \ {b \in Range(push.new) : Num(b) > Len(chain)}
  /\ forkHead' = forkHead
  /\ pc' = "unwind"
  /\ UNCHANGED <<chain, lib, undoMax, session, recording, linked, forkMax, txVars, diskVars, push, boundVars>>

\* A block of the new branch does not apply: it and the rest of the branch
\* leave the fork database, the old branch's head becomes its head again.
SwitchFails ==
  /\ pc = "switch"
  /\ Head_ # Last(push.new)
  /\ ~Applies(Toward)
  /\ ThrowInSession
  /\ forkIndex' = forkIndex \ {b \in Range(push.new) : Num(b) > Len(chain)}
  /\ forkHead' = Last(push.old)
  /\ pc' = "unwind"
  /\ UNCHANGED <<chain, lib, undoMax, session, recording, linked, forkMax, txVars, diskVars, push, boundVars>>

Switched ==
  /\ pc = "switch"
  /\ Head_ = Last(push.new)
  /\ Finish(FALSE)
  /\ UNCHANGED <<chainVars, forkVars, txVars, diskVars, boundVars>>

\* "pop all blocks from the bad fork"; an exception here is not caught.
PopForUnwind ==
  /\ pc = "unwind"
  /\ Head_ # Parent[push.old[1]]
  /\ forkHead' = PopOutcome.head
  /\ IF PopOutcome.ok
     THEN PopVersion /\ UNCHANGED <<pc, push>>
     ELSE UNCHANGED <<chain, lib, undo, popped>> /\ Finish(TRUE)
  /\ UNCHANGED <<undoMax, session, recording, forkIndex, linked, forkMax, pending, diskVars, boundVars>>

\* The old branch is not applied again.
PoppedForUnwindOnly ==
  /\ pc = "unwind"
  /\ Head_ = Parent[push.old[1]]
  /\ Finish(TRUE)
  /\ UNCHANGED <<chainVars, forkVars, txVars, diskVars, boundVars>>

PoppedForUnwind ==
  /\ pc = "unwind"
  /\ Head_ = Parent[push.old[1]]
  /\ pc' = "reapply"
  /\ UNCHANGED <<chainVars, forkVars, txVars, diskVars, push, boundVars>>

\* "restore all blocks from the good fork"
Reapply ==
  /\ pc = "reapply"
  /\ Head_ # Last(push.old)
  /\ LET b == push.old[Len(chain) - Num(push.old[1]) + 2]
     IN  /\ Applies(b)
         /\ ApplyAndStore(b)
  /\ UNCHANGED <<session, recording, forkHead, linked, txVars, disk, pc, push, crashes, closes>>

Reapplied ==
  /\ pc = "reapply"
  /\ Head_ = Last(push.old)
  /\ Finish(TRUE)
  /\ UNCHANGED <<chainVars, forkVars, txVars, diskVars, boundVars>>

-----------------------------------------------------------------------------
(* Transactions.                                                           *)

\* The transactions of queue that are pushed again, in order, after those in
\* acc; the ones that no longer apply are dropped.
Repushed(acc, queue) ==
  FoldLeft(LAMBDA done, t :
             IF TxApplies(t, Included(chain) \cup Range(done)) THEN Append(done, t) ELSE done,
           acc, queue)

\* _push_transaction starts the pending session if there is none and then a
\* temporary one; both drop old versions, even when the transaction fails.
AfterTxSessions(u) ==
  KeepLast(IF session THEN u ELSE KeepLast(u, undoMax), undoMax - 1)

\* A transaction from a client or a peer.
PushTransaction(t) ==
  /\ pc = "idle"
  /\ Len(pending) < MaxPending
  /\ pending' = Repushed(pending, <<t>>)
  /\ undo' = AfterTxSessions(undo)
  /\ session' = TRUE
  /\ UNCHANGED <<chain, lib, undoMax, recording, forkVars, popped, diskVars, pc, push, boundVars>>

\* ~pending_transactions_restorer: the queue is pushed again; push_block then
\* returns, or lets its exception pass, to its caller or to reindex.
RestoreQueue(queue) ==
  /\ pc = "restore"
  /\ LET unknown == SelectSeq(queue, LAMBDA t : t \notin Included(chain))
     IN  /\ pending' = Repushed(<< >>, queue)
         /\ session' = (unknown # << >>)
         /\ undo' = IF unknown # << >> THEN KeepLast(KeepLast(undo, undoMax), undoMax - 1) ELSE undo
  /\ popped' = << >>
  /\ linked' = {b \in linked \cap forkIndex : Parent[b] \in forkIndex}
  /\ pc' = IF push.last = 0 THEN "idle" ELSE IF push.failed THEN "dead" ELSE "reindex"
  /\ push' = IF push.last = 0 THEN NoPush
             ELSE [NoPush EXCEPT !.last = push.last, !.todo = Tail(push.todo), !.gap = push.gap]
  /\ UNCHANGED <<chain, lib, undoMax, recording, forkIndex, forkHead, forkMax, diskVars, boundVars>>

\* Restore that forgets the transactions of popped blocks.
RestoreForgetsPopped == RestoreQueue(push.saved)

\* Transactions of popped blocks come first, then the ones set aside.
Restore == RestoreQueue(popped \o push.saved)

-----------------------------------------------------------------------------
(* Shutdown, crash and start.                                              *)

GenesisVersion == [chain |-> << >>, lib |-> 0]

CloseAt(cutoff) ==
  /\ pc = "idle"
  /\ closes < MaxCloses
  /\ closes' = closes + 1
  /\ pending' = << >>
  /\ session' = FALSE
  /\ pc' = "closing"
  /\ push' = [NoPush EXCEPT !.cutoff = cutoff]
  /\ UNCHANGED <<chain, lib, undo, undoMax, recording, forkVars, popped, diskVars, final, crashes>>

\* close() that does not rewind.
CloseAtHead == CloseAt(Len(chain))

\* close(): rewinding to the last irreversible block starts.
Close == CloseAt(lib)

\* One block is popped and removed from the fork database.
CloseRewind ==
  /\ pc = "closing"
  /\ Len(chain) > push.cutoff
  /\ IF PopOutcome.ok
     THEN /\ PopVersion
          /\ LET r == ForkRemove(Head_, forkIndex, PopOutcome.head)
             IN  forkIndex' = r.index /\ forkHead' = r.head
          /\ UNCHANGED <<pc, push>>
     ELSE /\ forkHead' = PopOutcome.head
          /\ pc' = "flush"
          /\ UNCHANGED <<chain, lib, undo, popped, forkIndex, push>>
  /\ UNCHANGED <<undoMax, session, recording, linked, forkMax, pending, diskVars, boundVars>>

CloseRewound ==
  /\ pc = "closing"
  /\ Len(chain) <= push.cutoff
  /\ pc' = "flush"
  /\ UNCHANGED <<chainVars, forkVars, txVars, diskVars, push, boundVars>>

\* What a new process starts from.
Stopped ==
  /\ chain' = << >> /\ lib' = 0 /\ undo' = << >>
  /\ undoMax' = MinUndoHistory /\ session' = FALSE /\ recording' = TRUE
  /\ forkIndex' = {} /\ forkHead' = None /\ linked' = {} /\ forkMax' = MaxForkSize
  /\ pending' = << >> /\ popped' = << >>
  /\ push' = NoPush
  /\ pc' = "closed"

\* The object database is written, the block log closed.
CloseFlush ==
  /\ pc = "flush"
  /\ disk' = Version
  /\ log' = log /\ unsynced' = None
  /\ Stopped
  /\ UNCHANGED boundVars

\* The numbers of the stored blocks; last() finds the highest.
Stored == {n \in 1..MaxNum : log[n] # None}
LastStored == IF Stored = {} THEN 0 ELSE CHOOSE n \in Stored : \A m \in Stored : m <= n

UndoPoint(last) == IF last < MaxUndoHistory THEN 0 ELSE last - MaxUndoHistory

\* flush() of the object database is under way.
Flushing ==
  \/ pc = "flush"
  \/ pc = "reindex" /\ ~recording /\ Len(chain) + 1 = UndoPoint(push.last)

\* The process dies.  Of the latest store the disk has all, nothing, or the
\* index entry without the block.  A flush that is under way leaves the old
\* object database, the new one or, between its two renames, none, and then
\* the next start is from genesis.
Crash ==
  /\ pc \notin {"closed", "dead"}
  /\ crashes < MaxCrashes
  /\ crashes' = crashes + 1
  /\ \/ log' = log
     \/ /\ unsynced # None
        /\ \E lost \in {unsynced.old, None} : log' = [log EXCEPT ![unsynced.num] = lost]
  /\ unsynced' = None
  /\ disk' \in (IF Flushing THEN {disk, Version, GenesisVersion} ELSE {disk})
  /\ Stopped
  /\ UNCHANGED <<final, closes>>

\* reindex that skips gaps.
ReadAcrossGaps(n) ==
  SelectSeq(SubSeq(log, n, LastStored), LAMBDA b : b # None)

\* What reindex reads: the stored blocks from number n up to the first gap.
ReadFrom(n) ==
  LET end == CHOOSE m \in n .. LastStored + 1 :
               (m > LastStored \/ log[m] = None) /\ \A k \in n .. m - 1 : log[k] # None
  IN  SubSeq(log, n, end - 1)

\* open(): load the object database, then replay what the block log has more.
\* Blocks of the same number are compared by their ids, in either order.
Open ==
  LET last == LastStored
      head == Len(disk.chain)
      todo == ReadFrom(head + 1)
  IN
  /\ pc = "closed"
  /\ chain' = disk.chain /\ lib' = disk.lib
  /\ pc' \in (IF last = 0 THEN {"idle"}
             ELSE IF last < head THEN {"dead"}
             ELSE IF last > head THEN {"reindex"}
             ELSE IF log[last] = Last(disk.chain) THEN {"idle"} ELSE {"idle", "dead"})
  /\ push' = IF last <= head THEN NoPush
             ELSE [NoPush EXCEPT !.last = last, !.todo = todo,
                                 !.gap = (Len(todo) < last - head)]
  /\ recording' = (last <= head \/ head >= UndoPoint(last))
  /\ forkHead' = IF last > head /\ recording' /\ head > 0 THEN log[head] ELSE None
  /\ forkIndex' = IF forkHead' = None THEN {} ELSE {forkHead'}
  /\ final' = IF pc' = "idle" THEN SubSeq(chain', 1, lib') ELSE final
  /\ UNCHANGED <<undo, undoMax, session, linked, forkMax, txVars, diskVars, crashes, closes>>

\* wipe(): a start with replay-blockchain, or with another version of the object
\* database, begins without one.
ForceReplay ==
  /\ pc = "dead" \/ (pc = "closed" /\ disk # GenesisVersion)
  /\ disk' = GenesisVersion
  /\ Stopped
  /\ UNCHANGED <<log, unsynced, boundVars>>

\* The read-ahead has come to the gap: what is stored after the block that is
\* replayed next is dropped, the blocks already read are still replayed.
AtGap == push.gap /\ Len(push.todo) < ReadAhead

ReindexGap ==
  /\ pc = "reindex"
  /\ AtGap
  /\ log' = [n \in 1..MaxNum |-> IF n > Len(chain) + 1 THEN None ELSE log[n]]
  /\ unsynced' = None
  /\ push' = [push EXCEPT !.gap = FALSE]
  /\ UNCHANGED <<chainVars, forkVars, txVars, disk, pc, boundVars>>

\* Replaying a block far below the end of the log: no undo, no fork database.
ReindexApply ==
  /\ pc = "reindex"
  /\ ~AtGap
  /\ push.todo # << >>
  /\ Len(chain) + 1 < UndoPoint(push.last)
  /\ LET b == push.todo[1]
     IN  IF Applies(b)
         THEN /\ chain' = Append(chain, b)
              /\ lib' = LastIrreversible(chain', lib)
              /\ undoMax' = Num(b) - lib + 1
              /\ forkMax' = Num(b) - lib + 1
              /\ push' = [push EXCEPT !.todo = Tail(@)]
              /\ pc' = pc
         ELSE /\ pc' = "dead"
              /\ UNCHANGED <<chain, lib, undoMax, forkMax, push>>
  /\ UNCHANGED <<undo, session, recording, forkIndex, forkHead, linked, txVars, diskVars, boundVars>>

\* Replaying a block near the end of the log, with undo recorded again.  The
\* object database is written when the first of them is reached.
ReindexFlush ==
  /\ pc = "reindex"
  /\ ~AtGap
  /\ push.todo # << >>
  /\ Len(chain) + 1 = UndoPoint(push.last)
  /\ ~recording
  /\ disk' = Version
  /\ recording' = TRUE
  /\ UNCHANGED <<chain, lib, undo, undoMax, session, forkVars, txVars, log, unsynced, pc, push, boundVars>>

ReindexPush ==
  /\ pc = "reindex"
  /\ ~AtGap
  /\ push.todo # << >>
  /\ Len(chain) + 1 >= UndoPoint(push.last)
  /\ recording
  /\ BeginPush(push.todo[1])

Reindexed ==
  /\ pc = "reindex"
  /\ ~AtGap
  /\ push.todo = << >>
  /\ recording' = TRUE
  /\ pc' = "idle"
  /\ push' = NoPush
  /\ final' = SubSeq(chain, 1, lib)
  /\ UNCHANGED <<chain, lib, undo, undoMax, session, forkVars, txVars, diskVars, crashes, closes>>

-----------------------------------------------------------------------------
Init ==
  /\ chain = << >> /\ lib = 0 /\ undo = << >>
  /\ undoMax = MinUndoHistory /\ session = FALSE /\ recording = TRUE
  /\ forkIndex = {} /\ forkHead = None /\ linked = {} /\ forkMax = MaxForkSize
  /\ pending = << >> /\ popped = << >>
  /\ log = [n \in 1..MaxNum |-> None]
  /\ unsynced = None
  /\ disk = GenesisVersion
  /\ pc = "idle"
  /\ push = NoPush
  /\ final = << >>
  /\ crashes = 0 /\ closes = 0

PushSteps ==
  \/ PopForSwitch \/ PoppedForSwitch \/ SwitchApply \/ SwitchFails \/ Switched
  \/ PopForUnwind \/ PoppedForUnwind \/ Reapply \/ Reapplied
  \/ Extend \/ Restore

StartSteps == Open \/ ReindexGap \/ ReindexApply \/ ReindexPush \/ ReindexFlush \/ Reindexed

StopSteps == CloseRewind \/ CloseRewound \/ CloseFlush

Next ==
  \/ \E b \in Blocks : PushBlock(b)
  \/ \E t \in Transactions : PushTransaction(t)
  \/ PushSteps
  \/ Close
  \/ Crash
  \/ ForceReplay
  \/ StartSteps
  \/ StopSteps

Spec == Init /\ [][Next]_vars

\* The steps of a node that is running never stop, and the network offers
\* every block again and again.
Fairness ==
  /\ WF_vars(PushSteps)
  /\ WF_vars(StartSteps)
  /\ WF_vars(StopSteps)
  /\ \A b \in Blocks : SF_vars(PushBlock(b))

LiveSpec == Spec /\ Fairness

-----------------------------------------------------------------------------
Steps == {"idle", "extend", "pop", "switch", "unwind", "reapply", "restore",
          "closing", "flush", "closed", "reindex", "dead"}

Versions == [chain : Seq(Blocks), lib : Nat]

\* Types of all variables.
TypeOK ==
  /\ Version \in Versions
  /\ undo \in Seq(Versions)
  /\ undoMax \in Nat /\ forkMax \in Nat
  /\ session \in BOOLEAN /\ recording \in BOOLEAN
  /\ forkIndex \subseteq Blocks /\ linked \subseteq Blocks
  /\ forkHead \in Blocks \cup {None}
  /\ pending \in Seq(Transactions) /\ popped \in Seq(Transactions)
  /\ log \in [1..MaxNum -> Blocks \cup {None}]
  /\ disk \in Versions
  /\ pc \in Steps

\* When push_block fails the chain is what it was before the call: the blocks
\* popped and applied on the way are all taken back (db_block.cpp:113).
FailedPushUnwinds ==
  pc = "restore" /\ push.failed => chain = push.before

\* Between calls the head of the fork database is the head of the chain, so a
\* block of equal height never looks like a reason to switch (db_block.cpp:151).
ForkHeadIsHead ==
  pc = "idle" /\ forkHead # None => forkHead = Head_

\* A fork switch never runs out of undo history, and never meets a block that
\* the fork database has forgotten, while it pops blocks: both exceptions are
\* thrown outside the try blocks and would leave the node between branches.
PopNeverThrows ==
  pc \in {"pop", "unwind"} /\ Head_ # Parent[push.old[1]] => PopOutcome.ok

\* After every push the block log holds the chain, so that a restart replays
\* to the same head: also after switches and after failed switches.
LogHoldsChain ==
  pc = "idle" => \A n \in DOMAIN chain : log[n] = chain[n]

\* A start never fails: open() and its reindex do not throw.
StartSucceeds == pc # "dead"

\* A forced replay, a start without an object database, gets through whatever
\* block log there is.
ReplayRecovers == pc = "dead" => disk # GenesisVersion

\* Whatever crashes and restarts lose, the chain that a node starts with is on
\* one branch with the blocks it held irreversible when it was stopped.
RestartAgrees ==
  [][(pc \in {"closed", "reindex"} /\ pc' = "idle") =>
       (IsPrefix(final, chain') \/ IsPrefix(chain', final))]_vars

\* close() stops rewinding above the last irreversible block only when there is
\* no undo history left.
CloseRewindsAll ==
  pc = "flush" => Len(chain) <= push.cutoff \/ undo = << >>

\* close() can always rewind to the last irreversible block, so what reaches
\* the disk is irreversible.
UndoReachesIrreversible ==
  pc = "idle" => Len(chain) - Len(undo) <= lib

\* The undo history, cut after every block to the distance to the irreversible
\* block as it was before that block, is long enough both for every fork switch
\* and for close().
UndoSuffices == PopNeverThrows /\ UndoReachesIrreversible

\* No transaction is lost by a push, whatever it pops and whether it fails:
\* what was on the chain or pending is so afterwards, or something that uses
\* up the same is.
NoTransactionLost ==
  [][pc = "restore" /\ pc' = "idle" =>
       \A t \in push.known : \E u \in Included(chain') \cup Range(pending') : Spends[u] = Spends[t]]_vars

\* The blocks up to the last irreversible number stay on the chain.
IrreversibleStays ==
  [][pc = "restore" /\ pc' = "idle" =>
       SubSeq(push.before, 1, push.irreversible) = SubSeq(chain', 1, push.irreversible)]_vars

Best == {b \in Blocks : \A n \in 1..Num(b) : Lineage[b][n] \notin BadBlocks}

\* Whatever blocks arrive and in whatever order, the invalid ones again and
\* again, push_block brings a running node to one of the longest valid chains
\* and keeps it there.
Converges ==
  <>[](pc = "idle" => \A b \in Best : Num(b) <= Len(chain))
=============================================================================
