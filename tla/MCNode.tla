-------------------------------- MODULE MCNode --------------------------------
(***************************************************************************)
(* What a node does besides applying operations: it schedules witnesses    *)
(* and produces blocks, keeps pending transactions, and synchronizes with  *)
(* its peers.  A behaviour is one of one of these in a small instance of   *)
(* its own: part says of which, and the others stand still.                *)
(***************************************************************************)
EXTENDS Integers, Sequences, FiniteSets

VARIABLES
  part,
  headNum, headTime, flag, aslot, nextMaint, param, active, shuffled, filled, total_missed,
  clock, running, enabled, woke, result, skipped, slots,
  chain, pending, session, ref, stale, failed,
  have, head, peerHead, conn, asked, wants, announces, offered, toFetch, itemsWake,
  activeReqs, newReceived, received, calls, recent, sent, suspended, fetchWake, backlogDue,
  asking, item, cuts, blamed

wVars == <<headNum, headTime, flag, aslot, nextMaint, param, active, shuffled, filled, total_missed,
           clock, running, enabled, woke, result, skipped, slots>>
tVars == <<chain, pending, session, ref, stale, failed>>
pVars == <<have, head, peerHead, conn, asked, wants, announces, offered, toFetch, itemsWake,
           activeReqs, newReceived, received, calls, recent, sent, suspended, fetchWake,
           backlogDue, asking, item, cuts, blamed>>
vars == <<part, wVars, tVars, pVars>>

-----------------------------------------------------------------------------
\* Elections of two or three witnesses, and two sets of parameters: intervals of
\* two and four seconds, the longer one without skipped slots.
W == INSTANCE WitnessSchedule WITH
  Witness <- {"w1", "w2", "w3"}, Elections <- {{"w1", "w2"}, {"w1", "w2", "w3"}},
  Params <- {[interval |-> 2, skip |-> 1, maint |-> 6], [interval |-> 4, skip |-> 0, maint |-> 8]},
  GenesisTime <- 5, SlotBits <- 3, Mine <- {"w1", "w2"}, WithKey <- {"w1"}, Required <- 40,
  StaleProduction <- FALSE, P2P <- TRUE, Prompt <- FALSE, MaxClock <- 17

\* A node that has all witnesses and wakes in every second.
N == INSTANCE WitnessSchedule WITH
  Witness <- {"w1", "w2", "w3"}, Elections <- {{"w1", "w2"}, {"w1", "w2", "w3"}},
  Params <- {[interval |-> 2, skip |-> 1, maint |-> 6]},
  GenesisTime <- 10, SlotBits <- 3, Mine <- {"w1", "w2", "w3"}, WithKey <- {"w1", "w2", "w3"},
  Required <- 0, StaleProduction <- TRUE, P2P <- TRUE, Prompt <- TRUE, MaxClock <- 29

\* Three transactions: b needs a, c clashes with a; a is big.
T == INSTANCE TransactionPool WITH
  Tx <- {"a", "b", "c"}, Expiration <- [t \in {"a", "b", "c"} |-> IF t = "c" THEN 2 ELSE 3],
  Size <- [t \in {"a", "b", "c"} |-> IF t = "a" THEN 2 ELSE 1],
  Needs <- [t \in {"a", "b", "c"} |-> IF t = "b" THEN {"a"} ELSE {}],
  Clash <- [t \in {"a", "b", "c"} |-> CASE t = "a" -> {"c"} [] t = "b" -> {} [] t = "c" -> {"a"}],
  MaxBlockSize <- 2, MaxUntil <- 3, Summaries <- 3, MaxTime <- 4, MaxBlocks <- 3, MaxFork <- 2, MaxTxs <- 2

\* A chain of blocks A1 to A4.
Line == [b \in {"Root", "A1", "A2", "A3", "A4"} |->
           CASE b = "Root" -> <<>> [] b = "A1" -> <<"A1">> [] b = "A2" -> <<"A1", "A2">>
             [] b = "A3" -> <<"A1", "A2", "A3">> [] b = "A4" -> <<"A1", "A2", "A3", "A4">>]

\* Two peers with the same chain.  P2 may stop answering, and one connection breaks: what
\* was requested from it is requested from P1, and the other way round.
S == INSTANCE PeerSync WITH
  Peers <- {"P1", "P2"}, Blocks <- {"A1", "A2", "A3", "A4"}, Path <- Line, Root <- "Root", NoBlock <- "None",
  Invalid <- {}, Start <- "Root", PeerStart <- [p \in {"P1", "P2"} |-> "A2"],
  Growth <- [p \in {"P1", "P2"} |-> {}],
  Silent <- {"P2"}, Limit <- 4, MinIds <- 2, PerPeer <- 2, MaxCalls <- 1, Prefetch <- 1, Possible <- 4,
  MaxCuts <- 1

\* One peer, whose chain grows while we fetch it.
G == INSTANCE PeerSync WITH
  Peers <- {"P1"}, Blocks <- {"A1", "A2", "A3", "A4"}, Path <- Line, Root <- "Root", NoBlock <- "None",
  Invalid <- {}, Start <- "Root", PeerStart <- [p \in {"P1"} |-> "A3"], Growth <- [p \in {"P1"} |-> {"A4"}],
  Silent <- {}, Limit <- 4, MinIds <- 2, PerPeer <- 2, MaxCalls <- 1, Prefetch <- 1, Possible <- 4,
  MaxCuts <- 0

\* Two peers, one of which may fall silent and has blocks of the future beyond the other's:
\* the chain refuses them, and there cannot be that many by now.
F == INSTANCE PeerSync WITH
  Peers <- {"P1", "P2"}, Blocks <- {"A1", "A2", "A3", "A4"}, Path <- Line, Root <- "Root", NoBlock <- "None",
  Invalid <- {"A2"}, Start <- "Root", PeerStart <- [p \in {"P1", "P2"} |-> IF p = "P1" THEN "A1" ELSE "A3"],
  Growth <- [p \in {"P1", "P2"} |-> {}],
  Silent <- {"P2"}, Limit <- 2, MinIds <- 2, PerPeer <- 2, MaxCalls <- 2, Prefetch <- 1, Possible <- 1,
  MaxCuts <- 1

\* Two peers whose chain we have.  One goes on to announce blocks that the chain refuses, or
\* that do not link to ours because it has not announced the one before.
A == INSTANCE PeerSync WITH
  Peers <- {"P1", "P2"}, Blocks <- {"A1", "A2", "A3", "A4"}, Path <- Line, Root <- "Root", NoBlock <- "None",
  Invalid <- {"A2"}, Start <- "A1", PeerStart <- [p \in {"P1", "P2"} |-> "A1"],
  Growth <- [p \in {"P1", "P2"} |-> IF p = "P1" THEN {} ELSE {"A2", "A3"}],
  Silent <- {}, Limit <- 2, MinIds <- 2, PerPeer <- 2, MaxCalls <- 1, Prefetch <- 1, Possible <- 1,
  MaxCuts <- 0

\* The instances meet what the modules assume.
ASSUME NodeAssumption ==
  W!ScheduleAssumption /\ N!ScheduleAssumption /\ N!SoleProducer /\ T!PoolAssumption

-----------------------------------------------------------------------------
\* A part that is not run stands still in one of its initial states.
Init ==
  /\ part \in {"schedule", "producer", "transactions", "sync", "growth", "faults", "announced"}
  /\ IF part = "schedule" THEN W!Init ELSE N!Init
  /\ part \in {"schedule", "producer"} \/ active = {"w1", "w2"}
  /\ T!Init
  /\ CASE part = "growth" -> G!Init [] part = "faults" -> F!Init [] part = "announced" -> A!Init
       [] OTHER -> S!Init

Next ==
  /\ UNCHANGED part
  /\ IF part = "schedule" THEN W!Next
     ELSE IF part = "producer" THEN N!Next
     ELSE UNCHANGED wVars
  /\ IF part = "transactions" THEN T!Next ELSE UNCHANGED tVars
  /\ IF part = "sync" THEN S!Next
     ELSE IF part = "growth" THEN G!Next
     ELSE IF part = "faults" THEN F!Next
     ELSE IF part = "announced" THEN A!Next
     ELSE UNCHANGED pVars

\* The fairness of PeerSync, for the parts that are about liveness: the node's own
\* tasks run, the peer that is not silent answers and asks, a request that is not answered
\* ends the connection, connections are made and stalls noticed.
Fairness ==
  /\ WF_pVars(IF part = "sync" THEN S!FetchSyncItems ELSE part = "growth" /\ G!FetchSyncItems)
  /\ WF_pVars(IF part = "sync" THEN S!ProcessBacklog ELSE part = "growth" /\ G!ProcessBacklog)
  /\ WF_pVars(IF part = "sync" THEN S!PushSyncBlock ELSE part = "growth" /\ G!PushSyncBlock)
  /\ WF_pVars(IF part = "sync" THEN S!SyncBlockAccepted ELSE part = "growth" /\ G!SyncBlockAccepted)
  /\ WF_pVars(IF part = "sync" THEN S!SyncBlockRejected ELSE part = "growth" /\ G!SyncBlockRejected)
  /\ WF_pVars(IF part = "sync" THEN S!FetchItem ELSE part = "growth" /\ G!FetchItem)
  /\ WF_pVars(IF part = "sync" THEN S!AskNextBatch("P1") ELSE part = "growth" /\ G!AskNextBatch("P1"))
  /\ WF_pVars(IF part = "sync" THEN S!PushItem("P1") ELSE part = "growth" /\ G!PushItem("P1"))
  /\ WF_pVars(IF part = "sync" THEN S!ItemHandled("P1") ELSE part = "growth" /\ G!ItemHandled("P1"))
  /\ WF_pVars(IF part = "sync" THEN S!Connect("P1") ELSE part = "growth" /\ G!Connect("P1"))
  /\ WF_pVars(IF part = "sync" THEN S!KillStalled("P1") ELSE part = "growth" /\ G!KillStalled("P1"))
  /\ WF_pVars(IF part = "sync" THEN S!Answers("P1") ELSE part = "growth" /\ G!Answers("P1"))
  /\ WF_pVars(IF part = "sync" THEN S!PeerAsks("P1") ELSE part = "growth" /\ G!PeerAsks("P1"))
  /\ WF_pVars(IF part = "sync" THEN S!PeerFetches("P1") ELSE part = "growth" /\ G!PeerFetches("P1"))
  /\ WF_pVars(part = "sync" /\ S!AskNextBatch("P2"))
  /\ WF_pVars(part = "sync" /\ S!PushItem("P2"))
  /\ WF_pVars(part = "sync" /\ S!ItemHandled("P2"))
  /\ WF_pVars(part = "sync" /\ S!Connect("P2"))
  /\ WF_pVars(part = "sync" /\ S!KillStalled("P2"))
  /\ WF_pVars(part = "sync" /\ S!ConnectionLost("P2"))

Spec == Init /\ [][Next]_vars /\ Fairness

-----------------------------------------------------------------------------
(* Properties: those of the part that is run, as its module defines them.      *)

\* get_slot_time and get_slot_at_time are inverse to each other at every head, a
\* block leaves the next maintenance ahead of it (perform_chain_maintenance), and
\* charges a witness with at most one missed block, never its own producer
\* (update_witness_missed_blocks).
SlotsAgree ==
  /\ [](part = "schedule" => W!TypeOK /\ W!SlotInverse /\ W!NextMaintAhead)
  /\ [][part = "schedule" => W!ChargeStep]_vars

\* A node that has all witnesses never lets a slot pass, and the absolute slot
\* number says what time it is (block_production_loop, update_global_dynamic_data).
NoStall == part = "producer" => N!TypeOK /\ N!NoStall /\ N!AslotTime

\* The pending session is the result of applying the pending transactions to the
\* head block, no transaction is applied twice or on a branch it was not signed
\* for, and one that can be applied is not lost (pending_transactions_restorer,
\* _generate_block, clear_expired_transactions).
TransactionsKept ==
  [](part = "transactions" => T!PoolSound /\ T!AppliedOnce /\ T!TaposHonoured) /\ T!NothingLost

\* A block is being requested from exactly one peer as long as it is marked as
\* requested, blocks reach the chain in order, the assertion on the synopsis holds
\* and no honest peer is disconnected for a fault (node.cpp).
SyncSound ==
  /\ part = "faults" => F!TypeOK /\ F!SyncSound
  /\ part = "announced" => A!TypeOK /\ A!SyncSound

\* Our chain becomes, and stays, as long as that of every peer that answers, also when it
\* grows and when other peers break off, unless received blocks are left behind
\* (process_backlog_of_sync_blocks).
CatchesUp ==
  /\ <>[](part = "sync" => S!CaughtUp \/ S!LeftBehind)
  /\ <>[](part = "growth" => G!CaughtUp \/ G!LeftBehind)
==============================================================================
