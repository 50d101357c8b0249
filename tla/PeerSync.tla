-------------------------------- MODULE PeerSync --------------------------------
(***************************************************************************)
(* How a node fetches the blocks it lacks from its peers (net/node.cpp,    *)
(* with the delegate of app/application.cpp): it sends a peer a synopsis   *)
(* of its chain, receives the ids of the blocks the peer has beyond it,    *)
(* distributes the requests for these blocks over its peers, puts the      *)
(* blocks back in order, hands them to the chain, and asks again until a   *)
(* peer has nothing new.  Peers that are in sync announce their new blocks *)
(* outside of this.                                                        *)
(*                                                                         *)
(* The network code runs in fibers of one thread of its own, and blocks    *)
(* are pushed to the chain by another thread: a handler is one step, but   *)
(* pushing a block is a step between two of the network's, and the task    *)
(* that puts the blocks in order stops where it asks for ids, because what *)
(* comes meanwhile does not start it again.  Other waits for the chain's   *)
(* answers (has_item, a synopsis) do not divide a handler.  Messages of    *)
(* one peer are handled in order; a peer computes its answer when the      *)
(* answer arrives.  All blocks can be undone; disconnecting is immediate.  *)
(***************************************************************************)
EXTENDS Integers, FiniteSets, Sequences, SequencesExt, TLC

CONSTANTS
    Peers,
    Blocks,
    Path,         \* Path[b]: the blocks from the first one up to b
    Root,         \* the genesis block, which is never transferred
    NoBlock,
    Invalid,      \* blocks that the chain refuses to apply
    Start,        \* our head at the start
    PeerStart,    \* PeerStart[p]: the head of each peer at the start
    Growth,       \* Growth[p]: the blocks that become the head of a peer later
    Silent,       \* peers that may stop answering
    Limit,        \* ids in one reply of get_block_ids (2000)
    MinIds,       \* GRAPHENE_NET_MIN_BLOCK_IDS_TO_PREFETCH (10000)
    PerPeer,      \* _max_sync_blocks_per_peer (200)
    MaxCalls,     \* _max_blocks_to_handle_at_once (200)
    Prefetch,     \* _max_sync_blocks_to_prefetch (2000)
    Possible,     \* blocks that can exist by now: (now - genesis time) / block interval
    MaxCuts       \* bound on the connections that break

VARIABLES
    have,         \* blocks the chain database knows
    head,         \* its head
    peerHead,     \* the head of each peer's chain
    conn,         \* peer_connection of each peer
    asked,        \* requests sent to each peer and not yet answered, in order
    wants,        \* peers that will ask us for ids
    announces,    \* peers that believe we are in sync and announce blocks to us
    offered,      \* inventory_peer_advertised_to_us: blocks each peer has announced
    toFetch,      \* _items_to_fetch
    itemsWake,    \* fetch_items_loop has been triggered
    activeReqs,   \* _active_sync_requests
    newReceived,  \* _new_received_sync_items
    received,     \* _received_sync_items
    calls,        \* _handle_message_calls_in_progress, with the chain's verdict
    recent,       \* _most_recent_blocks_accepted
    sent,         \* blocks we have announced to a peer
    suspended,    \* _suspend_fetching_sync_blocks
    fetchWake,    \* fetch_sync_items_loop has been triggered
    backlogDue,   \* process_backlog_of_sync_blocks has been scheduled
    asking,       \* peers it still has to ask for ids before it ends
    item,         \* the announced block of each peer that the chain is handling
    cuts,         \* connections broken so far
    blamed        \* peers disconnected for a fault of theirs
chain   == <<have, head>>
backlog == <<received, calls, suspended, asking>>
queues  == <<newReceived, backlog, backlogDue>>
normal  == <<offered, toFetch, itemsWake>>
others  == <<peerHead, wants, announces>>
vars == <<chain, peerHead, conn, asked, wants, announces, normal, item, activeReqs, queues,
          recent, sent, fetchWake, cuts, blamed>>

-----------------------------------------------------------------------------
(* Chains and synopses *)

Num(b) == Len(Path[b])
Parent(b) == IF Num(b) = 1 THEN Root ELSE Path[b][Num(b) - 1]

\* The block numbers of a synopsis: from low, always half of what remains.
RECURSIVE Points(_, _, _)
Points(low, high, trueHigh) ==
    IF low > high THEN <<>>
    ELSE <<low>> \o Points(low + (trueHigh - low + 2) \div 2, high, trueHigh)

\* application_impl::get_blockchain_synopsis: a chain up to the reference point or the
\* head, leaving room for n further blocks.
SynopsisOf(ours, n) ==
    LET points == Points(1, Len(ours), Len(ours) + n)
    IN [i \in DOMAIN points |-> ours[points[i]]]
get_blockchain_synopsis(ref, n) == SynopsisOf(Path[IF ref = NoBlock THEN head ELSE ref], n)

\* mutant: the last id is left out
SynopsisShort(c) ==
    LET syn == get_blockchain_synopsis(c.last, Len(c.toGet))
        first == Num(Head(c.toGet))
        high == first + Len(c.toGet) - 1
        low == IF syn = <<>> THEN 1 ELSE Num(Head(syn))
        points == SelectSeq(Points(low, high - 1, high), LAMBDA k : k >= first)
    IN
    IF c.toGet = <<>> THEN syn
    ELSE syn \o [i \in DOMAIN points |-> c.toGet[points[i] - first + 1]]
\* create_blockchain_synopsis_for_peer: continued with the ids the peer has told us.
create_blockchain_synopsis_for_peer(c) ==
    LET syn == get_blockchain_synopsis(c.last, Len(c.toGet))
        first == Num(Head(c.toGet))
        high == first + Len(c.toGet) - 1
        low == IF syn = <<>> THEN 1 ELSE Num(Head(syn))
        points == SelectSeq(Points(low, high, high), LAMBDA k : k >= first)
    IN
    IF c.toGet = <<>> THEN syn
    ELSE syn \o [i \in DOMAIN points |-> c.toGet[points[i] - first + 1]]

\* application_impl::get_block_ids: the blocks of a chain from the last one of the
\* synopsis that is in it.
get_block_ids(ours, syn) ==
    LET known == {i \in DOMAIN syn : Contains(ours, syn[i])}
        from == IF syn = <<>> THEN 1
                ELSE Num(syn[CHOOSE i \in known : \A j \in known : j <= i])
        to == IF from + Limit - 1 < Len(ours) THEN from + Limit - 1 ELSE Len(ours)
    IN
    IF ours = <<>> \/ (syn # <<>> /\ known = {})
    THEN [ids |-> <<>>, remaining |-> 0]
    ELSE [ids |-> SubSeq(ours, from, to), remaining |-> Len(ours) - to]

\* on_fetch_blockchain_item_ids_message: whoever asked has all there is.
NothingNew(reply, syn) ==
    \/ reply.ids = <<>>
    \/ syn # <<>> /\ Len(reply.ids) = 1 /\ Contains(syn, reply.ids[1])

\* database::push_block as seen from here: a block that does not make the longest chain
\* is kept without being applied; a chain with an invalid block is given up from there.
Push(b) ==
    LET bad == {x \in ToSet(Path[b]) : \E i \in 1..Num(x) : Path[x][i] \in Invalid} IN
    IF Parent(b) \notin have \cup {Root}
    THEN [verdict |-> "unlinkable", have |-> have, head |-> head]
    ELSE IF Num(b) <= Num(head)
    THEN [verdict |-> "accepted", have |-> have \cup {b}, head |-> head]
    ELSE IF bad # {}
    THEN [verdict |-> "invalid", have |-> have \ bad, head |-> head]
    ELSE [verdict |-> "accepted", have |-> have \cup {b}, head |-> b]

-----------------------------------------------------------------------------
(* Connections *)

NotAsked == [synopsis |-> <<NoBlock>>]
NoItem == [block |-> NoBlock, verdict |-> "none"]

Down == [up |-> FALSE, need |-> TRUE, theyNeed |-> TRUE, toGet |-> <<>>,
         processing |-> {}, unfetched |-> 0, ids |-> NotAsked, items |-> {},
         norm |-> {}, last |-> NoBlock]

idle(c) == c.norm = {} /\ c.items = {} /\ c.ids = NotAsked

Active == {p \in Peers : conn[p].up}

\* The lock on the active connections is free: the backlog holds it while it asks for ids.
Unlocked == asking = {}

\* The next message of the peer answers a request of this kind, and is read: its last one
\* is no longer being handled.
Awaited(p, kind) ==
    /\ conn[p].up /\ item[p] = NoItem
    /\ asked[p] # <<>> /\ Head(asked[p]).kind = kind

\* fetch_next_batch_of_item_ids_from_peer, for every peer of S.
FetchIds(cs, S) ==
    [p \in Peers |-> IF p \in S
                     THEN [cs[p] EXCEPT !.ids =
                             [synopsis |-> create_blockchain_synopsis_for_peer(cs[p])]]
                     ELSE cs[p]]
AskIds(cs, queue, S) ==
    [p \in Peers |-> IF p \in S
                     THEN Append(queue[p], [kind |-> "ids", blocks |->
                             create_blockchain_synopsis_for_peer(cs[p])])
                     ELSE queue[p]]

\* start_synchronizing_with_peer, up to the request it sends.
Restarted(c) == [c EXCEPT !.toGet = <<>>, !.unfetched = 0, !.need = TRUE, !.last = NoBlock]
Restart(cs, S) == [p \in Peers |-> IF p \in S THEN Restarted(cs[p]) ELSE cs[p]]

\* new_peer_just_added; the peer also starts to synchronize with us.  A peer that does not
\* answer is not connected to again for ever.
Connect(p) ==
    LET cs == [conn EXCEPT ![p] = Restarted([Down EXCEPT !.up = TRUE])] IN
    /\ Unlocked
    /\ ~conn[p].up
    /\ p \in Silent => cuts < MaxCuts
    /\ conn' = FetchIds(cs, {p})
    /\ asked' = AskIds(cs, asked, {p})
    /\ wants' = wants \cup {p}
    /\ UNCHANGED <<chain, peerHead, announces, normal, item, activeReqs, queues, recent, sent,
                   fetchWake, cuts, blamed>>

\* mutant: what was requested from the peer is not rescheduled
ClosedForgets(cs, S) ==
    /\ Unlocked
    /\ conn' = [p \in Peers |-> IF p \in S THEN Down ELSE cs[p]]
    /\ asked' = [p \in Peers |-> IF p \in S THEN <<>> ELSE asked[p]]
    /\ activeReqs' = activeReqs
    /\ announces' = announces \ S
    /\ wants' = wants \ S
    /\ offered' = [p \in Peers |-> IF p \in S THEN {} ELSE offered[p]]
    /\ item' = [p \in Peers |-> IF p \in S THEN NoItem ELSE item[p]]
    /\ toFetch' = toFetch
    /\ itemsWake' = TRUE
    /\ fetchWake' = TRUE
\* The connections to S end: disconnect_from_peer and on_connection_closed, which lets
\* what was requested from them be requested from others.
Closed(cs, S) ==
    LET rest == Active \ S IN
    /\ Unlocked
    /\ conn' = [p \in Peers |-> IF p \in S THEN Down ELSE cs[p]]
    /\ asked' = [p \in Peers |-> IF p \in S THEN <<>> ELSE asked[p]]
    /\ activeReqs' = activeReqs \ UNION {cs[p].items : p \in S}
    /\ announces' = announces \ S
    /\ wants' = wants \ S
    /\ offered' = [p \in Peers |-> IF p \in S THEN {} ELSE offered[p]]
    /\ item' = [p \in Peers |-> IF p \in S THEN NoItem ELSE item[p]]
    /\ toFetch' = toFetch \cup {b \in UNION {cs[p].norm : p \in S} :
                                  \E q \in rest : b \in offered[q]}
    /\ itemsWake' = (itemsWake \/ \E p \in S : cs[p].norm # {})
    /\ fetchWake' = (fetchWake \/ \E p \in S : cs[p].items # {})

\* A connection breaks, or kill_inactive_conns_loop ends it because a request has not
\* been answered in time.
ConnectionLost(p) ==
    /\ conn[p].up
    /\ cuts < MaxCuts \/ (p \in Silent /\ ~idle(conn[p]))
    /\ cuts' = IF cuts < MaxCuts THEN cuts + 1 ELSE cuts
    /\ Closed(conn, {p})
    /\ UNCHANGED <<chain, peerHead, queues, recent, sent, blamed>>

\* kill_inactive_conns_loop: "a state we should never get into in the first place".  What
\* it looks at before, inactivity and requests that are not answered, ends the connection
\* as well or puts this off to a later iteration.
Stalled(c) == c.up /\ c.need /\ c.ids = NotAsked /\ c.toGet = <<>>

KillStalled(p) ==
    /\ Stalled(conn[p])
    /\ item[p] = NoItem
    /\ Closed(conn, {p})
    /\ UNCHANGED <<chain, peerHead, queues, recent, sent, cuts, blamed>>

-----------------------------------------------------------------------------
(* Lists of ids *)

\* The reply builds on a block of the synopsis that was sent.
Legit(reply, syn) ==
    \/ reply.ids = <<>>
    \/ syn = <<>> /\ Num(reply.ids[1]) = 1
    \/ syn # <<>> /\ Contains(syn, reply.ids[1])

\* "Peer said we're up-to-date".
UpToDate(c, reply) ==
    /\ reply.remaining = 0
    /\ reply.ids = <<>> \/ (Len(reply.ids) = 1 /\ reply.ids[1] \in have)
    /\ c.toGet = <<>>
    /\ c.unfetched = 0

\* The peer's list extended by what it has sent: blocks that we have are left out, unless
\* another peer is about to get the first one; a list that has been replaced by a fork is
\* dropped.
Extended(p, c, ids) ==
    LET known == CHOOSE k \in 0..Len(ids) :
                    /\ \A i \in 1..k : ids[i] \in have
                    /\ k = Len(ids) \/ ids[k + 1] \notin have
        sharing == {q \in Active \ {p} : conn[q].toGet # <<>> /\ Head(conn[q].toGet) = ids[1]}
        at == SelectLastInSeq(c.toGet, LAMBDA b : b = ids[1])
    IN
    IF ids = <<>> THEN c
    ELSE IF c.toGet = <<>>
    THEN IF sharing # {} \/ known = 0 THEN [c EXCEPT !.toGet = ids]
         ELSE [c EXCEPT !.toGet = SubSeq(ids, known + 1, Len(ids)), !.last = ids[known]]
    ELSE IF at = 0
    THEN [c EXCEPT !.toGet = Tail(ids), !.last = ids[1]]
    ELSE [c EXCEPT !.toGet = SubSeq(c.toGet, 1, at - 1) \o ids]

\* The last block that the peer offers, beyond the ids it has sent, would be in the future.
Implausible(c, remaining) == c.last # NoBlock /\ Num(c.last) + remaining > Possible

IdsReply(p) == get_block_ids(Path[peerHead[p]], Head(asked[p]).blocks)
Answered(p) == [asked EXCEPT ![p] = Tail(@)]

\* What the peer's list becomes with its answer.
Listed(p, reply) == [Extended(p, conn[p], reply.ids)
                       EXCEPT !.ids = NotAsked, !.unfetched = reply.remaining]

\* The answer ends the connection.
Refused(p, reply) ==
    \/ ~Legit(reply, conn[p].ids.synopsis)
    \/ ~UpToDate(conn[p], reply) /\ Implausible(Listed(p, reply), reply.remaining)

\* What the peer concludes from our request: that we are in sync, or that it lacks blocks.
PeerLearns(p, reply) ==
    LET syn == Head(asked[p]).blocks IN
    /\ announces' = IF NothingNew(reply, syn) THEN announces \cup {p} ELSE announces \ {p}
    /\ wants' = IF syn # <<>> /\ ~Contains(Path[peerHead[p]], Last(syn))
                THEN wants \cup {p} ELSE wants

\* on_blockchain_item_ids_inventory_message.
IgnoreIds(p, reply) ==
    /\ conn[p].ids = NotAsked
    /\ asked' = Answered(p)
    /\ PeerLearns(p, reply)
    /\ UNCHANGED <<chain, peerHead, conn, normal, item, activeReqs, queues, recent, sent,
                   fetchWake, cuts, blamed>>

RefuseIds(p, reply) ==
    /\ conn[p].ids # NotAsked
    /\ Refused(p, reply)
    /\ blamed' = blamed \cup {p}
    /\ Closed(conn, {p})
    /\ UNCHANGED <<chain, peerHead, queues, recent, sent, cuts>>

FinishIds(p, reply) ==
    /\ Unlocked
    /\ conn[p].ids # NotAsked
    /\ ~Refused(p, reply)
    /\ UpToDate(conn[p], reply)
    /\ conn' = [conn EXCEPT ![p].ids = NotAsked, ![p].need = FALSE]
    /\ asked' = Answered(p)
    /\ PeerLearns(p, reply)
    /\ UNCHANGED <<chain, peerHead, normal, item, activeReqs, queues, recent, sent,
                   fetchWake, cuts, blamed>>

TakeIds(p, reply) ==
    /\ Unlocked
    /\ conn[p].ids # NotAsked
    /\ ~Refused(p, reply)
    /\ ~UpToDate(conn[p], reply)
    /\ \E c \in {Listed(p, reply)} :
          LET more == IF c.unfetched # 0 THEN Len(c.toGet) <= MinIds ELSE c.toGet = <<>>
              cs == [conn EXCEPT ![p] = c]
              S == IF more THEN {p} ELSE {}
          IN
          /\ conn' = FetchIds(cs, S)
          /\ asked' = AskIds(cs, Answered(p), S)
          /\ fetchWake' = (fetchWake \/ ~more)
    /\ PeerLearns(p, reply)
    /\ UNCHANGED <<chain, peerHead, normal, item, activeReqs, queues, recent, sent, cuts,
                   blamed>>

AnswerIds(p) ==
    /\ Awaited(p, "ids")
    /\ \E reply \in {IdsReply(p)} :
          \/ IgnoreIds(p, reply) \/ RefuseIds(p, reply)
          \/ FinishIds(p, reply) \/ TakeIds(p, reply)

-----------------------------------------------------------------------------
(* Fetching the blocks of the lists *)

\* What an iteration of fetch_sync_items_loop requests from each peer, visited in the
\* given order.
Requests(order) ==
    LET taken == ToSet(received) \cup ToSet(newReceived) \cup activeReqs
        Visit(acc, p) ==
            LET wanted == SelectSeq(conn[p].toGet, LAMBDA b :
                              b \notin taken /\ \A q \in Peers : ~Contains(acc[q], b))
                n == IF Len(wanted) < PerPeer THEN Len(wanted) ELSE PerPeer
            IN IF conn[p].need /\ idle(conn[p])
               THEN [acc EXCEPT ![p] = SubSeq(wanted, 1, n)]
               ELSE acc
    IN FoldLeft(Visit, [p \in Peers |-> <<>>], order)

\* fetch_sync_items_loop and request_sync_items_from_peer.
FetchSyncItems ==
    /\ Unlocked
    /\ fetchWake
    /\ fetchWake' = FALSE
    /\ \E req \in {IF suspended THEN [p \in Peers |-> <<>>] ELSE Requests(order) :
                        order \in SetToSeqs(Active)} :
          /\ conn' = [p \in Peers |-> [conn[p] EXCEPT !.items = @ \cup ToSet(req[p])]]
          /\ asked' = [p \in Peers |-> asked[p] \o
                         [i \in DOMAIN req[p] |-> [kind |-> "sync", blocks |-> <<req[p][i]>>]]]
          /\ activeReqs' = activeReqs \cup UNION {ToSet(req[p]) : p \in Peers}
    /\ UNCHANGED <<chain, others, normal, item, queues, recent, sent, cuts, blamed>>

\* process_block_message for a block requested by fetch_sync_items_loop.  The backlog is
\* not scheduled again while it is being processed (trigger_process_backlog_of_sync_blocks).
AnswerSyncBlock(p) ==
    LET b == Head(asked[p]).blocks[1]
        c == [conn[p] EXCEPT !.items = @ \ {b}]
        S == IF idle(c) /\ c.unfetched > 0 /\ Len(c.toGet) < MinIds THEN {p} ELSE {}
        cs == [conn EXCEPT ![p] = c]
    IN
    /\ Awaited(p, "sync")
    /\ activeReqs' = activeReqs \ {b}
    /\ newReceived' = <<b>> \o newReceived
    /\ backlogDue' = (asking = {})
    /\ conn' = FetchIds(cs, S)
    /\ asked' = AskIds(cs, Answered(p), S)
    /\ fetchWake' = (fetchWake \/ (idle(c) /\ S = {}))
    /\ UNCHANGED <<chain, others, normal, item, backlog, recent, sent, cuts, blamed>>

-----------------------------------------------------------------------------
(* Handing the blocks to the chain in order *)

\* mutant: the blocks are taken as they come
FirstReceived(cs, blocks) == IF blocks = <<>> THEN 0 ELSE 1
\* The first received block that some peer's list begins with, or 0.
NextReceived(cs, blocks) ==
    SelectInSeq(blocks, LAMBDA b :
        \E p \in Active : cs[p].toGet # <<>> /\ Head(cs[p].toGet) = b)

\* The loop of process_backlog_of_sync_blocks, from the state s of its variables: the
\* block is taken off the lists and handed to the chain, unless it has been accepted
\* already.
RECURSIVE Backlog(_)
Backlog(s) ==
    LET i == NextReceived(s.conn, s.received)
        b == s.received[i]
        S == {p \in Active : s.conn[p].toGet # <<>> /\ Head(s.conn[p].toGet) = b}
        popped == [p \in Peers |-> IF p \in S THEN [s.conn[p] EXCEPT !.toGet = Tail(@)]
                                   ELSE s.conn[p]]
        taken == [s EXCEPT
            !.conn = [p \in Peers |-> IF p \in S THEN [popped[p] EXCEPT !.processing = @ \cup {b}]
                                      ELSE s.conn[p]],
            !.received = RemoveAt(@, i),
            !.calls = Append(@, [block |-> b, verdict |-> "pending"])]
    IN
    IF i = 0 THEN s
    ELSE IF b \in recent
    THEN [s EXCEPT !.conn = [p \in Peers |-> [popped[p] EXCEPT !.processing = @ \ {b}]],
                   !.batch = {p \in Active :
                       /\ p \in S \/ b \in s.conn[p].processing
                       /\ popped[p].toGet = <<>> /\ popped[p].unfetched = 0
                       /\ popped[p].processing \ {b} = {}}]
    ELSE IF Len(taken.calls) >= MaxCalls THEN taken
    ELSE Backlog(taken)

\* mutant: fetching is not resumed
BacklogStaysSuspended ==
    LET full(s) == Len(s.calls) >= MaxCalls /\ Len(s.received) >= Prefetch IN
    /\ Unlocked
    /\ backlogDue
    /\ backlogDue' = FALSE
    /\ \/ /\ Len(calls) >= MaxCalls
          /\ UNCHANGED <<conn, newReceived, backlog, fetchWake>>
       \/ /\ Len(calls) < MaxCalls
          /\ \E s \in {Backlog([conn |-> conn, received |-> Reverse(newReceived) \o received,
                                calls |-> calls, batch |-> {}])} :
                /\ conn' = s.conn
                /\ received' = s.received
                /\ calls' = s.calls
                /\ suspended' = (suspended \/ full(s))
                /\ asking' = s.batch
                /\ fetchWake' = (fetchWake \/ (s.batch = {} /\ ~suspended'))
          /\ newReceived' = <<>>
    /\ UNCHANGED <<chain, others, asked, normal, item, activeReqs, recent, sent, cuts, blamed>>
\* process_backlog_of_sync_blocks, up to where it asks peers for ids.
ProcessBacklog ==
    LET full(s) == Len(s.calls) >= MaxCalls /\ Len(s.received) >= Prefetch IN
    /\ Unlocked
    /\ backlogDue
    /\ backlogDue' = FALSE
    /\ \/ /\ Len(calls) >= MaxCalls
          /\ UNCHANGED <<conn, newReceived, backlog, fetchWake>>
       \/ /\ Len(calls) < MaxCalls
          /\ \E s \in {Backlog([conn |-> conn, received |-> Reverse(newReceived) \o received,
                                calls |-> calls, batch |-> {}])} :
                /\ conn' = s.conn
                /\ received' = s.received
                /\ calls' = s.calls
                /\ suspended' = full(s)
                /\ asking' = s.batch
                /\ fetchWake' = (fetchWake \/ (s.batch = {} /\ ~suspended'))
          /\ newReceived' = <<>>
    /\ UNCHANGED <<chain, others, asked, normal, item, activeReqs, recent, sent, cuts, blamed>>

\* The rest of it: the peers whose lists are empty are asked, one after the other.
AskNextBatch(p) ==
    /\ p \in asking
    /\ asking' = asking \ {p}
    /\ conn' = FetchIds(conn, {p})
    /\ asked' = AskIds(conn, asked, {p})
    /\ fetchWake' = (fetchWake \/ asking' = {})
    /\ UNCHANGED <<chain, others, normal, item, activeReqs, newReceived, received, calls,
                   suspended, backlogDue, recent, sent, cuts, blamed>>

\* The chain's thread: application_impl::handle_block for the next block handed to it.
PushSyncBlock ==
    \E i \in DOMAIN calls :
        LET r == Push(calls[i].block) IN
        /\ calls[i].verdict = "pending"
        /\ \A j \in 1..(i - 1) : calls[j].verdict # "pending"
        /\ have' = r.have
        /\ head' = r.head
        /\ calls' = [calls EXCEPT ![i].verdict = r.verdict]
        /\ UNCHANGED <<others, conn, asked, normal, item, activeReqs, newReceived, received,
                       suspended, backlogDue, asking, recent, sent, fetchWake, cuts, blamed>>

\* send_sync_block_to_node_delegate after the chain has accepted the block.
SyncBlockAccepted ==
    LET b == Head(calls).block
        done == {p \in Active : b \in conn[p].processing}
        resync == {p \in Active : /\ conn[p].toGet = <<>> /\ conn[p].processing = {}
                                  /\ ~conn[p].theyNeed /\ ~conn[p].need}
        finished == {p \in done : /\ conn[p].toGet = <<>> /\ conn[p].unfetched = 0
                                  /\ conn[p].processing = {b}}
        cs == Restart([p \in Peers |->
                  IF p \in done
                  THEN [conn[p] EXCEPT !.processing = @ \ {b}, !.last = b]
                  ELSE conn[p]], resync)
    IN
    /\ Unlocked
    /\ calls # <<>> /\ Head(calls).verdict = "accepted"
    /\ calls' = Tail(calls)
    /\ recent' = recent \cup {b}
    /\ conn' = FetchIds(cs, finished \cup resync)
    /\ asked' = AskIds(cs, asked, finished \cup resync)
    /\ backlogDue' = TRUE
    /\ UNCHANGED <<chain, others, normal, item, activeReqs, newReceived, received, suspended,
                   asking, sent, fetchWake, cuts, blamed>>

\* mutant: the peers that are waiting for the block are disconnected as well
RejectedBlamesAll ==
    LET S == Active IN
    /\ calls # <<>> /\ Head(calls).verdict \in {"invalid", "unlinkable"}
    /\ calls' = Tail(calls)
    /\ blamed' = blamed \cup S
    /\ Closed(conn, S)
    /\ backlogDue' = TRUE
    /\ UNCHANGED <<chain, peerHead, newReceived, received, suspended, asking, recent, sent, cuts>>
\* The same when the chain has refused it: whoever offered the block is disconnected.
SyncBlockRejected ==
    LET S == {p \in Active : Head(calls).block \in conn[p].processing} IN
    /\ calls # <<>> /\ Head(calls).verdict \in {"invalid", "unlinkable"}
    /\ calls' = Tail(calls)
    /\ blamed' = blamed \cup S
    /\ Closed(conn, S)
    /\ backlogDue' = TRUE
    /\ UNCHANGED <<chain, peerHead, newReceived, received, suspended, asking, recent, sent, cuts>>

-----------------------------------------------------------------------------
(* Blocks announced by peers that consider us in sync *)

\* A peer's chain grows; on_item_ids_inventory_message if it tells us.
PeerGrows(p, b) ==
    LET told == conn[p].up /\ p \in announces /\ b \notin sent
        requested == \E q \in Active : b \in conn[q].norm
    IN
    /\ b \in Growth[p] /\ Num(b) > Num(peerHead[p])
    /\ told => Unlocked /\ item[p] = NoItem
    /\ peerHead' = [peerHead EXCEPT ![p] = b]
    /\ offered' = IF told THEN [offered EXCEPT ![p] = @ \cup {b}] ELSE offered
    /\ toFetch' = IF told /\ ~requested THEN toFetch \cup {b} ELSE toFetch
    /\ itemsWake' = (itemsWake \/ (told /\ ~requested))
    /\ UNCHANGED <<chain, conn, asked, wants, announces, item, activeReqs, queues, recent,
                   sent, fetchWake, cuts, blamed>>

\* fetch_items_loop: one item, or the end of an iteration.
FetchItem ==
    LET able == {pb \in Active \X toFetch : idle(conn[pb[1]]) /\ pb[2] \in offered[pb[1]]} IN
    /\ Unlocked
    /\ itemsWake
    /\ \/ \E pb \in able :
            /\ conn' = [conn EXCEPT ![pb[1]].norm = @ \cup {pb[2]}]
            /\ asked' = [asked EXCEPT ![pb[1]] =
                            Append(@, [kind |-> "item", blocks |-> <<pb[2]>>])]
            /\ toFetch' = toFetch \ {pb[2]}
            /\ UNCHANGED itemsWake
       \/ able = {} /\ itemsWake' = FALSE /\ UNCHANGED <<conn, asked, toFetch>>
    /\ UNCHANGED <<chain, others, offered, item, activeReqs, queues, recent, sent, fetchWake,
                   cuts, blamed>>

\* process_block_when_in_sync for a block requested by fetch_items_loop: the peer's next
\* messages wait until the chain has handled the block.
AnswerItem(p) ==
    LET b == Head(asked[p]).blocks[1] IN
    /\ Awaited(p, "item")
    /\ conn' = [conn EXCEPT ![p].norm = @ \ {b}]
    /\ asked' = Answered(p)
    /\ item' = [item EXCEPT ![p] =
                   [block |-> b, verdict |-> IF b \in recent THEN "accepted" ELSE "pending"]]
    /\ UNCHANGED <<chain, others, normal, activeReqs, queues, recent, sent, fetchWake, cuts,
                   blamed>>

\* The chain's thread: application_impl::handle_block for this block.
PushItem(p) ==
    LET r == Push(item[p].block) IN
    /\ item[p].verdict = "pending"
    /\ have' = r.have
    /\ head' = r.head
    /\ item' = [item EXCEPT ![p].verdict = r.verdict]
    /\ UNCHANGED <<others, conn, asked, normal, activeReqs, queues, recent, sent, fetchWake,
                   cuts, blamed>>

\* process_block_when_in_sync after the chain's answer.
ItemAccepted(p) ==
    LET b == item[p].block IN
    /\ Unlocked
    /\ item[p].verdict = "accepted"
    /\ item' = [item EXCEPT ![p] = NoItem]
    /\ conn' = [q \in Peers |-> IF conn[q].up /\ b \in offered[q]
                                THEN [conn[q] EXCEPT !.last = b] ELSE conn[q]]
    /\ recent' = recent \cup {b}
    /\ sent' = IF \E q \in Active : ~conn[q].theyNeed /\ b \notin offered[q]
               THEN sent \cup {b} ELSE sent
    /\ itemsWake' = (itemsWake \/ idle(conn[p]))
    /\ UNCHANGED <<chain, others, asked, offered, toFetch, activeReqs, queues, fetchWake, cuts,
                   blamed>>

ItemUnlinkable(p) ==
    LET cs == Restart(conn, {p}) IN
    /\ item[p].verdict = "unlinkable"
    /\ item' = [item EXCEPT ![p] = NoItem]
    /\ conn' = FetchIds(cs, {p})
    /\ asked' = AskIds(cs, asked, {p})
    /\ UNCHANGED <<chain, others, normal, activeReqs, queues, recent, sent, fetchWake, cuts,
                   blamed>>

ItemInvalid(p) ==
    LET b == item[p].block
        S == {p} \cup {q \in Active : conn[q].toGet # <<>> /\ Head(conn[q].toGet) = b}
    IN
    /\ item[p].verdict = "invalid"
    /\ blamed' = blamed \cup S
    /\ Closed(conn, S)
    /\ UNCHANGED <<chain, peerHead, queues, recent, sent, cuts>>

-----------------------------------------------------------------------------
(* Peers that synchronize with us *)

\* on_fetch_blockchain_item_ids_message.
PeerAsks(p) ==
    /\ conn[p].up /\ p \in wants /\ item[p] = NoItem
    /\ \E syn \in {SynopsisOf(Path[peerHead[p]], 0)} :
         \E reply \in {get_block_ids(Path[head], syn)} :
         LET inSync == NothingNew(reply, syn)
             S == IF ~conn[p].need /\ syn # <<>> /\ peerHead[p] \notin have THEN {p} ELSE {}
             cs == Restart([conn EXCEPT ![p].theyNeed = ~inSync], S)
         IN
         /\ conn' = FetchIds(cs, S)
         /\ asked' = AskIds(cs, asked, S)
         /\ wants' = IF inSync THEN wants \ {p} ELSE wants
    /\ UNCHANGED <<chain, peerHead, announces, normal, item, activeReqs, queues, recent, sent,
                   fetchWake, cuts, blamed>>

\* The peer has fetched our chain, and adopts it if it is longer than its own.
PeerFetches(p) ==
    /\ conn[p].up /\ p \in wants /\ conn[p].theyNeed
    /\ Num(head) > Num(peerHead[p])
    /\ peerHead' = [peerHead EXCEPT ![p] = head]
    /\ UNCHANGED <<chain, conn, asked, wants, announces, normal, item, activeReqs, queues,
                   recent, sent, fetchWake, cuts, blamed>>

-----------------------------------------------------------------------------
Init ==
    /\ have = ToSet(Path[Start])
    /\ head = Start
    /\ peerHead = PeerStart
    /\ conn = [p \in Peers |-> Down]
    /\ asked = [p \in Peers |-> <<>>]
    /\ wants = {} /\ announces = {}
    /\ offered = [p \in Peers |-> {}] /\ toFetch = {} /\ itemsWake = FALSE
    /\ activeReqs = {}
    /\ newReceived = <<>> /\ received = <<>> /\ calls = <<>>
    /\ recent = {Start} \ {Root}          \* sync_from
    /\ sent = {}
    /\ suspended = FALSE /\ fetchWake = FALSE /\ backlogDue = FALSE /\ asking = {}
    /\ item = [p \in Peers |-> NoItem]
    /\ cuts = 0
    /\ blamed = {}

\* A peer's next answer, and what follows from an announced block that it has sent.
Answers(p) == AnswerIds(p) \/ AnswerSyncBlock(p) \/ AnswerItem(p)
ItemHandled(p) == ItemAccepted(p) \/ ItemUnlinkable(p) \/ ItemInvalid(p)

PeerNext(p) ==
    \/ Connect(p) \/ ConnectionLost(p) \/ KillStalled(p)
    \/ Answers(p) \/ AskNextBatch(p) \/ PushItem(p) \/ ItemHandled(p)
    \/ \E b \in Growth[p] : PeerGrows(p, b)
    \/ PeerAsks(p) \/ PeerFetches(p)

Next ==
    \/ \E p \in Peers : PeerNext(p)
    \/ FetchSyncItems \/ ProcessBacklog \/ PushSyncBlock
    \/ SyncBlockAccepted \/ SyncBlockRejected \/ FetchItem

\* The node's own tasks run; peers that are not silent answer; a request that is not
\* answered ends the connection; a lost connection is made again; stalls are noticed.
Fairness ==
    /\ WF_vars(FetchSyncItems) /\ WF_vars(ProcessBacklog) /\ WF_vars(PushSyncBlock)
    /\ WF_vars(SyncBlockAccepted) /\ WF_vars(SyncBlockRejected) /\ WF_vars(FetchItem)
    /\ \A p \in Peers :
          /\ WF_vars(AskNextBatch(p)) /\ WF_vars(PushItem(p)) /\ WF_vars(ItemHandled(p))
          /\ WF_vars(Connect(p)) /\ WF_vars(KillStalled(p))
    /\ \A p \in Peers \ Silent :
          WF_vars(Answers(p)) /\ WF_vars(PeerAsks(p)) /\ WF_vars(PeerFetches(p))
    /\ \A p \in Silent : WF_vars(ConnectionLost(p))

Spec == Init /\ [][Next]_vars
FairSpec == Spec /\ Fairness

-----------------------------------------------------------------------------
(* Properties *)

TypeOK ==
    /\ have \subseteq Blocks /\ head \in Blocks \cup {Root}
    /\ peerHead \in [Peers -> Blocks \cup {Root}]
    /\ \A p \in Peers :
          /\ DOMAIN conn[p] = DOMAIN Down
          /\ conn[p].toGet \in Seq(Blocks)
          /\ conn[p].processing \cup conn[p].items \cup conn[p].norm \subseteq Blocks
          /\ conn[p].last \in Blocks \cup {NoBlock}
          /\ offered[p] \subseteq Blocks
    /\ wants \cup announces \cup blamed \subseteq Peers
    /\ activeReqs \cup recent \cup sent \cup toFetch \subseteq Blocks
    /\ cuts \in 0..MaxCuts

\* A block is being requested from exactly one peer as long as it is marked as requested
\* (_active_sync_requests, sync_items_requested_from_peer): otherwise it would never be
\* requested again, or be fetched twice.
RequestsTracked ==
    /\ activeReqs = UNION {conn[p].items : p \in Peers}
    /\ \A p, q \in Peers : p # q => conn[p].items \cap conn[q].items = {}

\* A block that the network hands to the chain always builds on a block that has been
\* handed to it before, unless the chain has refused one below it
\* (process_backlog_of_sync_blocks).
InOrder ==
    \A i \in DOMAIN calls :
        \/ Parent(calls[i].block) \in
              {Root} \cup have \cup {calls[j].block : j \in 1..(i - 1)}
        \/ \E x \in Invalid : Contains(Front(Path[calls[i].block]), x)

\* A peer that only tells us about its own valid chain is never disconnected for a fault
\* (on_blockchain_item_ids_inventory_message, send_sync_block_to_node_delegate).
HonestNeverCut ==
    \A p \in blamed : \E b \in {PeerStart[p]} \cup Growth[p] :
        \E i \in 1..Num(b) : Path[b][i] \in Invalid

\* "assert(_delegate->has_item(item_hashes_received.front()))": a list that replaces the
\* one we were fetching starts with a block that we have.
\* It does not hold: see "Other disagreements" in the README.
ReplacedFromKnown ==
    \A p \in Active :
        ( /\ Awaited(p, "ids") /\ conn[p].ids # NotAsked
          /\ Legit(IdsReply(p), conn[p].ids.synopsis) /\ ~UpToDate(conn[p], IdsReply(p))
          /\ IdsReply(p).ids # <<>> /\ conn[p].toGet # <<>>
          /\ ~Contains(conn[p].toGet, IdsReply(p).ids[1]) )
        => IdsReply(p).ids[1] \in have

\* "assert(synopsis.back() == original_ids_of_items_to_get.back())".
SynopsisEndsWithLast ==
    \A p \in Active :
        conn[p].toGet # <<>> =>
            Last(create_blockchain_synopsis_for_peer(conn[p])) = Last(conn[p].toGet)

\* "This is a state we should never get into in the first place": we need blocks from a
\* peer, have no list of them and are not waiting for one.
\* It does not hold: see "Other disagreements" in the README.
NeverStalled == \A p \in Peers : ~Stalled(conn[p])

\* Synchronization with a peer ends or the peer is given up: "if we do [stall], we should
\* disconnect the peer to re-establish the connection" (kill_inactive_conns_loop).
\* It does not hold: see "Other disagreements" in the README.
StallEnds == \A p \in Peers \ Silent :
                (conn[p].up /\ conn[p].need) ~> ~(conn[p].up /\ conn[p].need)

\* Our chain is as long as the valid chain of every peer that answers.
CaughtUp ==
    \A p \in Peers \ Silent :
        (\A i \in 1..Num(peerHead[p]) : Path[peerHead[p]][i] \notin Invalid)
        => Num(head) >= Num(peerHead[p])

\* Received blocks are left behind ("Other disagreements" in the README): one of them is
\* the next on a peer's list, so it is not requested again, and nothing is under way that
\* starts process_backlog_of_sync_blocks and takes it.
LeftBehind ==
    /\ ~backlogDue /\ Unlocked /\ calls = <<>>
    /\ \E p \in Active : conn[p].toGet # <<>>
                        /\ Head(conn[p].toGet) \in ToSet(received) \cup ToSet(newReceived)

\* Our chain becomes, and stays, that long, whatever the other peers do, unless received
\* blocks are left behind.
CatchesUp == <>[](CaughtUp \/ LeftBehind)

\* Requests are accounted for, blocks come in order, honest peers stay connected.
SyncSound == RequestsTracked /\ InOrder /\ SynopsisEndsWithLast /\ HonestNeverCut
=============================================================================
