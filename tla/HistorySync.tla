---------------------------- MODULE HistorySync ----------------------------
(***************************************************************************)
(* The macro sync of a history node (consensus/src/sync/history).  Every   *)
(* peer is asked for the ids of the election blocks, or the checkpoint,    *)
(* after our macro chain.  The ids are clustered: peers that name the same *)
(* ids share a SyncCluster.  One cluster at a time is active; it downloads *)
(* the batch sets of its epochs and their history in chunks, and queues a  *)
(* job for each complete one, which pushes it to the chain.  When a        *)
(* cluster is done its peers are asked again, until they know nothing new. *)
(*                                                                         *)
(* Macro blocks are named by position: B to an epoch, so position m is an  *)
(* election block iff m % B = 0.  A block is <<m, c>>, where c is 0 on the *)
(* finalized chain and 1 on the chain a faulty peer makes up.  Micro       *)
(* blocks are left out: a macro block is at most the head iff it is at     *)
(* most the macro head.  What SyncQueue yields, and when it gives up, is   *)
(* taken from module SyncQueue: answers in the order of the ids, an error  *)
(* once no peer could serve one.                                           *)
(***************************************************************************)
EXTENDS Integers, Sequences, FiniteSets, SequencesExt

CONSTANTS Peers,
          B,                      \* batches (macro blocks) per epoch
          CHUNK_SIZE,             \* history items per chunk
          MAX_REQUEST_EPOCHS, MAX_CLUSTERS, MAX_QUEUED_JOBS,
          NUM_PENDING_BATCH_SETS,
          Configurations          \* the networks a run starts from

VARIABLES config,   \* the network of this run
          conn,     \* peers connected to us
          height,   \* macro blocks each peer has
          events,   \* network events not yet polled
          budget,   \* joins, faults, live pushes and new blocks left
          head,     \* our macro head
          micro,    \* our chain goes on with micro blocks
          futures,  \* epoch_ids_stream
          sync,     \* the remaining fields of HistoryMacroSync
          emitted,  \* what became of each peer: the MacroSyncReturn
          badpush   \* a verified batch set could not be pushed

vars == <<config, conn, height, events, budget, head, micro, futures, sync, emitted,
          badpush>>

-----------------------------------------------------------------------------
(* Macro blocks *)

IsElection(m) == m % B = 0
Epoch(m) == (m + B - 1) \div B
ElectionHead(m) == m - (m % B)
Block(p, m) == <<m, IF m < config.fork[p] THEN 0 ELSE 1>>
OnChain(p, b) == b[1] <= height[p] /\ Block(p, b[1]) = b

\* History items of the epoch of m up to m, which is what its history root
\* commits to.
Size(m) == IF m = 0 THEN 0 ELSE config.sizes[m]
Floor(n) == (n \div CHUNK_SIZE) * CHUNK_SIZE
Least(a, b) == IF a < b THEN a ELSE b

-----------------------------------------------------------------------------
(* Clusters *)

SyncCluster(id, ids, first_epoch, first_block, peers) ==
    [id |-> id, ids |-> ids, first_epoch |-> first_epoch,
     first_block |-> first_block, peers |-> peers,
     queue |-> ids, inflight |-> 0, yielded |-> 0,   \* batch_set_queue
     pred |-> 0,                                     \* its verify_state
     pending |-> <<>>, finished |-> 0]

for_epoch(id, ids, first_epoch, peers) ==
    SyncCluster(id, ids, first_epoch, first_epoch * B, peers)

for_checkpoint(id, cp, epoch, peers) ==
    SyncCluster(id, <<cp>>, epoch, cp[1], peers)

\* Ids come from a global counter.  Only that ids in use differ, and which
\* cluster was the very first, can be told apart.
FreshId(s, more) ==
    LET used == {c.id : c \in Range(s.epoch \o s.checkpoint \o s.active \o more)}
                  \cup {j.cluster.id : j \in {k \in Range(s.jobs) : k.type = "finish"}}
    IN  IF ~s.made /\ more = <<>> THEN 0
        ELSE CHOOSE n \in 1..(Cardinality(used) + 1) :
                 n \notin used /\ \A k \in 1..(n - 1) : k \in used

\* Requests that are under way are not called back when ids are cut off.
truncate_ids(c, at) ==
    LET asked == c.yielded + c.inflight
        keep  == c.inflight + (IF at > asked THEN at - asked ELSE 0)
    IN  SubSeq(c.queue, 1, Least(keep, Len(c.queue)))

Truncated(c, at) ==
    [c EXCEPT !.ids = SubSeq(c.ids, 1, at), !.queue = truncate_ids(c, at)]

SplitOff_same_epoch(c, at, id) ==
    for_epoch(id, SubSeq(c.ids, at + 1, Len(c.ids)), c.first_epoch, c.peers)

SplitOff(c, at, id) ==
    for_epoch(id, SubSeq(c.ids, at + 1, Len(c.ids)), c.first_epoch + at, c.peers)

remove_front(c, n, id) == SplitOff(c, Least(n, Len(c.ids)), id)

\* compare: TRUE when c comes strictly before d.
Before(c, d, epoch) ==
    LET from(x) == IF x.first_epoch > epoch THEN x.first_epoch ELSE epoch
        rest(x) == LET gone == IF epoch > x.first_epoch THEN epoch - x.first_epoch ELSE 0
                   IN  IF Len(x.ids) > gone THEN Len(x.ids) - gone ELSE 0
        key(x)  == <<from(x), -x.first_block, -Cardinality(x.peers), -rest(x)>>
                       \o FlattenSeq(x.ids)
        k == key(c)
        l == key(d)
        differ == {i \in 1..Least(Len(k), Len(l)) : k[i] # l[i]}
    IN  IF differ = {} THEN Len(k) < Len(l)
        ELSE LET i == CHOOSE i \in differ : \A j \in differ : i <= j IN k[i] < l[i]

Clusters(s) ==
    s.epoch \o s.checkpoint \o s.active
        \o LET done == SelectSeq(s.jobs, LAMBDA j : j.type = "finish")
           IN  [i \in DOMAIN done |-> done[i].cluster]

-----------------------------------------------------------------------------
(* Adding and removing peers *)

Future(p, n) ==
    [peer |-> p, n |-> n, phase |-> "new", macro |-> 0, first_epoch |-> 0,
     found |-> FALSE, ids |-> <<>>, checkpoint |-> <<>>]

\* A peer that is tracked is not asked.  n tells apart the requests of
\* different connections.
Requested(ps, s, fs) ==
    fs \cup {Future(p, budget.joins) : p \in {q \in ps : q \notin DOMAIN s.peers}}

\* remove_peer, and the entry of the peer.
Forgotten(s, p) ==
    LET out(cs) == [i \in DOMAIN cs |-> [cs[i] EXCEPT !.peers = @ \ {p}]]
    IN  [s EXCEPT !.epoch = out(@), !.checkpoint = out(@), !.active = out(@),
                  !.jobs = [i \in DOMAIN @ |->
                               IF @[i].type = "finish"
                               THEN [@[i] EXCEPT !.cluster.peers = @ \ {p}] ELSE @[i]],
                  !.peers = [q \in DOMAIN @ \ {p} |-> @[q]]]

Join(p) ==
    /\ p \notin conn /\ budget.joins > 0
    /\ conn' = conn \cup {p}
    /\ events' = Append(events, <<"joined", p>>)
    /\ budget' = [budget EXCEPT !.joins = @ - 1]
    /\ UNCHANGED <<config, height, head, micro, futures, sync, emitted, badpush>>

Leave(p) ==
    /\ p \in conn /\ budget.faults > 0
    /\ conn' = conn \ {p}
    /\ events' = Append(events, <<"left", p>>)
    /\ budget' = [budget EXCEPT !.faults = @ - 1]
    /\ UNCHANGED <<config, height, head, micro, futures, sync, emitted, badpush>>

PollNetworkEvents ==
    /\ events # <<>>
    /\ events' = Tail(events)
    /\ LET p == Head(events)[2] IN
       IF Head(events)[1] = "left"
       THEN /\ sync' = Forgotten(sync, p)
            /\ emitted' = [emitted EXCEPT ![p] = "none"]
            /\ UNCHANGED futures
       ELSE /\ IF p \in config.services
               THEN futures' = Requested({p}, sync, futures) /\ UNCHANGED emitted
               ELSE emitted' = [emitted EXCEPT ![p] = "incompatible"] /\ UNCHANGED futures
            /\ UNCHANGED sync
    /\ UNCHANGED <<config, conn, height, budget, head, micro, badpush>>

\* From time to time the syncer hands back the peers that were behind
\* (check_outdated_peers, add_peer).
AddPeers ==
    LET ps == {p \in Peers : emitted[p] = "outdated"} IN
    /\ ps # {}
    /\ emitted' = [p \in Peers |-> IF p \in ps THEN "none" ELSE emitted[p]]
    /\ futures' = Requested(ps, sync, futures)
    /\ UNCHANGED <<config, conn, height, events, budget, head, micro, sync, badpush>>

-----------------------------------------------------------------------------
(* request_epoch_ids *)

\* The locators are read when the future is first polled.
SendRequest(f) ==
    /\ f.phase = "new" /\ Len(sync.epoch) < MAX_CLUSTERS
    /\ futures' = (futures \ {f}) \cup
           {[f EXCEPT !.phase = "sent", !.macro = head,
                      !.first_epoch = (ElectionHead(head) \div B) + 1]}
    /\ UNCHANGED <<config, conn, height, events, budget, head, micro, sync, emitted, badpush>>

\* RequestMacroChain at the peer: from the first locator on its chain, the
\* election blocks that follow, and its checkpoint if that is all it has.
\* The requester drops the checkpoint if there are election blocks.
EpochIds(f) ==
    LET p     == f.peer
        elec  == (f.first_epoch - 1) * B
        start == IF OnChain(p, <<f.macro, 0>>) THEN f.macro ELSE elec
        all   == (height[p] \div B) - (start \div B)
        n     == Least(all, MAX_REQUEST_EPOCHS)
        ids   == [i \in 1..n |-> Block(p, ((start \div B) + i) * B)]
        cp    == /\ ~IsElection(height[p]) /\ height[p] # start
                 /\ n = 0
    IN  IF ~OnChain(p, <<start, 0>>) THEN [f EXCEPT !.phase = "done"]
        ELSE [f EXCEPT !.phase = "done", !.found = TRUE, !.ids = ids,
                       !.checkpoint = IF cp THEN <<Block(p, height[p])>> ELSE <<>>]

Answer(f) ==
    /\ f.phase = "sent" /\ f.peer \in conn
    /\ futures' = (futures \ {f}) \cup {EpochIds(f)}
    /\ UNCHANGED <<config, conn, height, events, budget, head, micro, sync, emitted, badpush>>

\* The request fails: a peer still there is disconnected.
RequestFails(f) ==
    /\ f.phase = "sent"
    /\ f.peer \in conn => budget.faults > 0
    /\ futures' = futures \ {f}
    /\ IF f.peer \in conn
       THEN /\ conn' = conn \ {f.peer}
            /\ events' = Append(events, <<"left", f.peer>>)
            /\ budget' = [budget EXCEPT !.faults = @ - 1]
       ELSE UNCHANGED <<conn, events, budget>>
    /\ UNCHANGED <<config, height, head, micro, sync, emitted, badpush>>

-----------------------------------------------------------------------------
(* cluster_epoch_ids *)

\* Cutting off what we have.  "behind" when nothing can be learnt.
OwnCut(f) ==
    LET ours == ElectionHead(head) \div B
        last == f.first_epoch + Len(f.ids) - 1
        cp   == SelectSeq(f.checkpoint, LAMBDA b : b[1] > head)
        at   == ours - f.first_epoch + 1
    IN  IF f.ids = <<>> \/ f.first_epoch > ours
        THEN [ids |-> f.ids, first |-> f.first_epoch, cp |-> cp, behind |-> FALSE]
        ELSE [ids |-> SubSeq(f.ids, at + 1, Len(f.ids)), first |-> ours + 1, cp |-> cp,
              behind |-> IF last < ours \/ (last = ours /\ f.checkpoint = <<>>) THEN TRUE
                         ELSE f.ids[at] # <<ours * B, 0>>]

\* Ids found among the queued jobs, in order: how many, the cluster of the
\* last one, and its place in the queue.
Queued(ids, jobs) ==
    LET step(acc, i) ==
            LET j == jobs[i] IN
            IF acc.n < Len(ids) /\ j.type = "push" /\ j.block = ids[acc.n + 1]
            THEN [n |-> acc.n + 1, cid |-> j.cid, at |-> i] ELSE acc
    IN  FoldLeft(step, [n |-> 0, cid |-> 0, at |-> 0], [i \in DOMAIN jobs |-> i])

\* One cluster against the ids from acc.at on: how many of them match.
MatchUntil(c, ids, from, epoch) ==
    LET off == epoch - c.first_epoch
        len == Least(Len(c.ids) - off, Len(ids) - from)
        bad == {i \in 0..(len - 1) : c.ids[off + i + 1] # ids[from + i + 1]}
    IN  IF bad = {} THEN len ELSE CHOOSE i \in bad : \A j \in bad : i <= j

\* The peer joins every cluster its ids run through; a cluster that goes
\* on differently is split.
Overlap(s, p, ids, first) ==
    LET step(acc, c) ==
          LET epoch   == first + acc.at
              meets   == /\ c.first_epoch <= epoch
                         /\ c.first_epoch + Len(c.ids) > epoch
              matched == IF meets THEN MatchUntil(c, ids, acc.at, epoch) ELSE 0
              at      == (epoch - c.first_epoch) + matched
              split   == matched > 0 /\ at < Len(c.ids)
          IN  IF acc.at >= Len(ids) \/ matched = 0
              THEN [acc EXCEPT !.cs = Append(@, c)]
              ELSE IF split /\ c.finished > at      \* processed past that point
              THEN [acc EXCEPT !.cs = Append(@, c), !.at = @ + matched]
              ELSE LET d == IF split THEN Truncated(c, at) ELSE c IN
                   [cs  |-> Append(acc.cs, [d EXCEPT !.peers = @ \cup {p}]),
                    new |-> acc.new \o (IF split
                                        THEN <<SplitOff(c, at, FreshId(s, acc.new))>>
                                        ELSE <<>>),
                    at  |-> acc.at + matched,
                    n   |-> acc.n + (IF p \in c.peers THEN 0 ELSE 1)]
    IN  FoldLeft(step, [cs |-> <<>>, new |-> <<>>, at |-> 0, n |-> 0], s.epoch \o s.active)

\* The checkpoint joins the cluster with the same checkpoint.
SameCheckpoint(s, cp, epoch) ==
    LET all == s.checkpoint \o s.active
        hit == {i \in DOMAIN all : all[i].first_epoch = epoch /\ all[i].ids = <<cp>>}
    IN  IF hit = {} THEN 0 ELSE CHOOSE i \in hit : \A j \in hit : i <= j

WithCheckpoint(s, p, cp, epoch, new) ==
    LET i == SameCheckpoint(s, cp, epoch)
        j == i - Len(s.checkpoint)
        fresh == for_checkpoint(FreshId(s, new), cp, epoch, {p})
    IN  IF i = 0 THEN [s |-> [s EXCEPT !.checkpoint = Append(@, fresh)], n |-> 1]
        ELSE IF j <= 0
        THEN [s |-> [s EXCEPT !.checkpoint[i].peers = @ \cup {p}],
              n |-> IF p \in s.checkpoint[i].peers THEN 0 ELSE 1]
        ELSE [s |-> [s EXCEPT !.active[j].peers = @ \cup {p}],
              n |-> IF p \in s.active[j].peers THEN 0 ELSE 1]

\* Every peer of a new cluster is in one cluster more.
Counted(peers, new, p) ==
    [q \in DOMAIN peers |->
        peers[q] + Cardinality({i \in DOMAIN new : q \in new[i].peers})]

Clustered(s, p, ids, first, cp) ==
    LET o    == Overlap(s, p, ids, first)
        new  == o.new \o
                (IF o.at < Len(ids)
                 THEN <<for_epoch(FreshId(s, o.new), SubSeq(ids, o.at + 1, Len(ids)),
                                  first + o.at, {p})>>
                 ELSE <<>>)
        k    == Len(s.epoch)
        t    == [s EXCEPT !.epoch = SubSeq(o.cs, 1, k),
                          !.active = SubSeq(o.cs, k + 1, Len(o.cs))]
        u    == IF cp = <<>> THEN [s |-> t, n |-> 0]
                ELSE WithCheckpoint(t, p, cp[1], first + Len(ids), new)
        mine == [q \in DOMAIN s.peers \cup {p} |->
                    IF q = p THEN o.n + u.n ELSE s.peers[q]]
    IN  [u.s EXCEPT !.peers = Counted(mine, new, p), !.epoch = @ \o new, !.made = TRUE,
                    !.panicked = @ \/ \E c \in Range(new) : ~(c.peers \subseteq DOMAIN mine)]

\* The whole function: the new state, and whether the peer is given back.
cluster_epoch_ids(s, f) ==
    LET own  == OwnCut(f)
        all  == own.ids \o own.cp
        q    == Queued(all, s.jobs)
        fin  == {i \in DOMAIN s.jobs : /\ i > q.at /\ s.jobs[i].type = "finish"
                                       /\ s.jobs[i].cluster.id = q.cid}
        done == CHOOSE i \in fin : \A j \in fin : i <= j
        joined == [s EXCEPT !.jobs[done].cluster.peers = @ \cup {f.peer},
                            !.peers = (f.peer :> 1) @@ @,
                            !.panicked = @ \/ f.peer \in s.jobs[done].cluster.peers]
        n    == Least(q.n, Len(own.ids))
    IN  IF f.peer \in DOMAIN s.peers THEN [s |-> s, back |-> FALSE]
        ELSE IF own.behind THEN [s |-> s, back |-> TRUE]
        ELSE IF q.n = Len(all)
        THEN IF fin = {} THEN [s |-> s, back |-> TRUE] ELSE [s |-> joined, back |-> FALSE]
        ELSE [s |-> Clustered(s, f.peer, SubSeq(own.ids, n + 1, Len(own.ids)),
                              own.first + n, own.cp),
              back |-> FALSE]

\* poll_epoch_ids: one answer.
PollEpochIds(f) ==
    /\ f.phase = "done" /\ Len(sync.epoch) < MAX_CLUSTERS
    /\ futures' = futures \ {f}
    /\ IF f.peer \notin conn THEN UNCHANGED <<sync, emitted>>
       ELSE IF ~f.found
       THEN emitted' = [emitted EXCEPT ![f.peer] = "outdated"] /\ UNCHANGED sync
       ELSE IF f.ids = <<>> /\ f.checkpoint = <<>>
       THEN emitted' = [emitted EXCEPT ![f.peer] = "good"] /\ UNCHANGED sync
       ELSE \E r \in {cluster_epoch_ids(sync, f)} :
                /\ sync' = r.s
                /\ emitted' = IF r.back THEN [emitted EXCEPT ![f.peer] = "outdated"]
                              ELSE emitted
    /\ UNCHANGED <<config, conn, height, events, budget, head, micro, badpush>>

-----------------------------------------------------------------------------
(* Downloading: SyncCluster::poll_next and poll_cluster *)

\* What is already in our history of the epoch of m.
num_known_txs(m) ==
    IF /\ Epoch(m) = Epoch(head) + (IF micro /\ IsElection(head) THEN 1 ELSE 0)
       /\ ~IsElection(head)
    THEN Size(head) ELSE 0

\* The batch sets to download for an epoch that arrived: a batch set is
\* skipped if its history is known; the first chunk to ask for may overlap
\* with what is known.
BatchSetsToGet(ms, known) ==
    LET step(acc, m) ==
            LET offset == Floor(acc.seen)
                start  == IF known > offset THEN Floor(known) ELSE offset
            IN  IF Size(m) > 0 /\ known >= Size(m) THEN [acc EXCEPT !.seen = Size(m)]
                ELSE [seen |-> Size(m),
                      sets |-> Append(acc.sets, [m |-> m, start |-> start, upto |-> start])]
    IN  FoldLeft(step, [seen |-> 0, sets |-> <<>>], ms).sets

\* The batch sets a peer names for block m: the macro blocks of the epoch it
\* got by history sync, and m (get_epoch_chunks, RequestBatchSet).
BatchSets(p, m) ==
    SetToSortSeq({k \in config.kept[p] : Epoch(k) = Epoch(m) /\ k < m} \cup {m}, <)

\* verify_batch_set_info, for the blocks of the finalized chain.
Verifies(c, b) ==
    b[2] = 0 /\ IsElection(c.pred) /\ Epoch(b[1]) = (c.pred \div B) + 1

Serving(c, b) == {p \in c.peers \cap conn : OnChain(p, b)}

Complete(x) == x.upto = Size(x.m)

\* pop_complete_epoch: at most one, the first.
Emit(s) ==
    LET c == s.active[1] IN
    IF c.pending # <<>> /\ Complete(c.pending[1])
    THEN [s EXCEPT !.jobs = Append(@, [type |-> "push", cid |-> c.id,
                                       block |-> <<c.pending[1].m, 0>>,
                                       start |-> c.pending[1].start, result |-> "none"]),
                   !.active[1].pending = Tail(@), !.active[1].finished = @ + 1]
    ELSE s

EvictActive(s, result) ==
    [s EXCEPT !.jobs = Append(@, [type |-> "finish", cluster |-> s.active[1],
                                  result |-> result]),
              !.active = <<>>]

\* The cluster is polled until it has to wait: it asks for more ids, and it
\* ends when there is nothing left.
Polled(s) ==
    IF s.active = <<>> \/ Len(s.jobs) >= MAX_QUEUED_JOBS THEN s
    ELSE LET c == s.active[1] IN
         IF c.queue = <<>> /\ c.pending = <<>> THEN EvictActive(s, "NoMoreEpochs")
         ELSE IF Len(c.pending) < NUM_PENDING_BATCH_SETS
         THEN [s EXCEPT !.active[1].inflight = Least(Len(c.queue), NUM_PENDING_BATCH_SETS)]
         ELSE s

\* find_best_cluster
Best(cs) ==
    LET e == ElectionHead(head) \div B IN
    CHOOSE i \in DOMAIN cs :
        /\ \A j \in DOMAIN cs : ~Before(cs[j], cs[i], e)
        /\ \A j \in 1..(i - 1) : Before(cs[i], cs[j], e)

swap_remove_front(cs, i) == Tail([cs EXCEPT ![i] = cs[1]])

Started(s, c) ==
    LET e  == ElectionHead(head) \div B
        id == FreshId(s, <<>>)
        d  == IF c.first_epoch <= e THEN remove_front(c, e - c.first_epoch + 1, id) ELSE c
        old == d.ids # <<>> /\ d.first_block <= head
        x  == IF old THEN remove_front(d, 1, id) ELSE d
    IN  Polled([s EXCEPT !.active = <<[x EXCEPT !.pred = ElectionHead(head)]>>,
                         !.panicked = @ \/ (old /\ Len(d.ids) # 1)])

PopCluster ==
    /\ sync.active = <<>> /\ sync.jobs = <<>>
    /\ \/ /\ sync.epoch # <<>>
          /\ \E i \in {Best(sync.epoch)} :
                sync' = Started([sync EXCEPT !.epoch = swap_remove_front(@, i)], sync.epoch[i])
       \/ /\ sync.epoch = <<>> /\ sync.checkpoint # <<>>
          /\ \E i \in {Best(sync.checkpoint)} :
                sync' = Started([sync EXCEPT !.checkpoint = swap_remove_front(@, i)],
                                sync.checkpoint[i])
    /\ UNCHANGED <<config, conn, height, events, budget, head, micro, futures, emitted, badpush>>

Downloading == sync.active # <<>> /\ Len(sync.jobs) < MAX_QUEUED_JOBS

\* The cluster has to be polled because a job was taken from the queue.
PollCluster ==
    /\ Downloading /\ Polled(sync) # sync
    /\ sync' = Polled(sync)
    /\ UNCHANGED <<config, conn, height, events, budget, head, micro, futures, emitted, badpush>>

Asking(c) == c.inflight > 0 /\ Len(c.pending) < NUM_PENDING_BATCH_SETS

\* A batch set of the next id arrives: on_epoch_received.
BatchSetArrives(p) ==
    /\ Downloading /\ Asking(sync.active[1])
    /\ LET c    == sync.active[1]
           b    == c.queue[1]
           sets == BatchSetsToGet(BatchSets(p, b[1]), num_known_txs(b[1]))
           s    == [sync EXCEPT !.active[1].queue = Tail(@), !.active[1].inflight = @ - 1,
                                !.active[1].yielded = @ + 1, !.active[1].pred = b[1]]
       IN  /\ p \in Serving(c, b) /\ Verifies(c, b)
           /\ sync' = IF b[1] <= head THEN EvictActive(s, "Outdated")
                      ELSE Polled(Emit([s EXCEPT !.active[1].pending = @ \o sets,
                                                 !.panicked = @ \/ \E x \in Range(sets) :
                                                                     Size(x.m) < x.start]))
    /\ UNCHANGED <<config, conn, height, events, budget, head, micro, futures, emitted, badpush>>

\* The batch set whose next chunk is due.
Wanting(c) == {i \in DOMAIN c.pending : ~Complete(c.pending[i])
                                          /\ \A j \in 1..(i - 1) : Complete(c.pending[j])}

\* The next history chunk arrives: on_history_chunk_received.
ChunkArrives ==
    /\ Downloading
    /\ LET c == sync.active[1] IN
       \E i \in Wanting(c) :
          LET x == c.pending[i] IN
          /\ Serving(c, <<x.m, 0>>) # {}
          /\ sync' = Polled(Emit([sync EXCEPT !.active[1].pending[i].upto =
                                     Least(Floor(@) + CHUNK_SIZE, Size(x.m))]))
    /\ UNCHANGED <<config, conn, height, events, budget, head, micro, futures, emitted, badpush>>

\* A request that no peer could answer: the queue gives up on it.
DownloadFails ==
    /\ Downloading
    /\ LET c == sync.active[1]
           noset   == Asking(c) /\ (~Verifies(c, c.queue[1]) \/ Serving(c, c.queue[1]) = {})
           nochunk == \E i \in Wanting(c) : Serving(c, <<c.pending[i].m, 0>>) = {}
       IN  /\ Asking(c) \/ Wanting(c) # {}
           /\ \/ (noset \/ nochunk) /\ UNCHANGED budget
              \/ /\ ~(noset \/ nochunk) /\ budget.faults > 0
                 /\ budget' = [budget EXCEPT !.faults = @ - 1]
    /\ sync' = EvictActive(sync, "Error")
    /\ UNCHANGED <<config, conn, height, events, head, micro, futures, emitted, badpush>>

-----------------------------------------------------------------------------
(* poll_job_queue *)

\* push_history_sync of the first job, on a blocking thread.
RunPush ==
    /\ sync.jobs # <<>> /\ sync.jobs[1].type = "push" /\ sync.jobs[1].result = "none"
    /\ LET m     == sync.jobs[1].block[1]
           known == IF Epoch(m) = Epoch(head) /\ ~IsElection(head) THEN Size(head) ELSE 0
           next  == Epoch(m) = IF IsElection(head) THEN Epoch(head) + 1 ELSE Epoch(head)
           ok    == next /\ sync.jobs[1].start <= known
           result == IF m <= head THEN "Outdated"       \* known or ignored
                     ELSE IF ok THEN "EpochSuccessful" ELSE "Error"
       IN  /\ sync' = [sync EXCEPT !.jobs[1].result = result]
           /\ head' = IF m > head /\ ok THEN m ELSE head
           /\ micro' = IF m > head /\ ok THEN FALSE ELSE micro
           /\ badpush' = (badpush \/ result = "Error")
    /\ UNCHANGED <<config, conn, height, events, budget, futures, emitted>>


\* The peers that are in other clusters still, with what remains.
Unregistered(peers, c) ==
    [p \in {q \in DOMAIN peers : ~(q \in c.peers /\ peers[q] <= 1)} |->
        IF p \in c.peers THEN peers[p] - 1 ELSE peers[p]]

\* finish_cluster: peers that are in no other cluster are asked for more,
\* or given up if the cluster failed.
FinishCluster(s, c, result) ==
    LET left == Unregistered(s.peers, c)
        free == {p \in c.peers : p \notin DOMAIN left}
        t    == [s EXCEPT !.peers = left,
                          !.panicked = @ \/ ~(c.peers \subseteq DOMAIN s.peers)]
    IN  /\ sync' = t
        /\ futures' = IF result = "Error" THEN futures ELSE Requested(free, t, futures)
        /\ emitted' = [p \in Peers |-> IF result = "Error" /\ p \in free THEN "failed"
                                       ELSE emitted[p]]

\* evict_jobs_by_cluster: the first finish job, if only jobs of the cluster
\* precede it; and the jobs that stay.
CidOf(j) == IF j.type = "push" THEN j.cid ELSE j.cluster.id

Evicted(jobs, cid) ==
    LET ends == {i \in DOMAIN jobs : CidOf(jobs[i]) # cid \/ jobs[i].type = "finish"}
        i    == CHOOSE i \in ends : \A j \in ends : i <= j
    IN  IF ends = {} THEN [at |-> 0, jobs |-> <<>>]
        ELSE IF CidOf(jobs[i]) # cid THEN [at |-> 0, jobs |-> SubSeq(jobs, i, Len(jobs))]
        ELSE [at |-> i, jobs |-> SubSeq(jobs, i + 1, Len(jobs))]

PollJobQueue ==
    /\ sync.jobs # <<>>
    /\ LET j    == sync.jobs[1]
           rest == Tail(sync.jobs)
           s    == [sync EXCEPT !.jobs = rest]
           e    == Evicted(rest, j.cid)
       IN  IF j.type = "finish" THEN FinishCluster(s, j.cluster, j.result)
           ELSE /\ j.result # "none"
                /\ IF j.result = "EpochSuccessful"
                   THEN sync' = s /\ UNCHANGED <<futures, emitted>>
                   ELSE IF e.at > 0
                   THEN FinishCluster([s EXCEPT !.jobs = e.jobs], rest[e.at].cluster, j.result)
                   ELSE IF s.active # <<>> /\ s.active[1].id = j.cid
                   THEN FinishCluster([s EXCEPT !.jobs = e.jobs, !.active = <<>>],
                                      s.active[1], j.result)
                   ELSE sync' = [s EXCEPT !.panicked = TRUE] /\ UNCHANGED <<futures, emitted>>
    /\ UNCHANGED <<config, conn, height, events, budget, head, micro, badpush>>

-----------------------------------------------------------------------------
(* The rest of the world *)

\* Live sync pushes a block to our chain.
LivePush ==
    /\ budget.live > 0
    /\ budget' = [budget EXCEPT !.live = @ - 1]
    /\ \/ /\ \E p \in Peers : config.fork[p] > head + 1 /\ height[p] > head
          /\ head' = head + 1 /\ micro' = FALSE
       \/ ~micro /\ micro' = TRUE /\ UNCHANGED head
    /\ UNCHANGED <<config, conn, height, events, futures, sync, emitted, badpush>>

\* A peer adopts another macro block.
Grow(p) ==
    /\ height[p] < config.top /\ budget.grow > 0
    /\ height' = [height EXCEPT ![p] = @ + 1]
    /\ budget' = [budget EXCEPT !.grow = @ - 1]
    /\ UNCHANGED <<config, conn, events, head, micro, futures, sync, emitted, badpush>>

Init ==
    /\ config \in Configurations
    /\ conn = {} /\ height = config.height /\ events = <<>>
    /\ budget = config.budget /\ head = config.head /\ micro = FALSE
    /\ futures = {}
    /\ sync = [peers |-> <<>>, epoch |-> <<>>, checkpoint |-> <<>>, active |-> <<>>,
               jobs |-> <<>>, made |-> FALSE, panicked |-> FALSE]
    /\ emitted = [p \in Peers |-> "none"]
    /\ badpush = FALSE

HandleFuture(p) ==
    \E f \in futures :
        f.peer = p /\ (SendRequest(f) \/ Answer(f) \/ RequestFails(f) \/ PollEpochIds(f))

ClusterStep ==
    \/ PopCluster \/ PollCluster
    \/ \E p \in Peers : BatchSetArrives(p)
    \/ ChunkArrives \/ DownloadFails

JobStep == RunPush \/ PollJobQueue

Next ==
    \/ PollNetworkEvents \/ AddPeers \/ ClusterStep \/ JobStep \/ LivePush
    \/ \E p \in Peers : HandleFuture(p) \/ Join(p) \/ Leave(p) \/ Grow(p)

Spec == Init /\ [][Next]_vars

\* Where each of these has something to do.
FutureReady(p) ==
    \E f \in futures : f.peer = p /\ (f.phase = "sent" \/ Len(sync.epoch) < MAX_CLUSTERS)

ClusterReady ==
    IF sync.active = <<>> THEN sync.jobs = <<>> /\ sync.epoch \o sync.checkpoint # <<>>
    ELSE LET c == sync.active[1] IN
         Downloading /\ (Asking(c) \/ Wanting(c) # {} \/ Polled(sync) # sync)

\* What the task is woken for.
Sources == {"events", "cluster", "jobs", "outdated"} \cup Peers

Due(l) ==
    CASE l = "events" -> events # <<>>
      [] l = "cluster" -> ClusterReady
      [] l = "jobs" -> sync.jobs # <<>>
      [] l = "outdated" -> \E p \in Peers : emitted[p] = "outdated"
      [] l \in Peers -> FutureReady(l)

Handles(l) ==
    \/ l = "events" /\ PollNetworkEvents
    \/ l = "cluster" /\ ClusterStep
    \/ l = "jobs" /\ JobStep
    \/ l = "outdated" /\ AddPeers
    \/ l \in Peers /\ HandleFuture(l)

\* The task is polled whenever there is something to do, requests are
\* answered or time out, and the syncer's check interval goes on.  (Weak
\* fairness, written with the guards so that ENABLED is not evaluated.)
Fairness == \A l \in Sources : []<>(~Due(l)) \/ []<><<Handles(l)>>_vars

FairSpec == Spec /\ Fairness

-----------------------------------------------------------------------------
(* Properties *)

(* The fields of HistoryMacroSync have their types, and its queues are     *)
(* within their bounds.                                                    *)
TypeOK ==
    /\ config \in Configurations /\ conn \subseteq Peers
    /\ head \in Nat /\ micro \in BOOLEAN
    /\ DOMAIN sync.peers \subseteq Peers
    /\ Len(sync.active) <= 1 /\ Len(sync.jobs) <= MAX_QUEUED_JOBS
    /\ \A c \in Range(Clusters(sync)) :
          c.peers \subseteq Peers /\ Len(c.pending) <= NUM_PENDING_BATCH_SETS + B - 1

\* Neither an assertion nor an unwrap of cluster_epoch_ids, finish_cluster,
\* find_best_cluster or poll_job_queue fails, and no length is negative.
NoPanic == ~sync.panicked

\* peers holds exactly the peers of the clusters, with the number of clusters
\* each is in: the count that decides when a peer is asked again.
CountsAgree ==
    LET cs == Clusters(sync) IN
    \A p \in Peers :
        LET n == Cardinality({i \in DOMAIN cs : p \in cs[i].peers}) IN
        IF p \in DOMAIN sync.peers THEN sync.peers[p] = n ELSE n = 0

\* A peer of ours is being asked, is in some cluster, was given to the
\* syncer, or was given up with a failed cluster: none is forgotten.
NoPeerLost ==
    \A p \in conn :
        \/ \E i \in DOMAIN events : events[i][2] = p
        \/ \E f \in futures : f.peer = p
        \/ p \in DOMAIN sync.peers /\ sync.peers[p] > 0
        \/ emitted[p] # "none"

\* Splitting and shortening clusters keeps each id at its epoch: the i-th id
\* of an epoch cluster is an election block of epoch first_epoch + i - 1.
IdsStayAligned ==
    \A c \in Range(sync.epoch \o sync.active) : \A i \in DOMAIN c.ids :
        IsElection(c.first_block) => c.ids[i][1] = (c.first_epoch + i - 1) * B

\* A batch set that was downloaded and verified continues our chain when its
\* turn comes, whatever was pushed meanwhile: its history leaves no gap.
HistoryFits == ~badpush

CaughtUp ==
    \A p \in conn : /\ emitted[p] # "failed" /\ config.fork[p] > config.top
                    /\ p \in config.services /\ config.budget.grow = 0
                    => head >= height[p]

\* Once peers stop changing, we catch up with every peer we are connected to
\* that is on the finalized chain and was not given up.
SyncCompletes == <>[]CaughtUp

\* What finish_cluster says of its map: peers with no clusters are always
\* removed.  Not so in the code: a peer all of whose ids were passed over in
\* a cluster that was processed past them is entered with no cluster, and
\* stays in the map (but it was emitted or is asked again: NoPeerLost).
NoIdlePeers == \A p \in DOMAIN sync.peers : sync.peers[p] > 0

=============================================================================
