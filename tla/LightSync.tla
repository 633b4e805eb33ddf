------------------------------ MODULE LightSync ------------------------------
(* LightMacroSync: a light or full node asks each peer for its election and  *)
(* checkpoint blocks, fetches them in order through one queue, and a full    *)
(* node then downloads the history that its validity window needs.           *)
(*                                                                           *)
(* Blocks are counted in macro blocks from the genesis block, 0; every B-th  *)
(* is an election block.  All peers are on one chain and honest; they may be *)
(* behind, leave, or fail to answer.  A history item is its position in its  *)
(* epoch, and the items of a batch belong to its macro block.                *)
EXTENDS Integers, Sequences, FiniteSets, SequencesExt, TLC

CONSTANTS Peers,
          B,                  \* batches per epoch
          CHUNK_SIZE,
          WINDOW,             \* validity window, in batches
          THRESHOLD,          \* full_sync_threshold, in batches
          MAX_EPOCHS_STORED,
          None,
          Configurations

VARIABLES config,    \* the scenario
          connected, \* peers the network has
          closing,   \* peers that a spawned task is about to disconnect
          events,    \* network events not yet polled
          tip,       \* macro head of each peer
          chain,     \* our [head, slots, store]
          sync,      \* the fields of LightMacroSync
          out,       \* what each peer was last emitted as
          panicked,
          blamed,    \* peers disconnected as malicious
          dropped,   \* peers forgotten by a reset of the validity sync
          budget     \* joins, faults and new blocks left
vars == <<config, connected, closing, events, tip, chain, sync, out, panicked, blamed,
          dropped, budget>>

-----------------------------------------------------------------------------
(* Policy and the chain that all peers share. *)
IsElection(n) == n % B = 0
Election(n) == (n \div B) * B
Epoch(n) == (n + B - 1) \div B
ElectionBefore(n) == IF n = 0 THEN 0 ELSE ((n - 1) \div B) * B
ElectionAfter(n) == (n \div B + 1) * B
Top == Len(config.items)
Items(n) ==
    FoldLeft(LAMBDA sum, i : sum + config.items[i], 0,
             [i \in 1 .. n - ElectionBefore(n) |-> ElectionBefore(n) + i])
HistoryRoot(n) == [epoch |-> Epoch(n), items |-> [i \in 1 .. Items(n) |-> i]]

Full == config.kind = "full"
TreeRoot(c, e) == [epoch |-> e, items |-> c.store[e]]
can_enforce_validity_window(c) ==
    Full /\ c.head # 0 => TreeRoot(c, Epoch(c.head)) = HistoryRoot(c.head)

(* The last block with an item in our history store. *)
history_store_last(c) ==
    LET epochs == {e \in DOMAIN c.store : c.store[e] # <<>>}
        e == CHOOSE x \in epochs : \A y \in epochs : y <= x
        blocks == {n \in (e - 1) * B + 1 .. e * B :
                      n <= Top /\ Items(n) >= Len(c.store[e])}
    IN IF epochs = {} THEN -1
       ELSE IF blocks = {} THEN e * B ELSE CHOOSE n \in blocks : \A k \in blocks : n <= k

(* Blockchain::push_macro and LightBlockchain::push_macro: the block must    *)
(* follow our election block; the store keeps MAX_EPOCHS_STORED epochs.      *)
Fits(c, n) == n <= c.head \/ ElectionBefore(n) = Election(c.head)
push_macro(c, n) ==
    IF n <= c.head THEN c
    ELSE [head |-> n,
          slots |-> c.slots \/ IsElection(n),
          store |-> IF IsElection(n) /\ Epoch(n) > MAX_EPOCHS_STORED
                    THEN [c.store EXCEPT ![Epoch(n) - MAX_EPOCHS_STORED] = <<>>]
                    ELSE c.store]

-----------------------------------------------------------------------------
(* What a peer answers. *)
Request(c, p) == [peer |-> p, macro |-> c.head, election |-> Election(c.head)]
MacroChain(r) ==
    LET t == tip[r.peer]
        start == IF t >= r.macro THEN r.macro ELSE IF t >= r.election THEN r.election ELSE None
        epochs == SelectSeq([i \in 1 .. t |-> i], LAMBDA n : n > start /\ IsElection(n))
    IN IF start = None THEN [found |-> FALSE, ids |-> <<>>, checkpoint |-> None]
       ELSE [found |-> TRUE, ids |-> epochs,
             checkpoint |-> IF ~IsElection(t) /\ t # start THEN t ELSE None]

(* RequestHistoryChunk at a peer: the tree of the epoch asked for, cut to   *)
(* the length of the history at the verifier's block.                       *)
LengthAt(t, n) == IF t >= n THEN Items(n) ELSE IF Epoch(t) = Epoch(n) THEN Items(t) ELSE 0
TreeLength(t, e) == IF t <= (e - 1) * B THEN 0 ELSE Items(IF t < e * B THEN t ELSE e * B)
prove_chunk(t, r) ==
    LET leaves == LengthAt(t, r.block)
        from == IF r.index * CHUNK_SIZE < leaves THEN r.index * CHUNK_SIZE ELSE leaves
        len == IF leaves - from < CHUNK_SIZE THEN leaves - from ELSE CHUNK_SIZE
    IN IF len = 0 \/ leaves > TreeLength(t, r.epoch) THEN None
       ELSE [root |-> [epoch |-> r.epoch, items |-> [i \in 1 .. leaves |-> i]],
             from |-> from, history |-> [i \in 1 .. len |-> from + i]]

-----------------------------------------------------------------------------
(* Bookkeeping of LightMacroSync. *)
request_epoch_ids_from(s, c, p) == [s EXCEPT !.ids = Append(@, Request(c, p))]

Enqueued(s, blocks) ==
    LET new == SelectSeq(blocks, LAMBDA n : n \notin s.in_flight)
    IN [s EXCEPT !.queue = @ \o new, !.in_flight = @ \cup ToSet(new)]

Seeded(c) == config.checkpoint # None => c.head >= config.checkpoint
add_peer(s, c, p) ==
    LET t == [s EXCEPT !.pool = @ \cup {p}]
    IN IF ~Seeded(c)
       THEN [Enqueued(t, <<config.checkpoint>>)
                EXCEPT !.waiting = (p :> config.checkpoint) @@ @]
       ELSE request_epoch_ids_from(t, c, p)

remove_peer(s, p) ==
    [s EXCEPT !.pool = @ \ {p},
              !.waiting = [q \in DOMAIN @ \ {p} |-> @[q]]]

resolve_followups(s, c, n) ==
    IF n \notin DOMAIN s.followups THEN s
    ELSE FoldLeft(LAMBDA t, p : IF p \in connected THEN request_epoch_ids_from(t, c, p) ELSE t,
                  [s EXCEPT !.followups = [k \in DOMAIN @ \ {n} |-> @[k]]],
                  s.followups[n])

-----------------------------------------------------------------------------
(* The validity window sync of a full node. *)
ResetValidity(s) == [s EXCEPT !.vreq = None, !.vpool = @ \ s.syncing, !.syncing = {}]

ChunkRequest(epoch, block, index) == [epoch |-> epoch, block |-> block, index |-> index]

(* Where the download starts: with the epoch of the first block of the      *)
(* window, after the items that the store already has.                      *)
WindowStart_current(head) == ElectionBefore(head)
WindowStart(head) == IF head - WINDOW <= 0 THEN 0 ELSE ElectionBefore(head - WINDOW)

start_validity_chunk_request(s, c, start, verifier, crossing) ==
    LET last == history_store_last(c)
        past == last >= verifier
        resumed == last >= start
        block == IF past THEN c.head ELSE verifier
        have == IF resumed THEN Len(c.store[Epoch(last)]) ELSE 0
        epoch == IF resumed THEN Epoch(last) ELSE Epoch(verifier)
    IN [s EXCEPT !.vreq = [verifier |-> block, root |-> HistoryRoot(block),
                           index |-> have \div CHUNK_SIZE, election |-> crossing /\ ~past,
                           prev |-> have % CHUNK_SIZE],
                 !.vqueue = Append(@, ChunkRequest(epoch, block, have \div CHUNK_SIZE))]
start_validity_synchronization(s, c, p) ==
    LET t == [s EXCEPT !.vpool = @ \cup {p}, !.syncing = @ \cup {p}]
        start == WindowStart(c.head)
        next == ElectionAfter(start)
    IN IF s.vreq # None THEN t
       ELSE start_validity_chunk_request(t, c, start,
                IF next < c.head THEN next ELSE c.head, next < c.head)

-----------------------------------------------------------------------------
(* request_macro_headers: what is new in a peer's answer is queued, and the  *)
(* peer waits for our head to reach the last block it reported.              *)
request_macro_headers(s, c, a, p) ==
    LET ours == Election(c.head)
        stale == a.ids # <<>> /\ a.ids[1] <= ours
        behind == stale /\ (Last(a.ids) < ours \/ (Last(a.ids) = ours /\ a.checkpoint = None))
        ids == SelectSeq(a.ids, LAMBDA n : n > ours)
        checkpoint == IF a.checkpoint # None /\ a.checkpoint <= c.head THEN None ELSE a.checkpoint
        all == ids \o (IF checkpoint = None THEN <<>> ELSE <<checkpoint>>)
    IN IF behind THEN [sync |-> s, verdict |-> "outdated"]
       ELSE IF all = <<>> THEN [sync |-> s, verdict |-> "good"]
       ELSE IF ToSet(all) \subseteq s.in_flight /\ Last(all) <= c.head
       THEN [sync |-> s, verdict |-> "good"]
       ELSE [sync |-> [Enqueued(s, all) EXCEPT !.waiting = (p :> Last(all)) @@ @],
             verdict |-> None]

NeedsSlots(c) == Full /\ ~c.slots /\ Election(c.head) > 0
Close(c, a) ==
    LET n == IF a.checkpoint # None THEN a.checkpoint ELSE Last(a.ids)
    IN Full /\ n + 1 - c.head <= THRESHOLD

(* poll_epoch_ids for one answer: the new sync state and what is emitted. *)
EpochIds(s, c, a, p) ==
    LET empty == a.ids = <<>> /\ a.checkpoint = None
        enforced == can_enforce_validity_window(c)
        near == empty \/ Close(c, a)
        t == IF near /\ ~enforced THEN start_validity_synchronization(s, c, p) ELSE s
        done == request_macro_headers(t, c, a, p)
        parent == ElectionBefore(Election(c.head))
    IN IF ~a.found THEN [sync |-> s, verdict |-> "outdated"]
       ELSE IF empty /\ NeedsSlots(c)
       THEN [sync |-> [Enqueued(s, <<parent>>) EXCEPT
                         !.followups = (parent :> Append(IF parent \in DOMAIN @ THEN @[parent]
                                                         ELSE <<>>, p)) @@ @],
             verdict |-> None]
       ELSE IF near /\ enforced THEN [sync |-> s, verdict |-> "good"]
       ELSE IF done.verdict = "good" /\ ~enforced
       THEN [sync |-> start_validity_synchronization(done.sync, c, p), verdict |-> None]
       ELSE done

-----------------------------------------------------------------------------
(* The network. *)
Join(p) ==
    /\ p \in config.peers \ (connected \cup closing)
    /\ [kind |-> "left", peer |-> p] \notin ToSet(events)
    /\ budget.joins > 0
    /\ budget' = [budget EXCEPT !.joins = @ - 1]
    /\ connected' = connected \cup {p}
    /\ events' = Append(events, [kind |-> "joined", peer |-> p])
    /\ out' = [out EXCEPT ![p] = None]
    /\ UNCHANGED <<config, closing, tip, chain, sync, panicked, blamed, dropped>>

Left(p) ==
    /\ connected' = connected \ {p}
    /\ closing' = closing \ {p}
    /\ events' = Append(events, [kind |-> "left", peer |-> p])
    /\ dropped' = dropped \ {p}
Leave(p) ==
    /\ p \in connected
    /\ \/ p \in closing /\ UNCHANGED budget
       \/ p \notin closing /\ budget.leaves > 0 /\ budget' = [budget EXCEPT !.leaves = @ - 1]
    /\ Left(p)
    /\ UNCHANGED <<config, tip, chain, sync, out, panicked, blamed>>

(* A peer adopts the next macro block. *)
Grow(p) ==
    /\ p \in config.peers /\ tip[p] < Top
    /\ budget.grow > 0
    /\ budget' = [budget EXCEPT !.grow = @ - 1]
    /\ tip' = [tip EXCEPT ![p] = @ + 1]
    /\ UNCHANGED <<config, connected, closing, events, chain, sync, out, panicked, blamed, dropped>>

PollNetworkEvents ==
    /\ events # <<>>
    /\ events' = Tail(events)
    /\ LET e == Head(events) IN
       \/ /\ e.kind = "left"
          /\ sync' = remove_peer(sync, e.peer)
          /\ UNCHANGED out
       \/ /\ e.kind = "joined" /\ e.peer \in config.services
          /\ sync' = add_peer(sync, chain, e.peer)
          /\ UNCHANGED out
       \/ /\ e.kind = "joined" /\ e.peer \notin config.services
          /\ out' = [out EXCEPT ![e.peer] = "incompatible"]
          /\ UNCHANGED sync
    /\ UNCHANGED <<config, connected, closing, tip, chain, panicked, blamed, dropped, budget>>

(* The answer to an epoch id request, or the disconnect after a failure. *)
Emitted(p, verdict) == IF verdict = None THEN out ELSE [out EXCEPT ![p] = verdict]
PollEpochIds ==
    \E i \in 1 .. Len(sync.ids) :
        LET r == sync.ids[i]
            s == [sync EXCEPT !.ids = RemoveAt(@, i)]
            answer == EpochIds(s, chain, MacroChain(r), r.peer)
        IN /\ r.peer \in connected \/ sync.ids[1] = r
           /\ IF r.peer \in connected
              THEN sync' = answer.sync /\ out' = Emitted(r.peer, answer.verdict)
              ELSE sync' = s /\ UNCHANGED out
           /\ UNCHANGED <<config, connected, closing, events, tip, chain, panicked, blamed,
                          dropped, budget>>
EpochIdsFail ==
    \E i \in 1 .. Len(sync.ids) :
        LET p == sync.ids[i].peer
        IN /\ p \in connected
           /\ budget.faults > 0
           /\ budget' = [budget EXCEPT !.faults = @ - 1]
           /\ sync' = [sync EXCEPT !.ids = RemoveAt(@, i)]
           /\ Left(p)
           /\ UNCHANGED <<config, tip, chain, out, panicked, blamed>>

-----------------------------------------------------------------------------
(* The macro block queue hands out its results in the order of the requests; *)
(* a request fails once every peer of the pool has failed.                   *)
apply_macro_block(c, n) ==
    IF Full /\ Election(c.head) > 0 /\ n = ElectionBefore(Election(c.head))
    THEN [c EXCEPT !.slots = TRUE]
    ELSE IF ~Full /\ ~Seeded(c) /\ n = config.checkpoint THEN [c EXCEPT !.head = n]
    ELSE IF n < c.head \/ ~Fits(c, n) THEN c
    ELSE push_macro(c, n)

Serving(n) == {p \in sync.pool \cap connected : tip[p] >= n}
Results(n) ==
    [kind : {"block"}, peer : Serving(n) \ config.faulty]
    \cup [kind : {"wrong"}, peer : Serving(n) \cap config.faulty]
    \cup (IF Serving(n) = {} \/ budget.faults > 0 THEN {[kind |-> "failed", peer |-> None]} ELSE {})

(* One result; `d` carries the state through a drain of the queue. *)
Result(d, x, n) ==
    LET s == [d.sync EXCEPT !.queue = Tail(@), !.in_flight = @ \ {n}]
        c == IF x.kind = "block" THEN apply_macro_block(d.chain, n) ELSE d.chain
    IN [sync |-> resolve_followups(IF x.kind = "wrong" THEN remove_peer(s, x.peer) ELSE s, c, n),
        chain |-> c,
        closing |-> IF x.kind = "wrong" THEN d.closing \cup {x.peer} ELSE d.closing,
        exhausted |-> d.exhausted \/ x.kind = "failed",
        faults |-> d.faults + (IF x.kind = "failed" /\ Serving(n) # {} THEN 1 ELSE 0)]

(* Peers whose last reported block we have reached are asked again. *)
TipFollow(s, c) ==
    LET satisfied == {p \in DOMAIN s.waiting : s.waiting[p] <= c.head}
    IN FoldLeft(LAMBDA t, p : IF p \in connected THEN request_epoch_ids_from(t, c, p) ELSE t,
                [s EXCEPT !.waiting = [p \in DOMAIN @ \ satisfied |-> @[p]]],
                SetToSeq(satisfied))

(* If a failed fetch left the queue empty, the peers that still wait start  *)
(* over.                                                                    *)
Recover(s, c, exhausted) ==
    IF ~exhausted \/ s.queue # <<>> THEN s
    ELSE FoldLeft(LAMBDA t, p : IF p \in connected THEN add_peer(t, c, p) ELSE t,
                  [s EXCEPT !.waiting = <<>>],
                  SetToSeq(DOMAIN s.waiting))

PollMacroBlockQueue ==
    \E k \in 1 .. Len(sync.queue) :
        \E xs \in [1 .. k -> UNION {Results(sync.queue[i]) : i \in 1 .. k}] :
            /\ \A i \in 1 .. k : xs[i] \in Results(sync.queue[i])
            /\ \E d \in {FoldLeft(LAMBDA acc, i : Result(acc, xs[i], sync.queue[i]),
                                  [sync |-> sync, chain |-> chain, closing |-> closing,
                                   exhausted |-> FALSE, faults |-> 0],
                                  [i \in 1 .. k |-> i])} :
                  /\ d.faults <= budget.faults
                  /\ budget' = [budget EXCEPT !.faults = @ - d.faults]
                  /\ chain' = d.chain
                  /\ closing' = d.closing
                  /\ blamed' = blamed \cup (d.closing \ closing)
                  /\ sync' = Recover(TipFollow(d.sync, d.chain), d.chain, d.exhausted)
            /\ UNCHANGED <<config, connected, events, tip, out, panicked, dropped>>

-----------------------------------------------------------------------------
(* The chunks of the validity window. *)

(* The items of a chunk that we do not have yet, appended to the store. *)
NewItems(history, prev) ==
    IF prev < Len(history) THEN SubSeq(history, prev + 1, Len(history))
    ELSE IF prev = Len(history) THEN <<>>
    ELSE history

extend_validity_sync(c, epoch, items) == [c EXCEPT !.store[epoch] = @ \o items]

(* What to ask for after a chunk of which `complete` says whether it ended  *)
(* the epoch; None if the window is complete.                               *)
NextChunk(v, c, len, complete) ==
    LET newer == c.head > v.verifier
        later == newer /\ Epoch(v.verifier) < Epoch(c.head)
        election == v.election \/ later
        fresh == [v EXCEPT !.verifier = c.head, !.root = HistoryRoot(c.head)]
    IN IF newer /\ ~later THEN [fresh EXCEPT !.prev = len]
       ELSE IF ~complete THEN [v EXCEPT !.election = election, !.index = @ + 1, !.prev = 0]
       ELSE IF election THEN [fresh EXCEPT !.election = FALSE, !.index = 0, !.prev = 0]
       ELSE None

ChunkVerifies(v, chunk) == chunk.root = v.root /\ chunk.from = v.index * CHUNK_SIZE

ChunkApplied(p, chunk) ==
    LET v == sync.vreq
        items == NewItems(chunk.history, v.prev)
        c == extend_validity_sync(chain, chunk.root.epoch, items)
        complete == items # <<>> /\ TreeRoot(c, chunk.root.epoch) = v.root
        next == NextChunk(v, c, Len(chunk.history), complete)
        s == [sync EXCEPT !.vqueue = Tail(@)]
    IN /\ chain' = c
       /\ sync' = IF next = None
                  THEN [ResetValidity([s EXCEPT !.syncing = @ \cup {p}]) EXCEPT
                          !.synced = @ \o <<p>> \o SetToSeq(s.syncing \ {p})]
                  ELSE [s EXCEPT !.vreq = next,
                                 !.vqueue = Append(@, ChunkRequest(Epoch(next.verifier),
                                                                   next.verifier, next.index))]
       /\ UNCHANGED <<closing, blamed, out>>

(* The chunk does not verify: the peer is disconnected, the request goes to  *)
(* another peer.                                                             *)
Retried(p) == [remove_peer(sync, p) EXCEPT
                 !.vpool = @ \ {p}, !.syncing = @ \ {p},
                 !.vqueue = Append(Tail(@), Head(@))]
ChunkRejected(p) ==
    /\ sync' = Retried(p)
    /\ closing' = closing \cup {p}
    /\ blamed' = blamed \cup {p}
    /\ UNCHANGED <<chain, out>>

(* The peer cannot prove the chunk. *)
ChunkRefused(p) ==
    /\ IF Head(sync.vqueue).epoch = 0
       THEN sync' = [sync EXCEPT !.vqueue = Tail(@)] /\ out' = [out EXCEPT ![p] = "good"]
       ELSE /\ sync' = [sync EXCEPT !.vpool = @ \ {p}, !.syncing = @ \ {p},
                                    !.vqueue = Append(Tail(@), Head(@))]
            /\ out' = [out EXCEPT ![p] = "outdated"]
    /\ UNCHANGED <<chain, closing, blamed>>

PollChunk ==
    /\ sync.vqueue # <<>>
    /\ \E p \in sync.vpool \cap connected :
          LET chunk == prove_chunk(tip[p], Head(sync.vqueue))
          IN IF chunk = None THEN ChunkRefused(p) /\ UNCHANGED panicked
             ELSE IF sync.vreq = None
             THEN panicked' = TRUE /\ UNCHANGED <<sync, chain, closing, blamed, out>>
             ELSE /\ UNCHANGED panicked
                  /\ \/ ChunkVerifies(sync.vreq, chunk) /\ ChunkApplied(p, chunk)
                     \/ ~ChunkVerifies(sync.vreq, chunk) /\ ChunkRejected(p)
    /\ UNCHANGED <<config, connected, events, tip, dropped, budget>>

(* Every try of a chunk failed. *)
ChunkExhausted ==
    /\ sync.vqueue # <<>>
    /\ \/ sync.vpool \cap connected = {} /\ UNCHANGED budget
       \/ /\ sync.vpool \cap connected # {} /\ budget.faults > 0
          /\ budget' = [budget EXCEPT !.faults = @ - 1]
    /\ sync' = ResetValidity([sync EXCEPT !.vqueue = Tail(@)])
    /\ dropped' = dropped \cup (sync.syncing \cap connected)
    /\ UNCHANGED <<config, connected, closing, events, tip, chain, out, panicked, blamed>>

(* A peer that the validity sync is done with starts over. *)
PopSynced ==
    /\ sync.synced # <<>>
    /\ sync' = add_peer([sync EXCEPT !.synced = Front(@)], chain, Last(sync.synced))
    /\ UNCHANGED <<config, connected, closing, events, tip, chain, out, panicked, blamed,
                   dropped, budget>>

-----------------------------------------------------------------------------
EmptySync ==
    [ids |-> <<>>, queue |-> <<>>, in_flight |-> {}, pool |-> {}, waiting |-> <<>>,
     followups |-> <<>>, vqueue |-> <<>>, vpool |-> {}, vreq |-> None, syncing |-> {},
     synced |-> <<>>]
Init ==
    /\ config \in Configurations
    /\ connected = {} /\ closing = {} /\ events = <<>>
    /\ tip = config.tip
    /\ chain = [head |-> config.head, slots |-> config.slots,
                store |-> [e \in 1 .. Epoch(Top) |->
                              IF e \in DOMAIN config.stored
                              THEN [i \in 1 .. config.stored[e] |-> i] ELSE <<>>]]
    /\ sync = EmptySync
    /\ out = [p \in Peers |-> None]
    /\ panicked = FALSE
    /\ blamed = {} /\ dropped = {}
    /\ budget = config.budget

Next ==
    \/ \E p \in Peers : Join(p) \/ Leave(p) \/ Grow(p)
    \/ PollNetworkEvents
    \/ PollEpochIds
    \/ EpochIdsFail
    \/ PollMacroBlockQueue
    \/ PollChunk
    \/ ChunkExhausted
    \/ PopSynced

Spec == Init /\ [][Next]_vars

Due ==
    \/ events # <<>> \/ closing # {}
    \/ sync.ids # <<>> \/ sync.queue # <<>> \/ sync.vqueue # <<>> \/ sync.synced # <<>>

Handles ==
    \/ PollNetworkEvents
    \/ PollEpochIds \/ EpochIdsFail \/ PollMacroBlockQueue
    \/ PollChunk \/ ChunkExhausted \/ PopSynced
    \/ \E p \in closing : Leave(p)

(* The syncer polls the stream, every request is answered or times out, and *)
(* the task that disconnects a peer runs: while any of them is due, one is   *)
(* done, time and again.  Peers join and leave, blocks are produced and      *)
(* requests fail when they like.                                             *)
Fairness == []<>(~Due) \/ []<><<Handles>>_vars

FairSpec == Spec /\ Fairness

-----------------------------------------------------------------------------
(* The fields of LightMacroSync are well formed: the hashes in flight are   *)
(* the ones in the queue, each once, and the history of an epoch is held    *)
(* without a gap or a repetition.                                           *)
TypeOK ==
    /\ ToSet(sync.queue) = sync.in_flight /\ Cardinality(sync.in_flight) = Len(sync.queue)
    /\ sync.syncing \subseteq sync.vpool
    /\ \A e \in DOMAIN chain.store :
          chain.store[e] = [i \in 1 .. Len(chain.store[e]) |-> i]
    /\ chain.head \in 0 .. Top

Tracked(p) ==
    \/ \E i \in 1 .. Len(events) : events[i] = [kind |-> "joined", peer |-> p]
    \/ \E i \in 1 .. Len(sync.ids) : sync.ids[i].peer = p
    \/ p \in DOMAIN sync.waiting
    \/ \E n \in DOMAIN sync.followups : p \in ToSet(sync.followups[n])
    \/ p \in sync.syncing
    \/ p \in ToSet(sync.synced)

(* A peer that joined and was not emitted yet is somewhere in the sync: an   *)
(* answer is pending, it waits for a block, or its chunks are downloaded.    *)
(* Only the reset of the validity sync forgets peers.                        *)
NoPeerLost ==
    \A p \in connected \ (closing \cup dropped) : out[p] # None \/ Tracked(p)

(* While a validity sync runs exactly one chunk is asked for, so that the    *)
(* request a chunk belongs to is there when it arrives.                      *)
OneChunkAsked ==
    /\ ~panicked
    /\ Len(sync.vqueue) = (IF sync.vreq = None THEN 0 ELSE 1)

(* No peer that answered truthfully is disconnected as malicious.  Not so in *)
(* the code: a peer that is asked for a chunk at our macro head while it is  *)
(* still at the one before answers with what it has, which does not verify.  *)
HonestNotBanned == blamed \subseteq config.faulty

Oldest(head) == IF head > WINDOW THEN head - WINDOW + 1 ELSE 1

(* A step that emits a peer as good leaves the window complete. *)
HeldStep ==
    \A p \in Peers :
       /\ out'[p] = "good" /\ out[p] # "good" /\ Full
       => \A e \in Epoch(Oldest(chain'.head)) .. Epoch(chain'.head) :
             TreeRoot(chain', e)
                = HistoryRoot(IF e * B < chain'.head THEN e * B ELSE chain'.head)

(* A full node that calls a peer good has the history of its whole validity  *)
(* window: of the current epoch, and of the previous one where the window    *)
(* reaches back into it.                                                     *)
WindowIsHeld == [][HeldStep]_vars

Quiet == config.budget.faults = 0 /\ config.budget.leaves = 0 /\ config.faulty = {}
Settled == \A p \in connected : out[p] # None

SettledIfQuiet == Quiet => Settled

(* If no peer leaves and no request fails, every peer is eventually emitted. *)
SyncCompletes == <>[]SettledIfQuiet

(* Recover from an exhausted fetch: a peer that waits for a block has a      *)
(* request under way that can bring it.  Not so in the code: that a fetch    *)
(* was exhausted is known in one poll only, and the blocks behind it may be  *)
(* skipped in a later one.                                                   *)
NoWedge == DOMAIN sync.waiting # {} => sync.queue # <<>>
=============================================================================
