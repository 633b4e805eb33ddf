------------------------------ MODULE BlockQueue ------------------------------
(***************************************************************************)
(* Live sync of blocks (consensus/src/sync/live): the block queue          *)
(* (block_queue/queue.rs) sorts announced blocks into those that can be    *)
(* pushed, those that wait in a buffer for missing predecessors and those  *)
(* outside of its window, and requests what is missing                     *)
(* (block_request_component.rs); a task of its own polls it and sends the  *)
(* blocks over a bounded channel (proxy.rs) to the live syncer (mod.rs),   *)
(* which pushes them one after the other (queue.rs, live_sync.rs).         *)
(*                                                                         *)
(* Four actors interleave: the task that polls the queue and holds its     *)
(* lock meanwhile (phase), the live syncer, other parts of the node that   *)
(* push blocks, and the network.  Each blockchain event is sent when the   *)
(* push it reports is finished and is read by a later poll.                *)
(*                                                                         *)
(* A block stands for its hash.  The fork choice, the verification of a    *)
(* block and the sync queue are in modules of their own (Blockchain,       *)
(* SyncQueue): here a fork block is stored or causes a rebranch, and a     *)
(* request is answered with blocks that verify or given up.                *)
(***************************************************************************)
EXTENDS Integers, Sequences, FiniteSets, FiniteSetsExt, SequencesExt

CONSTANTS
    Blocks, Genesis,
    Number, Parent,       \* of each block; the genesis block is its own parent
    Invalid,              \* blocks that no blockchain accepts
    Malformed,            \* invalid blocks whose header or body already tells
    Equivocations,        \* pairs of micro blocks of one producer and height
    BlocksPerBatch,
    Peers,
    Callers,              \* those that ask to resolve a block
    Configurations,       \* QueueConfig, and what happens around the queue
    MAX_BUFFERED_PER_PEER_PER_HEIGHT,
    NUM_PENDING_BLOCKS,
    QUEUED_BLOCK_BUFFER_SIZE

BlocksAssumption ==
    /\ Genesis \in Blocks /\ Number[Genesis] = 0
    /\ \A b \in Blocks \ {Genesis} : Parent[b] \in Blocks
    /\ \A b \in Blocks \ {Genesis} : Number[b] = Number[Parent[b]] + 1
    /\ Malformed \subseteq Invalid

VARIABLES
    config,
    known, head,          \* the blockchain: its blocks and its head
    events, forks,        \* blockchain_rx and fork_rx
    stream,               \* block_stream: blocks not looked at yet
    peers,                \* the peer list of the request component
    buffer, heights,      \* buffered blocks; the heights the map has a key for
    blocks_pending_push,
    pending_requests,     \* the callers that wait for a block
    current_macro_height,
    pending, requests,    \* BlockRequestComponent: pending_requests, sync_queue
    channel,              \* queued blocks on their way to the live syncer
    ops,                  \* LiveSyncer: pending
    phase,                \* how far poll_next of the queue is
    resolved,             \* the answers the callers got
    rejected,             \* announced blocks that were rejected
    released,             \* peers handed to the syncer
    announced             \* the announcements made so far

chain_vars == <<known, head, events, forks>>
queue_vars == <<buffer, heights, blocks_pending_push, pending_requests,
                current_macro_height, pending, requests>>
outside == <<resolved, rejected, released, announced>>
vars == <<config, chain_vars, stream, peers, queue_vars, channel, ops, phase, outside>>

-----------------------------------------------------------------------------
(* The blockchain.                                                         *)

last_macro_block(n) == (n \div BlocksPerBatch) * BlocksPerBatch

is_macro(b) == Number[b] % BlocksPerBatch = 0

Ancestors[b \in Blocks] == IF b = Genesis THEN {b} ELSE {b} \cup Ancestors[Parent[b]]

head_height == Number[head]
macro_head_number == last_macro_block(head_height)

(* The blocks from above a to b. *)
Path ==
    [a, b \in Blocks |->
        SetToSortSeq(Ancestors[b] \ Ancestors[a], LAMBDA x, y : Number[x] < Number[y])]

(* The blocks of a push that changes the main chain to the one of b. *)
Branch(b) == Path[head, b]

NewBlocks(type, blocks) == [type |-> type, blocks |-> blocks]

(* What a push of b returns, the chain after it, and the event it sends.   *)
PushOutcomes(b) ==
    LET Same(result) == [result |-> result, head |-> head, known |-> known,
                         events |-> events, forks |-> forks]
        Forks == forks \o SetToSeq({{b, c} : c \in {d \in known : {b, d} \in Equivocations}})
        With(result, h, event) ==
            [result |-> result, head |-> h, known |-> known \cup {b},
             events |-> Append(events, event), forks |-> Forks]
    IN  IF b \in known THEN {Same("Known")}
        ELSE IF Number[b] <= macro_head_number THEN {Same("Ignored")}
        ELSE IF Parent[b] \notin known \/ b \in Invalid THEN {Same("Err")}
        ELSE IF Parent[b] = head THEN {With("Extended", b, NewBlocks("Extended", <<b>>))}
        ELSE {With("Forked", head, NewBlocks("Stored", <<b>>)),
              With("Rebranched", b, NewBlocks("Rebranched", Branch(b)))}

Apply(o) ==
    /\ known' = o.known
    /\ head' = o.head
    /\ events' = o.events
    /\ forks' = o.forks

(* Another part of the node (the validator, macro sync) pushes a block. *)
PushElsewhere(b) ==
    /\ b \in config.elsewhere \ known
    /\ Parent[b] \in known
    /\ \E o \in PushOutcomes(b) : Apply(o)
    /\ UNCHANGED <<config, stream, peers, queue_vars, channel, ops, phase, outside>>

-----------------------------------------------------------------------------
(* Sources of blocks.                                                      *)

Announced(p) == [requested |-> FALSE, peer |-> {p}]

(* Who answered a request for missing blocks makes no difference. *)
Response == [requested |-> TRUE, peer |-> {}]

(* validate_block: only announced blocks are reported to the network. *)
Rejecting(entries) ==
    rejected \cup {e.block : e \in {f \in entries : ~f.source.requested}}

(* A block is announced by gossip, or a head request returned it. *)
Receive(b, source) ==
    LET a == [block |-> b, source |-> source]
    IN  /\ a \in config.announcements \ announced
        /\ announced' = announced \cup {a}
        /\ stream' = Append(stream, a)
        /\ UNCHANGED <<config, chain_vars, peers, queue_vars, channel, ops, phase,
                       resolved, rejected, released>>

-----------------------------------------------------------------------------
(* The request component.                                                  *)

(* Every block from the head down to the last macro block. *)
Locators(first) ==
    first \cup {b \in Ancestors[head] : Number[b] >= macro_head_number}

(* What the component knows of a request is a function of what it asked.   *)
MissingBlockRequest(target, first) ==
    [target |-> target, locators |-> Locators(first), answered |-> FALSE, blocks |-> <<>>]

(* The queue after request_missing_blocks of the component. *)
Ask(pr, target, first) ==
    [pending |-> pr.pending \cup {target},
     requests |-> Append(pr.requests, MissingBlockRequest(target, first))]

is_pending(pr, target) == target \in pr.pending

(***************************************************************************)
(* The responses that verify: a chain of at most a batch of blocks with    *)
(* good headers, from a locator to the target or to a macro block below    *)
(* it that the validators signed.                                          *)
(***************************************************************************)
verify(r) ==
    {p \in {Path[a, b] : a \in r.locators,
                         b \in {c \in Blocks : \/ c = r.target
                                               \/ /\ is_macro(c) /\ c \notin Invalid
                                                  /\ Number[c] < Number[r.target]}} :
        /\ Len(p) \in 1..BlocksPerBatch
        /\ Parent[Head(p)] \in r.locators
        /\ Range(p) \cap Malformed = {}
        /\ is_macro(Last(p)) => Last(p) \notin Invalid}

(* A peer answers a request, or the sync queue has asked all of them. *)
Answer(i, blocks) ==
    /\ i \in 1..Min({NUM_PENDING_BLOCKS, Len(requests)})
    /\ ~requests[i].answered
    /\ peers # {}
    /\ blocks \in verify(requests[i])
                  \cup IF config.fails \/ verify(requests[i]) = {} THEN {<<>>} ELSE {}
    /\ requests' = [requests EXCEPT ![i].answered = TRUE, ![i].blocks = blocks]
    /\ UNCHANGED <<config, chain_vars, stream, peers, buffer, heights,
                   blocks_pending_push, pending_requests, current_macro_height,
                   pending, channel, ops, phase, outside>>

(* A peer joins live sync; a peer that leaves is dropped. *)
AddPeer(p) ==
    /\ p \in released
    /\ config.peers_change
    /\ peers' = peers \cup {p}
    /\ released' = released \ {p}
    /\ UNCHANGED <<config, chain_vars, stream, queue_vars, channel, ops, phase,
                   resolved, rejected, announced>>

-----------------------------------------------------------------------------
(* The buffer.  q is the part of the queue that an operation changes.      *)

Queue == [buffer |-> buffer, heights |-> heights, pending |-> pending, requests |-> requests]

Buffered(q, n) == {e \in q.buffer : Number[e.block] = n}

IsBuffered(q, b) == \E e \in q.buffer : e.block = b

(* insert_block_into_buffer: a peer has a share of each height. *)
MayBuffer(q, b, source) ==
    /\ ~IsBuffered(q, b)
    /\ \/ source.requested
       \/ Cardinality({e \in Buffered(q, Number[b]) :
                         ~e.source.requested /\ e.source.peer = source.peer})
            < MAX_BUFFERED_PER_PEER_PER_HEIGHT

insert_block_into_buffer(q, b, source) ==
    [q EXCEPT !.heights = @ \cup {Number[b]},
              !.buffer = IF MayBuffer(q, b, source)
                         THEN @ \cup {[block |-> b, source |-> source]} ELSE @]

(* The first ancestor of b that is not in the buffer. *)
FirstMissing(q, b) ==
    CHOOSE a \in Ancestors[Parent[b]] :
        /\ ~IsBuffered(q, a)
        /\ \A c \in Ancestors[Parent[b]] : Number[c] > Number[a] => IsBuffered(q, c)

buffer_and_request_missing_blocks(q, b, source) ==
    LET r == insert_block_into_buffer(q, b, source)
        a == FirstMissing(r, b)
        pr == [pending |-> q.pending, requests |-> q.requests]
        asked == Ask(pr, a, {})
    IN  IF ~MayBuffer(q, b, source) THEN r
        ELSE IF a \in blocks_pending_push \/ is_pending(pr, a) THEN r
        ELSE [r EXCEPT !.pending = asked.pending, !.requests = asked.requests]

SetQueue(q) ==
    /\ buffer' = q.buffer
    /\ heights' = q.heights
    /\ pending' = q.pending
    /\ requests' = q.requests

(* A poll that yields goes on from the start. *)
Yield(item) ==
    /\ channel' = Append(channel, item)
    /\ phase' = "idle"

Queued(type, entries) == [type |-> type, blocks |-> entries, peer |-> {}]
PeerItem(type, p) == [type |-> type, blocks |-> <<>>, peer |-> p]

-----------------------------------------------------------------------------
(* poll_next of the queue.                                                 *)

(* One of the streams woke the task. *)
Woken ==
    \/ events # <<>> \/ forks # <<>> \/ stream # <<>>
    \/ requests # <<>> /\ Head(requests).answered

(* BlockQueueFuture reserves room before it polls the queue. *)
Poll ==
    /\ phase = "idle"
    /\ Woken
    /\ Len(channel) < QUEUED_BLOCK_BUFFER_SIZE
    /\ phase' = "events"
    /\ UNCHANGED <<config, chain_vars, stream, peers, queue_vars, channel, ops, outside>>

(* The buffered blocks whose parent is new, except those that were returned *)
(* before and are not processed yet.                                        *)
Applicable(new) == {e \in buffer : Parent[e.block] \in Range(new)}

(* The heights at which nothing is left. *)
EmptiedHeights(new, rest) ==
    {n \in {Number[b] + 1 : b \in Range(new)} : \A e \in rest : Number[e.block] # n}

(* remove_applicable_blocks, and the blocks it returns in the order of new. *)
remove_applicable_blocks(new) ==
    LET gone == Applicable(new)
        push == {e \in gone : e.block \notin blocks_pending_push}
    IN  /\ buffer' = buffer \ gone
        /\ heights' = heights \ EmptiedHeights(new, buffer \ gone)
        /\ blocks_pending_push' = blocks_pending_push \cup {e.block : e \in push}
        /\ IF push = {}
           THEN UNCHANGED <<channel, phase>>
           ELSE \E entries \in SetToSeqs(push) :
                  /\ \A i, j \in DOMAIN entries :
                        i < j => Number[entries[i].block] <= Number[entries[j].block]
                  /\ Yield(Queued("Buffered", entries))

(* resolve_pending_requests *)
Resolving(new) == {w \in pending_requests : w.block \in Range(new)}

PollEvent ==
    /\ phase = "events"
    /\ events # <<>>
    /\ events' = Tail(events)
    /\ LET new == Head(events).blocks
       IN  /\ pending_requests' = pending_requests \ Resolving(new)
           /\ resolved' = resolved \cup {[caller |-> w.caller, answer |-> "Block"] :
                                            w \in Resolving(new)}
           /\ remove_applicable_blocks(new)
    /\ UNCHANGED <<config, known, head, forks, stream, peers, current_macro_height,
                   pending, requests, ops, rejected, released, announced>>

PollEvents_pending ==
    /\ phase = "events"
    /\ events = <<>>
    /\ phase' = "forks"
    /\ UNCHANGED <<config, chain_vars, stream, peers, queue_vars, channel, ops, outside>>

(* Both headers of a fork proof count as new. *)
PollFork ==
    /\ phase = "forks"
    /\ forks # <<>>
    /\ forks' = Tail(forks)
    /\ remove_applicable_blocks(SetToSeq(Head(forks)))
    /\ UNCHANGED <<config, known, head, events, stream, peers, pending_requests,
                   current_macro_height, pending, requests, ops, outside>>

Outdated(n) == {w \in pending_requests : Number[w.block] <= n}

(* The fork stream is empty: check_and_prune. *)
check_and_prune ==
    /\ phase = "forks"
    /\ forks = <<>>
    /\ phase' = "requests"
    /\ IF current_macro_height < macro_head_number
       THEN /\ current_macro_height' = macro_head_number
            /\ pending_requests' = pending_requests \ Outdated(macro_head_number)
            /\ resolved' = resolved \cup {[caller |-> w.caller, answer |-> "Outdated"] :
                                             w \in Outdated(macro_head_number)}
            /\ buffer' = {e \in buffer : Number[e.block] > macro_head_number}
            /\ heights' = {n \in heights : n > macro_head_number}
       ELSE UNCHANGED <<current_macro_height, pending_requests, resolved, buffer, heights>>
    /\ UNCHANGED <<config, chain_vars, stream, peers, blocks_pending_push, pending,
                   requests, channel, ops, rejected, released, announced>>

(* A run of buffered blocks that descends from the block at hand: one      *)
(* successor at each height.                                               *)
RemoveSuccessors[n \in 0..Cardinality(Blocks)] ==
    [b \in Blocks |->
        LET next == {e.block : e \in {f \in buffer : Parent[f.block] = b /\ f.block # Genesis}}
        IN  IF next = {} \/ n = 0 THEN {{}}
            ELSE UNION {{{c} \cup s : s \in RemoveSuccessors[n - 1][c]} : c \in next}]

(* The response ended at a macro block: the rest is requested. *)
RequestRest(pr, r) ==
    IF Last(r.blocks) = r.target THEN pr ELSE Ask(pr, r.target, {Last(r.blocks)})

(* handle_missing_blocks *)
handle_missing_blocks(r) ==
    LET asked == RequestRest([pending |-> pending \ {r.target},
                              requests |-> Tail(requests)], r)
        q == [Queue EXCEPT !.pending = asked.pending, !.requests = asked.requests]
        first == buffer_and_request_missing_blocks(q, Head(r.blocks), Response)
        Insert(s, b) == insert_block_into_buffer(s, b, Response)
    IN  IF macro_head_number >= Number[r.target]
        THEN /\ SetQueue(q)
             /\ UNCHANGED <<blocks_pending_push, channel, phase>>
        ELSE IF Parent[Head(r.blocks)] \notin known
        THEN /\ SetQueue(FoldLeft(Insert, first, Tail(r.blocks)))
             /\ UNCHANGED <<blocks_pending_push, channel, phase>>
        ELSE /\ SetQueue(q)
             /\ blocks_pending_push' = blocks_pending_push \cup Range(r.blocks)
             /\ Yield(Queued("Missing", [i \in DOMAIN r.blocks |->
                            [block |-> r.blocks[i], source |-> Response]]))

(* The sync queue returns its results in the order of the requests. *)
PollResponse ==
    /\ phase = "requests"
    /\ requests # <<>>
    /\ Head(requests).answered
    /\ Head(requests).blocks # <<>>
    /\ handle_missing_blocks(Head(requests))
    /\ UNCHANGED <<config, chain_vars, stream, peers, pending_requests,
                   current_macro_height, ops, outside>>

(* The request failed: its successors are taken out of the buffer; the map *)
(* keeps the heights they were at.                                         *)
PollFailure ==
    /\ phase = "requests"
    /\ requests # <<>>
    /\ Head(requests).answered
    /\ Head(requests).blocks = <<>>
    /\ \E gone \in RemoveSuccessors[Cardinality(Blocks)][Head(requests).target] :
          buffer' = {e \in buffer : e.block \notin gone}
    /\ pending' = pending \ {Head(requests).target}
    /\ requests' = Tail(requests)
    /\ UNCHANGED <<config, chain_vars, stream, peers, heights, blocks_pending_push,
                   pending_requests, current_macro_height, channel, ops, phase, outside>>

PollRequests_pending ==
    /\ phase = "requests"
    /\ requests # <<>> => ~Head(requests).answered
    /\ phase' = "stream"
    /\ UNCHANGED <<config, chain_vars, stream, peers, queue_vars, channel, ops, outside>>

(* check_announced_block of a block at a distance from the head. *)
TooFar(type, source) ==
    /\ UNCHANGED <<queue_vars, rejected>>
    /\ IF source.peer \subseteq peers
       THEN /\ peers' = peers \ source.peer
            /\ Yield(PeerItem(type, source.peer))
       ELSE UNCHANGED <<peers, channel, phase>>

Drop == UNCHANGED <<queue_vars, rejected, peers, channel, phase>>

check_announced_block(b, source) ==
    IF b \in Malformed
    THEN /\ rejected' = Rejecting({[block |-> b, source |-> source]})
         /\ UNCHANGED <<queue_vars, peers, channel, phase>>
    ELSE IF b \in known THEN Drop
    ELSE IF Number[b] < head_height - config.tolerate_past_max
    THEN TooFar("TooFarBehind", source)
    ELSE IF Parent[b] \in known
    THEN /\ blocks_pending_push' = blocks_pending_push \cup {b}
         /\ IF b \in blocks_pending_push THEN UNCHANGED <<channel, phase>>
            ELSE Yield(Queued("Head", <<[block |-> b, source |-> source]>>))
         /\ UNCHANGED <<buffer, heights, pending_requests, current_macro_height,
                        pending, requests, rejected, peers>>
    ELSE IF Number[b] > head_height + config.window_ahead_max
    THEN TooFar("TooFarAhead", source)
    ELSE IF Number[b] <= macro_head_number THEN Drop
    ELSE /\ SetQueue(buffer_and_request_missing_blocks(Queue, b, source))
         /\ UNCHANGED <<blocks_pending_push, pending_requests, current_macro_height,
                        rejected, peers, channel, phase>>

(* Without peers the announcements are discarded. *)
PollStream ==
    /\ phase = "stream"
    /\ stream # <<>>
    /\ stream' = Tail(stream)
    /\ IF peers = {} THEN Drop
       ELSE check_announced_block(Head(stream).block, Head(stream).source)
    /\ UNCHANGED <<config, chain_vars, ops, resolved, released, announced>>

PollStream_pending ==
    /\ phase = "stream"
    /\ stream = <<>>
    /\ phase' = "idle"
    /\ UNCHANGED <<config, chain_vars, stream, peers, queue_vars, channel, ops, outside>>

-----------------------------------------------------------------------------
(* Other calls of the queue, under its lock.                               *)

(* resolve_block: the request is sent although somebody waits already. *)
ResolveBlock(c, b) ==
    /\ phase = "idle"
    /\ b \in config.resolve
    /\ \A r \in resolved : r.caller # c
    /\ \A w \in pending_requests : w.caller # c
    /\ LET taken == \E w \in pending_requests : w.block = b
           asked == Ask([pending |-> pending, requests |-> requests], b, {})
       IN  /\ resolved' = IF taken
                          THEN resolved \cup {[caller |-> c, answer |-> "Duplicate"]}
                          ELSE resolved
           /\ pending_requests' =
                IF taken THEN pending_requests
                ELSE pending_requests
                     \cup {[caller |-> c, block |-> b, late |-> b \in known]}
           /\ IF IsBuffered(Queue, b) \/ b \in blocks_pending_push
              THEN UNCHANGED <<pending, requests>>
              ELSE /\ pending' = asked.pending
                   /\ requests' = asked.requests
    /\ UNCHANGED <<config, chain_vars, stream, peers, buffer, heights,
                   blocks_pending_push, current_macro_height, channel, ops, phase,
                   rejected, released, announced>>

(* The live syncer takes the next item: push_queue_result. *)
Op(type, entries, p) ==
    [type |-> type, todo |-> entries, adopted |-> <<>>, invalid |-> {}, peer |-> p]

push_queue_result(item) ==
    IF item.type = "Buffered"
    THEN [i \in DOMAIN item.blocks |-> Op("Buffered", <<item.blocks[i]>>, {})]
    ELSE <<Op(item.type, item.blocks, item.peer)>>

Take ==
    /\ ops = <<>>
    /\ channel # <<>>
    /\ ops' = push_queue_result(Head(channel))
    /\ channel' = Tail(channel)
    /\ UNCHANGED <<config, chain_vars, stream, peers, queue_vars, phase, outside>>

(* push_block_only, or one turn of push_multiple_blocks: the first block    *)
(* that fails makes the rest invalid.  Only single blocks are validated.    *)
PushBlock ==
    /\ ops # <<>>
    /\ Head(ops).todo # <<>>
    /\ LET op == Head(ops)
           e == Head(op.todo)
           single == op.type \in {"Head", "Buffered"}
       IN  \E o \in PushOutcomes(e.block) :
             /\ Apply(o)
             /\ rejected' = IF o.result = "Err" /\ single THEN Rejecting({e}) ELSE rejected
             /\ ops' = [ops EXCEPT ![1] =
                   IF o.result = "Err"
                   THEN [op EXCEPT !.todo = <<>>,
                                   !.invalid = {f.block : f \in Range(op.todo)}]
                   ELSE [op EXCEPT !.todo = Tail(@),
                                   !.adopted = Append(@, e.block)]]
    /\ UNCHANGED <<config, stream, peers, queue_vars, channel, phase,
                   resolved, released, announced>>

(* remove_invalid_blocks: buffered descendants of the invalid blocks. *)
Descendants(S) ==
    {e \in buffer : (Ancestors[e.block] \ {e.block}) \cap S # {}}

(* Removing stops where a block between is neither buffered nor invalid. *)
InvalidEntries(S) ==
    {e \in Descendants(S) :
        \E s \in S \cap (Ancestors[e.block] \ {e.block}) :
            \A b \in Ancestors[e.block] \ Ancestors[s] : IsBuffered(Queue, b)}

(* on_block_processed for each block of the push. *)
Processed_adopted(op) == Range(op.adopted)

Processed(op) == Range(op.adopted) \cup op.invalid

(* process_push_result; a peer that is too far ahead or behind leaves live  *)
(* sync for the syncer.                                                     *)
ProcessPush ==
    /\ phase = "idle"
    /\ ops # <<>>
    /\ Head(ops).todo = <<>>
    /\ LET op == Head(ops)
           gone == IF op.type = "Missing" THEN InvalidEntries(op.invalid) ELSE {}
       IN  /\ blocks_pending_push' =
                blocks_pending_push \ Processed(op)
           /\ buffer' = buffer \ gone
           /\ heights' = IF op.type = "Missing" /\ op.invalid # {}
                         THEN {Number[e.block] : e \in buffer'} ELSE heights
           /\ rejected' = Rejecting(gone)
           /\ released' = released \cup op.peer
    /\ ops' = Tail(ops)
    /\ UNCHANGED <<config, chain_vars, stream, peers, pending_requests,
                   current_macro_height, pending, requests, channel, phase,
                   resolved, announced>>

-----------------------------------------------------------------------------
Init ==
    /\ config \in Configurations
    /\ known = {Genesis} /\ head = Genesis
    /\ events = <<>> /\ forks = <<>>
    /\ stream = <<>>
    /\ peers = Peers
    /\ buffer = {} /\ heights = {}
    /\ blocks_pending_push = {}
    /\ pending_requests = {}
    /\ current_macro_height = macro_head_number
    /\ pending = {} /\ requests = <<>>
    /\ channel = <<>> /\ ops = <<>>
    /\ phase = "idle"
    /\ resolved = {} /\ rejected = {} /\ released = {} /\ announced = {}

QueueTask ==
    \/ Poll
    \/ PollEvent
    \/ PollEvents_pending
    \/ PollFork
    \/ check_and_prune
    \/ PollResponse
    \/ PollFailure
    \/ PollRequests_pending
    \/ PollStream
    \/ PollStream_pending

Next ==
    \/ QueueTask
    \/ \E b \in config.elsewhere : PushElsewhere(b)
    \/ \E a \in config.announcements : Receive(a.block, a.source)
    \/ \E i \in 1..Len(requests) :
          \E blocks \in {<<>>} \cup verify(requests[i]) : Answer(i, blocks)
    \/ \E p \in Peers : AddPeer(p)
    \/ \E c \in Callers, b \in config.resolve : ResolveBlock(c, b)
    \/ Take
    \/ PushBlock
    \/ ProcessPush

Spec == Init /\ [][Next]_vars

(***************************************************************************)
(* Woken tasks are polled, locks are handed on, pushes end, and requests   *)
(* are answered or time out.  Nothing else has to happen.                  *)
(***************************************************************************)
AnswerSome ==
    \E i \in 1..Len(requests) : \E blocks \in {<<>>} \cup verify(requests[i]) : Answer(i, blocks)

Fairness ==
    /\ WF_vars(QueueTask)
    /\ WF_vars(Take)
    /\ WF_vars(PushBlock)
    /\ WF_vars(ProcessPush)
    /\ WF_vars(AnswerSome)

FairSpec == Spec /\ Fairness

-----------------------------------------------------------------------------
(* Properties.                                                             *)

Sources == [requested : BOOLEAN, peer : {{}} \cup {{p} : p \in Peers}]
Entries == [block : Blocks, source : Sources]

(* Type correctness of the queue, the request component and the syncer. *)
TypeOK ==
    /\ BlocksAssumption
    /\ config \in Configurations
    /\ known \subseteq Blocks /\ head \in known
    /\ stream \in Seq(Entries)
    /\ peers \subseteq Peers /\ released \subseteq Peers
    /\ buffer \subseteq Entries
    /\ heights \subseteq {Number[b] : b \in Blocks}
    /\ {Number[e.block] : e \in buffer} \subseteq heights
    /\ blocks_pending_push \subseteq Blocks
    /\ current_macro_height \in 0..macro_head_number
    /\ pending \subseteq {requests[i].target : i \in DOMAIN requests}
    /\ Len(channel) <= QUEUED_BLOCK_BUFFER_SIZE
    /\ phase \in {"idle", "events", "forks", "requests", "stream"}

(* The lock is free and every event was read. *)
Quiet == phase = "idle" /\ events = <<>>

(***************************************************************************)
(* A block does not stay behind in the buffer: once the events are read,   *)
(* the parent of no buffered block is in the blockchain, although the      *)
(* parent may have been pushed, by the syncer or by another part of the    *)
(* node, between the look at the blockchain and the insertion              *)
(* (check_announced_block, handle_missing_blocks, remove_applicable_blocks).*)
(***************************************************************************)
BufferedAwaitParent ==
    Quiet => \A e \in buffer : Parent[e.block] \notin known

(***************************************************************************)
(* What a buffered block waits for is on its way: as long as no request    *)
(* fails, the first of its ancestors that is not buffered is asked for, or *)
(* is being pushed (buffer_and_request_missing_blocks, RequestRest).       *)
(***************************************************************************)
MissingIsAsked ==
    Quiet /\ ~config.fails =>
        \A e \in buffer :
            LET a == FirstMissing(Queue, e.block)
            IN  \/ a \in pending \cup blocks_pending_push
                \/ (Ancestors[e.block] \ {e.block}) \cap Invalid # {}

(* The blocks on their way to the blockchain. *)
InFlight ==
    UNION {{e.block : e \in Range(channel[i].blocks)} : i \in DOMAIN channel}
    \cup UNION {{e.block : e \in Range(ops[i].todo)} \cup Range(ops[i].adopted)
                 \cup ops[i].invalid : i \in DOMAIN ops}

(***************************************************************************)
(* No hash is left in blocks_pending_push: it is only there while a push   *)
(* of the block is to come or in progress.  A hash that stayed would block *)
(* every later announcement of the block (on_block_processed on each of    *)
(* the paths of process_push_result).                                      *)
(***************************************************************************)
PendingIsInFlight == blocks_pending_push \subseteq InFlight

(***************************************************************************)
(* A peer cannot fill the buffer: at each height it has at most            *)
(* MAX_BUFFERED_PER_PEER_PER_HEIGHT announced blocks                       *)
(* (insert_block_into_buffer).                                             *)
(***************************************************************************)
PeerHasItsShare ==
    \A p \in Peers, n \in heights :
        Cardinality({e \in buffer : /\ e.source = Announced(p)
                                    /\ Number[e.block] = n})
            <= MAX_BUFFERED_PER_PEER_PER_HEIGHT

(***************************************************************************)
(* An honest announcement is never rejected, which would cost its sender:  *)
(* a rejected block is invalid or builds on an invalid block, whatever     *)
(* else was pushed, requested or removed meanwhile (post_validation,       *)
(* remove_invalid_blocks, check_announced_block).                          *)
(***************************************************************************)
HonestNotRejected == \A b \in rejected : Ancestors[b] \cap Invalid # {}

(***************************************************************************)
(* A caller of resolve_block gets its block: when the events are read,     *)
(* nobody waits for a block that entered the blockchain after the call.    *)
(* (A caller that asks for a block which is already there is answered when *)
(* the block is outdated.)                                                 *)
(***************************************************************************)
ResolvedOnceKnown ==
    Quiet => \A w \in pending_requests : w.late \/ w.block \notin known

(***************************************************************************)
(* A peer that is too far ahead or behind leaves the peer list and reaches *)
(* the syncer; between the two its item in the channel or the pending      *)
(* operation stands for it (take_peer, push_queue_result).                 *)
(***************************************************************************)
NoPeerLost ==
    Peers = peers \cup released
            \cup UNION {channel[i].peer : i \in DOMAIN channel}
            \cup UNION {ops[i].peer : i \in DOMAIN ops}

CaughtUp ==
    config.live =>
        \A a \in announced :
            \/ Ancestors[a.block] \cap Invalid # {}
            \/ a.block \in known
            \/ Number[a.block] <= macro_head_number

(***************************************************************************)
(* The node catches up: a valid block that is announced is in the          *)
(* blockchain at last, or a later macro block made it obsolete, as long as *)
(* requests are answered and the block is inside of the window.            *)
(***************************************************************************)
CatchesUp == []<>CaughtUp

(***************************************************************************)
(* "The request failed, remove from the buffer all blocks from the target  *)
(* block chain that errored" (poll_next of the queue): a step that takes a *)
(* failed request leaves no descendant of its target in the buffer whose   *)
(* predecessors were all buffered.  Not so in the code: it removes one     *)
(* successor at each height, and leaves those on a fork beside it.         *)
(***************************************************************************)
FailureClearsDescendants ==
    [][(/\ requests # <<>> /\ requests' = Tail(requests)
        /\ Head(requests).answered /\ Head(requests).blocks = <<>>)
       => \A e \in buffer' : Parent[e.block] # Head(requests).target]_vars

(* "Returns the number of block heights with buffered blocks."  Not so in  *)
(* the code: removing the blocks of a failed request leaves the heights in *)
(* the map, and so does a peer that has its share of a height already.     *)
HeightsHoldBlocks == heights = {Number[e.block] : e \in buffer}

=============================================================================
