----------------------------- MODULE MCLiveness -----------------------------
(***************************************************************************)
(* What must happen eventually, for every part that has a fairness         *)
(* condition, on instances in which nothing prevents it.                   *)
(***************************************************************************)
EXTENDS Integers, Sequences, FiniteSets, TLC

CONSTANTS
    None, Own, Parts    \* the parts that a run is about

VARIABLES part,
    peers, ids_to_request, pending_futures, queued_outputs,
    next_incoming_index, next_outgoing_index, current_peer_index, waker,
    scheduled, polling, next_id, truncated, yielded, churned, config, conn,
    height, events, budget, head, micro, futures, sync, emitted, badpush,
    connected, closing, tip, chain, out, panicked, blamed, dropped, at,
    macro_head, election_head, syncing, asked, headers, requests, banned,
    joins, faults, known, forks, stream, buffer, heights, blocks_pending_push,
    pending_requests, current_macro_height, pending, channel, ops, phase,
    resolved, rejected, released, announced, bc, buffer_size, start_key,
    request, diffs, diff_needed, restarts, left, live_left, macro, live,
    fallen_back, outdated_peers, incompatible_peers, pending_checks,
    accepted_announcements, can_enforce, state_complete, queued, established,
    last_batch_number, synced_validity_window, head_requests,
    head_requests_time, sent, contacts, pool, limits, conns, writer, reader,
    received, now, exchanged, view, calls, actions, task, lib, apps, history

-----------------------------------------------------------------------------
(* Two ids and two peers. *)
SyncQueuePeers == {"p"}

S == INSTANCE SyncQueue WITH
    Peers <- SyncQueuePeers, MaxIds <- 2, Desired <- 2, MIN_ATTEMPTS <- 2,
    MAX_ATTEMPTS <- 2, NoPeer <- "none"

-----------------------------------------------------------------------------
(* A node in the middle of an epoch; a peer on a fork and a    *)
(* request that fails.                                                       *)
HistorySyncBudget(j, f, l, g) == [joins |-> j, faults |-> f, live |-> l, grow |-> g]

Kept(f) == [x \in {"p", "q"} |-> f]

Three ==
    [height |-> ("p" :> 6 @@ "q" :> 3), fork |-> ("p" :> 9 @@ "q" :> 9),
     kept |-> Kept({}), sizes |-> <<1, 2, 2, 3, 1, 2>>, services |-> {"p", "q"},
     head |-> 0, top |-> 6, budget |-> HistorySyncBudget(2, 0, 1, 0)]

Midway ==
    [Three EXCEPT !.height = ("p" :> 4 @@ "q" :> 3), !.kept = Kept({3}), !.sizes = <<1, 3, 2, 5>>,
                  !.head = 1, !.top = 4, !.budget = HistorySyncBudget(2, 0, 1, 0)]

Forked == [Three EXCEPT !.height = ("p" :> 5 @@ "q" :> 6), !.fork = ("p" :> 9 @@ "q" :> 3),
                        !.budget = HistorySyncBudget(2, 1, 0, 0)]

HistorySyncConfigurations == {Midway, Forked}

HistorySyncPeers == {"p", "q"}

H == INSTANCE HistorySync WITH
    Peers <- HistorySyncPeers, B <- 2, CHUNK_SIZE <- 2,
    MAX_REQUEST_EPOCHS <- 2, MAX_CLUSTERS <- 2, MAX_QUEUED_JOBS <- 2,
    NUM_PENDING_BATCH_SETS <- 2, Configurations <- HistorySyncConfigurations

-----------------------------------------------------------------------------
(* A full node, one that was off for a while, and a light node. *)
LightSyncBudget(j, l, f, g) == [joins |-> j, leaves |-> l, faults |-> f, grow |-> g]

Fresh ==
    [kind |-> "full", peers |-> {"p", "q"}, services |-> {"p", "q"}, faulty |-> {},
     tip |-> ("p" :> 5 @@ "q" :> 5), items |-> <<1, 2, 1, 2, 3, 1>>,
     head |-> 0, slots |-> TRUE, stored |-> <<>>, checkpoint |-> None,
     budget |-> LightSyncBudget(2, 0, 0, 1)]

Restarted ==
    [Fresh EXCEPT !.tip = ("p" :> 3 @@ "q" :> 3), !.head = 3, !.slots = FALSE, !.stored = <<3, 1>>]

Light == [Fresh EXCEPT !.kind = "light"]

LightSyncConfigurations == {Fresh, Restarted, Light}

LightSyncPeers == {"p", "q"}

L == INSTANCE LightSync WITH
    Peers <- LightSyncPeers, B <- 2, CHUNK_SIZE <- 2, WINDOW <- 2,
    THRESHOLD <- 1, MAX_EPOCHS_STORED <- 2,
    Configurations <- LightSyncConfigurations

-----------------------------------------------------------------------------
(* Two peers on the same chain or not. *)
Block(n, c) == [number |-> n, chain |-> IF n = 0 THEN None ELSE c]
Chains == {0, 1}

PicoSyncStart == {"p" :> Block(n, 0) @@ "q" :> Block(4, c) : n \in {2, 5}, c \in Chains}

PicoSyncPeers == {"p", "q"}

I == INSTANCE PicoSync WITH
    Peers <- PicoSyncPeers, B <- 3, Start <- PicoSyncStart, MaxHeight <- 6,
    MaxJoins <- 2, MaxFaults <- 1

-----------------------------------------------------------------------------
(* Catching up over a macro block. *)
Announced(p) == [requested |-> FALSE, peer |-> {p}]

BlockQueueBlocks == {"g", "a1", "a2", "a3", "a4", "a5", "b1", "b2", "x2", "x3", "y2"}

BlockQueueNumber == [b \in BlockQueueBlocks |->
    CASE b = "g" -> 0 [] b \in {"a1", "b1"} -> 1 [] b \in {"a2", "b2", "x2", "y2"} -> 2
      [] b \in {"a3", "x3"} -> 3 [] b = "a4" -> 4 [] b = "a5" -> 5]

BlockQueueParent == [b \in BlockQueueBlocks |->
    CASE b = "g" -> "g" [] b \in {"a1", "b1"} -> "g" [] b = "a2" -> "a1"
      [] b = "a3" -> "a2" [] b = "a4" -> "a3" [] b = "a5" -> "a4" [] b = "b2" -> "b1"
      [] b \in {"x2", "y2"} -> "a1" [] b = "x3" -> "x2"]

BlockQueueInvalid == {"x2", "x3", "y2"}

BlockQueueMalformed == {"y2"}

BlockQueueEquivocations == {{"a1", "b1"}}

Gossip(b, p) == [block |-> b, source |-> Announced(p)]

Scenario(announcements, elsewhere) ==
    [announcements |-> announcements, elsewhere |-> elsewhere, resolve |-> {},
     fails |-> FALSE, peers_change |-> FALSE, live |-> FALSE,
     window_ahead_max |-> 6, tolerate_past_max |-> 3]

BlockQueueConfigurations == {[Scenario({Gossip("a5", "p")}, {}) EXCEPT !.live = TRUE]}

BlockQueuePeers == {"p", "q"}

BlockQueueCallers == {"c", "d"}

B == INSTANCE BlockQueue WITH
    Blocks <- BlockQueueBlocks, Genesis <- "g", Number <- BlockQueueNumber,
    Parent <- BlockQueueParent, Invalid <- BlockQueueInvalid,
    Malformed <- BlockQueueMalformed,
    Equivocations <- BlockQueueEquivocations, BlocksPerBatch <- 3,
    Peers <- BlockQueuePeers, Callers <- BlockQueueCallers,
    Configurations <- BlockQueueConfigurations,
    MAX_BUFFERED_PER_PEER_PER_HEIGHT <- 1, NUM_PENDING_BLOCKS <- 2,
    QUEUED_BLOCK_BUFFER_SIZE <- 2

-----------------------------------------------------------------------------
(* The chain grows to a macro block, where the peers are. *)
StateQueueBlocks == {"g", "a1", "a2", "a3", "a4", "b1", "b2", "x2", "x3"}

StateQueueNumber ==
    [b \in StateQueueBlocks |->
        CASE b = "g" -> 0
          [] b \in {"a1", "b1"} -> 1
          [] b \in {"a2", "b2", "x2"} -> 2
          [] b \in {"a3", "x3"} -> 3
          [] b = "a4" -> 4]

StateQueueParent ==
    [b \in StateQueueBlocks |->
        CASE b \in {"g", "a1", "b1"} -> "g"
          [] b \in {"a2", "x2"} -> "a1"
          [] b = "b2" -> "b1"
          [] b = "a3" -> "a2"
          [] b = "x3" -> "x2"
          [] b = "a4" -> "a3"]

StateQueueChanges ==
    [b \in StateQueueBlocks |->
        CASE b = "a1" -> {1, 2}
          [] b \in {"a2", "x2", "x3"} -> {1}
          [] b \in {"a3", "b1", "b2"} -> {2}
          [] b = "a4" -> {1}
          [] b = "g" -> {}]

HeadOf(b) == [type |-> "Head", blocks |-> <<b>>]

Default ==
    [missing |-> 1, deliver |-> {}, serve |-> {}, faults |-> FALSE, restarts |-> 0, live |-> FALSE,
     macro_sync |-> FALSE,      buffer_max |-> 2, window_ahead_max |-> 3, tolerate_past_max |-> 1]

StateQueueConfigurations ==
    {[Default EXCEPT !.deliver = {HeadOf("a1"), HeadOf("a2"), HeadOf("a3")},
                     !.serve = {"a3"}, !.live = TRUE]}

StateQueueInvalid == {"x2", "x3"}

StateQueuePeers == {"p", "q"}

Q == INSTANCE StateQueue WITH
    Blocks <- StateQueueBlocks, Genesis <- "g", Number <- StateQueueNumber,
    Parent <- StateQueueParent, Changes <- StateQueueChanges,
    Invalid <- StateQueueInvalid, BlocksPerBatch <- 3, MaxKey <- 2,
    ChunkSize <- 1, Peers <- StateQueuePeers,
    Configurations <- StateQueueConfigurations

-----------------------------------------------------------------------------
(* A stopped chain ahead of the node. *)
ConsensusPeers == {"p"}

ConsensusConfigurations ==
    {[node |-> "full", min_peers |-> 1, height |-> 1, max_height |-> 3, max_joins |-> ("p" :> 1), peers |-> {"p"},
      leave |-> FALSE, faults |-> FALSE, incompatible |-> FALSE, live_events |-> FALSE,
      live |-> TRUE, heads |-> ("p" :> 3)]}

K == INSTANCE Consensus WITH
    Peers <- ConsensusPeers, BlocksPerBatch <- 2, AcceptanceWindow <- 1,
    MinBlocksEstablished <- 2, Configurations <- ConsensusConfigurations

-----------------------------------------------------------------------------
(* A node that only knows a seed, and nodes that ban a peer. *)
ConnectionPoolBase == [seeds |-> {}, own_addresses |-> {}, own_greater |-> TRUE,
         ip |-> [a \in {"a", "b", "s"} |-> IF a = "s" THEN None ELSE "i"],
         subnet |-> [a \in {"a", "b", "s"} |-> "n"],
         answers |-> [a \in {"a", "b", "s"} |-> IF a = "a" THEN "p" ELSE IF a = "b" THEN "q" ELSE "p"],
         contacts |-> [x \in {"p", "q"} |-> [addresses |-> IF x = "p" THEN {"a"} ELSE {"a", "b"}, useful |-> TRUE]],
         known |-> {}, inbound |-> {}, desired |-> 2, initial |-> 1, count_max |-> 2, per_ip |-> 2,
         per_subnet |-> 3, pending_max |-> 1, dialing_max |-> 1, connections |-> 3, denials |-> FALSE, closes |-> TRUE,
         steady |-> FALSE,
         budget |-> [starts |-> 1, MaliciousPeer |-> 0, GoingOffline |-> 0, Other |-> 0, updates |-> 0, inbound |-> 0]]

Seeded == [ConnectionPoolBase EXCEPT !.seeds = {"s", "b"}, !.steady = TRUE, !.dialing_max = 2]

Banning == [ConnectionPoolBase EXCEPT !.known = {"p"}, !.inbound = {<<"p", "a">>}, !.budget.inbound = 1, !.connections = 2,
                        !.budget.MaliciousPeer = 1, !.desired = 1]

Banning2 == [ConnectionPoolBase EXCEPT !.known = {"p"}, !.inbound = {<<"p", "a">>}, !.budget.inbound = 1, !.connections = 1,
                         !.budget.MaliciousPeer = 2, !.budget.updates = 1, !.budget.starts = 0]

ConnectionPoolConfigurations == {Seeded, Banning2}

C == INSTANCE ConnectionPool WITH
    Configurations <- ConnectionPoolConfigurations, MAX_PEER_FAILURES <- 2,
    MAX_ADDRESS_FAILURES <- 4, RETRY_DOWN <- 2, BAN_TIME <- 2

-----------------------------------------------------------------------------
(* Messages of no, one or three bytes through a stream of three bytes. *)
MessageCodecSizes == {0, 1, 3}

M == INSTANCE MessageCodec WITH
    HEADER_SIZE <- 2, MAX_MESSAGE_SIZE <- 3, CAPACITY <- 3,
    Sizes <- MessageCodecSizes, MAX_SENT <- 3

-----------------------------------------------------------------------------
(* Requests of ours, requests of peers, and queries of the DHT. *)
EmptyMap == [k \in {} |-> 0]

Limit(max, window) == [max |-> max, window |-> window]

NetworkTaskBase == [peers |-> {"p"}, calls |-> <<>>, events_max |-> 0, conns_max |-> 1, open_max |-> 2,
         time_max |-> 0, services |-> [p \in {"p", "q"} |-> {"h"}], dht_quorum |-> 2,
         records |-> {}, ready_max |-> 0, modes |-> FALSE, dht_put_limit |-> Limit(2, 2),
         attempts_max |-> 0, addresses |-> {}, in_use |-> {}, topics |-> EmptyMap,
         messages |-> EmptyMap, types |-> EmptyMap, inbound |-> EmptyMap, buffer_size |-> 1,
         drops |-> FALSE, closes |-> FALSE, exchanges |-> FALSE, dialer |-> {FALSE},
         cache_expires |-> FALSE]

Plain(kind) == [kind |-> kind, after |-> {}, impatient |-> FALSE, peer |-> "p", services |-> {"h"},
                min |-> 2, key |-> "k", record |-> None, topic |-> "t", type |-> "a",
                request |-> 1, addresses |-> <<>>]

Hasty(kind) == [Plain(kind) EXCEPT !.impatient = TRUE]

After(c, cs) == [c EXCEPT !.after = cs]

Asking == [NetworkTaskBase EXCEPT !.closes = TRUE,
    !.calls = <<Hasty("request"), Plain("request"), Hasty("request"), Plain("publish")>>]

In(type, body) == [peer |-> "p", type |-> type, body |-> body]

Serving == [NetworkTaskBase EXCEPT !.drops = TRUE, !.closes = TRUE,
    !.types = ("a" :> [limit |-> Limit(2, 2), responds |-> TRUE]),
    !.inbound = <<In("a", "good"), In("a", "bad"), In("a", "good")>>,
    !.calls = <<Plain("receive"), [After(Plain("respond"), {1}) EXCEPT !.request = 1],
                [After(Plain("respond"), {1}) EXCEPT !.request = 3], After(Plain("receive"), {1, 2})>>]

Rec(timestamp, valid) == [key |-> "k", timestamp |-> timestamp, valid |-> valid]

Querying == [NetworkTaskBase EXCEPT !.records = {Rec(1, TRUE), Rec(2, TRUE), Rec(3, FALSE)},
    !.calls = <<Plain("dht_get"), Hasty("dht_get")>>]

NetworkTaskConfigurations == {Asking, Querying}

N == INSTANCE NetworkTask WITH
    Configurations <- NetworkTaskConfigurations

-----------------------------------------------------------------------------
(* In each behaviour one part takes steps; the variables of the others are idle. *)
LivenessInit ==
    \/ /\ part = "queue" /\ part \in Parts
       /\ S!Init
       /\ config = None /\ conn = None /\ height = None /\ events = None /\
          budget = None /\ head = None /\ micro = None /\ futures = None /\
          sync = None /\ emitted = None /\ badpush = None /\
          connected = None /\ closing = None /\ tip = None /\
          chain = None /\ out = None /\ panicked = None /\ blamed = None /\
          dropped = None /\ at = None /\ macro_head = None /\
          election_head = None /\ syncing = None /\ asked = None /\
          headers = None /\ requests = None /\ banned = None /\
          joins = None /\ faults = None /\ known = None /\ forks = None /\
          stream = None /\ buffer = None /\ heights = None /\
          blocks_pending_push = None /\ pending_requests = None /\
          current_macro_height = None /\ pending = None /\
          channel = None /\ ops = None /\ phase = None /\
          resolved = None /\ rejected = None /\ released = None /\
          announced = None /\ bc = None /\ buffer_size = None /\
          start_key = None /\ request = None /\ diffs = None /\
          diff_needed = None /\ restarts = None /\ left = None /\
          live_left = None /\ macro = None /\ live = None /\
          fallen_back = None /\ outdated_peers = None /\
          incompatible_peers = None /\ pending_checks = None /\
          accepted_announcements = None /\ can_enforce = None /\
          state_complete = None /\ queued = None /\ established = None /\
          last_batch_number = None /\ synced_validity_window = None /\
          head_requests = None /\ head_requests_time = None /\
          sent = None /\ contacts = None /\ pool = None /\ limits = None /\
          conns = None /\ writer = None /\ reader = None /\
          received = None /\ now = None /\ exchanged = None /\
          view = None /\ calls = None /\ actions = None /\ task = None /\
          lib = None /\ apps = None /\ history = None
    \/ /\ part = "history" /\ part \in Parts
       /\ H!Init
       /\ peers = None /\ ids_to_request = None /\
          pending_futures = None /\ queued_outputs = None /\
          next_incoming_index = None /\ next_outgoing_index = None /\
          current_peer_index = None /\ waker = None /\ scheduled = None /\
          polling = None /\ next_id = None /\ truncated = None /\
          yielded = None /\ churned = None /\ connected = None /\
          closing = None /\ tip = None /\ chain = None /\ out = None /\
          panicked = None /\ blamed = None /\ dropped = None /\
          at = None /\ macro_head = None /\ election_head = None /\
          syncing = None /\ asked = None /\ headers = None /\
          requests = None /\ banned = None /\ joins = None /\
          faults = None /\ known = None /\ forks = None /\ stream = None /\
          buffer = None /\ heights = None /\ blocks_pending_push = None /\
          pending_requests = None /\ current_macro_height = None /\
          pending = None /\ channel = None /\ ops = None /\ phase = None /\
          resolved = None /\ rejected = None /\ released = None /\
          announced = None /\ bc = None /\ buffer_size = None /\
          start_key = None /\ request = None /\ diffs = None /\
          diff_needed = None /\ restarts = None /\ left = None /\
          live_left = None /\ macro = None /\ live = None /\
          fallen_back = None /\ outdated_peers = None /\
          incompatible_peers = None /\ pending_checks = None /\
          accepted_announcements = None /\ can_enforce = None /\
          state_complete = None /\ queued = None /\ established = None /\
          last_batch_number = None /\ synced_validity_window = None /\
          head_requests = None /\ head_requests_time = None /\
          sent = None /\ contacts = None /\ pool = None /\ limits = None /\
          conns = None /\ writer = None /\ reader = None /\
          received = None /\ now = None /\ exchanged = None /\
          view = None /\ calls = None /\ actions = None /\ task = None /\
          lib = None /\ apps = None /\ history = None
    \/ /\ part = "light" /\ part \in Parts
       /\ L!Init
       /\ peers = None /\ ids_to_request = None /\
          pending_futures = None /\ queued_outputs = None /\
          next_incoming_index = None /\ next_outgoing_index = None /\
          current_peer_index = None /\ waker = None /\ scheduled = None /\
          polling = None /\ next_id = None /\ truncated = None /\
          yielded = None /\ churned = None /\ conn = None /\
          height = None /\ head = None /\ micro = None /\ futures = None /\
          emitted = None /\ badpush = None /\ at = None /\
          macro_head = None /\ election_head = None /\ syncing = None /\
          asked = None /\ headers = None /\ requests = None /\
          banned = None /\ joins = None /\ faults = None /\ known = None /\
          forks = None /\ stream = None /\ buffer = None /\
          heights = None /\ blocks_pending_push = None /\
          pending_requests = None /\ current_macro_height = None /\
          pending = None /\ channel = None /\ ops = None /\ phase = None /\
          resolved = None /\ rejected = None /\ released = None /\
          announced = None /\ bc = None /\ buffer_size = None /\
          start_key = None /\ request = None /\ diffs = None /\
          diff_needed = None /\ restarts = None /\ left = None /\
          live_left = None /\ macro = None /\ live = None /\
          fallen_back = None /\ outdated_peers = None /\
          incompatible_peers = None /\ pending_checks = None /\
          accepted_announcements = None /\ can_enforce = None /\
          state_complete = None /\ queued = None /\ established = None /\
          last_batch_number = None /\ synced_validity_window = None /\
          head_requests = None /\ head_requests_time = None /\
          sent = None /\ contacts = None /\ pool = None /\ limits = None /\
          conns = None /\ writer = None /\ reader = None /\
          received = None /\ now = None /\ exchanged = None /\
          view = None /\ calls = None /\ actions = None /\ task = None /\
          lib = None /\ apps = None /\ history = None
    \/ /\ part = "pico" /\ part \in Parts
       /\ I!Init
       /\ peers = None /\ ids_to_request = None /\
          pending_futures = None /\ queued_outputs = None /\
          next_incoming_index = None /\ next_outgoing_index = None /\
          current_peer_index = None /\ waker = None /\ scheduled = None /\
          polling = None /\ next_id = None /\ truncated = None /\
          yielded = None /\ churned = None /\ config = None /\
          conn = None /\ height = None /\ budget = None /\ head = None /\
          micro = None /\ futures = None /\ sync = None /\
          emitted = None /\ badpush = None /\ closing = None /\
          tip = None /\ chain = None /\ panicked = None /\ blamed = None /\
          dropped = None /\ known = None /\ forks = None /\
          stream = None /\ buffer = None /\ heights = None /\
          blocks_pending_push = None /\ pending_requests = None /\
          current_macro_height = None /\ pending = None /\
          channel = None /\ ops = None /\ phase = None /\
          resolved = None /\ rejected = None /\ released = None /\
          announced = None /\ bc = None /\ buffer_size = None /\
          start_key = None /\ request = None /\ diffs = None /\
          diff_needed = None /\ restarts = None /\ left = None /\
          live_left = None /\ macro = None /\ live = None /\
          fallen_back = None /\ outdated_peers = None /\
          incompatible_peers = None /\ pending_checks = None /\
          accepted_announcements = None /\ can_enforce = None /\
          state_complete = None /\ queued = None /\ established = None /\
          last_batch_number = None /\ synced_validity_window = None /\
          head_requests = None /\ head_requests_time = None /\
          sent = None /\ contacts = None /\ pool = None /\ limits = None /\
          conns = None /\ writer = None /\ reader = None /\
          received = None /\ now = None /\ exchanged = None /\
          view = None /\ calls = None /\ actions = None /\ task = None /\
          lib = None /\ apps = None /\ history = None
    \/ /\ part = "blocks" /\ part \in Parts
       /\ B!Init
       /\ ids_to_request = None /\ pending_futures = None /\
          queued_outputs = None /\ next_incoming_index = None /\
          next_outgoing_index = None /\ current_peer_index = None /\
          waker = None /\ scheduled = None /\ polling = None /\
          next_id = None /\ truncated = None /\ yielded = None /\
          churned = None /\ conn = None /\ height = None /\
          budget = None /\ micro = None /\ futures = None /\ sync = None /\
          emitted = None /\ badpush = None /\ connected = None /\
          closing = None /\ tip = None /\ chain = None /\ out = None /\
          panicked = None /\ blamed = None /\ dropped = None /\
          at = None /\ macro_head = None /\ election_head = None /\
          syncing = None /\ asked = None /\ headers = None /\
          banned = None /\ joins = None /\ faults = None /\ bc = None /\
          buffer_size = None /\ start_key = None /\ request = None /\
          diffs = None /\ diff_needed = None /\ restarts = None /\
          left = None /\ live_left = None /\ macro = None /\ live = None /\
          fallen_back = None /\ outdated_peers = None /\
          incompatible_peers = None /\ pending_checks = None /\
          accepted_announcements = None /\ can_enforce = None /\
          state_complete = None /\ queued = None /\ established = None /\
          last_batch_number = None /\ synced_validity_window = None /\
          head_requests = None /\ head_requests_time = None /\
          sent = None /\ contacts = None /\ pool = None /\ limits = None /\
          conns = None /\ writer = None /\ reader = None /\
          received = None /\ now = None /\ exchanged = None /\
          view = None /\ calls = None /\ actions = None /\ task = None /\
          lib = None /\ apps = None /\ history = None
    \/ /\ part = "state" /\ part \in Parts
       /\ Q!Init
       /\ ids_to_request = None /\ pending_futures = None /\
          queued_outputs = None /\ next_incoming_index = None /\
          next_outgoing_index = None /\ current_peer_index = None /\
          waker = None /\ scheduled = None /\ polling = None /\
          next_id = None /\ truncated = None /\ yielded = None /\
          churned = None /\ conn = None /\ height = None /\
          budget = None /\ head = None /\ micro = None /\ futures = None /\
          sync = None /\ emitted = None /\ badpush = None /\
          connected = None /\ closing = None /\ tip = None /\
          chain = None /\ out = None /\ blamed = None /\ dropped = None /\
          at = None /\ macro_head = None /\ election_head = None /\
          syncing = None /\ asked = None /\ headers = None /\
          requests = None /\ banned = None /\ joins = None /\
          faults = None /\ known = None /\ forks = None /\ stream = None /\
          heights = None /\ pending_requests = None /\ pending = None /\
          channel = None /\ phase = None /\ resolved = None /\
          announced = None /\ left = None /\ live_left = None /\
          macro = None /\ live = None /\ fallen_back = None /\
          outdated_peers = None /\ incompatible_peers = None /\
          pending_checks = None /\ accepted_announcements = None /\
          can_enforce = None /\ state_complete = None /\ queued = None /\
          established = None /\ last_batch_number = None /\
          synced_validity_window = None /\ head_requests = None /\
          head_requests_time = None /\ sent = None /\ contacts = None /\
          pool = None /\ limits = None /\ conns = None /\ writer = None /\
          reader = None /\ received = None /\ now = None /\
          exchanged = None /\ view = None /\ calls = None /\
          actions = None /\ task = None /\ lib = None /\ apps = None /\
          history = None
    \/ /\ part = "consensus" /\ part \in Parts
       /\ K!Init
       /\ peers = None /\ ids_to_request = None /\
          pending_futures = None /\ queued_outputs = None /\
          next_incoming_index = None /\ next_outgoing_index = None /\
          current_peer_index = None /\ waker = None /\ scheduled = None /\
          polling = None /\ next_id = None /\ truncated = None /\
          yielded = None /\ churned = None /\ conn = None /\
          events = None /\ budget = None /\ head = None /\ micro = None /\
          futures = None /\ sync = None /\ emitted = None /\
          badpush = None /\ closing = None /\ tip = None /\ chain = None /\
          out = None /\ panicked = None /\ blamed = None /\
          dropped = None /\ at = None /\ macro_head = None /\
          election_head = None /\ syncing = None /\ asked = None /\
          headers = None /\ requests = None /\ banned = None /\
          faults = None /\ known = None /\ forks = None /\ stream = None /\
          buffer = None /\ heights = None /\ blocks_pending_push = None /\
          pending_requests = None /\ current_macro_height = None /\
          pending = None /\ channel = None /\ ops = None /\
          resolved = None /\ rejected = None /\ released = None /\
          announced = None /\ bc = None /\ buffer_size = None /\
          start_key = None /\ request = None /\ diffs = None /\
          diff_needed = None /\ restarts = None /\ contacts = None /\
          pool = None /\ limits = None /\ conns = None /\ writer = None /\
          reader = None /\ received = None /\ now = None /\
          exchanged = None /\ view = None /\ calls = None /\
          actions = None /\ task = None /\ lib = None /\ apps = None /\
          history = None
    \/ /\ part = "pool" /\ part \in Parts
       /\ C!Init
       /\ peers = None /\ ids_to_request = None /\
          pending_futures = None /\ queued_outputs = None /\
          next_incoming_index = None /\ next_outgoing_index = None /\
          current_peer_index = None /\ waker = None /\ scheduled = None /\
          polling = None /\ next_id = None /\ truncated = None /\
          yielded = None /\ churned = None /\ conn = None /\
          height = None /\ events = None /\ head = None /\ micro = None /\
          futures = None /\ sync = None /\ emitted = None /\
          badpush = None /\ connected = None /\ closing = None /\
          tip = None /\ chain = None /\ out = None /\ panicked = None /\
          blamed = None /\ dropped = None /\ at = None /\
          macro_head = None /\ election_head = None /\ syncing = None /\
          asked = None /\ headers = None /\ requests = None /\
          banned = None /\ joins = None /\ faults = None /\ known = None /\
          forks = None /\ stream = None /\ buffer = None /\
          heights = None /\ blocks_pending_push = None /\
          pending_requests = None /\ current_macro_height = None /\
          pending = None /\ channel = None /\ ops = None /\ phase = None /\
          resolved = None /\ rejected = None /\ released = None /\
          announced = None /\ bc = None /\ buffer_size = None /\
          start_key = None /\ request = None /\ diffs = None /\
          diff_needed = None /\ restarts = None /\ left = None /\
          live_left = None /\ macro = None /\ live = None /\
          fallen_back = None /\ outdated_peers = None /\
          incompatible_peers = None /\ pending_checks = None /\
          accepted_announcements = None /\ can_enforce = None /\
          state_complete = None /\ queued = None /\ established = None /\
          last_batch_number = None /\ synced_validity_window = None /\
          head_requests = None /\ head_requests_time = None /\
          sent = None /\ writer = None /\ reader = None /\
          received = None /\ now = None /\ exchanged = None /\
          view = None /\ calls = None /\ actions = None /\ task = None /\
          lib = None /\ apps = None /\ history = None
    \/ /\ part = "codec" /\ part \in Parts
       /\ M!Init
       /\ peers = None /\ ids_to_request = None /\
          pending_futures = None /\ queued_outputs = None /\
          next_incoming_index = None /\ next_outgoing_index = None /\
          current_peer_index = None /\ waker = None /\ scheduled = None /\
          polling = None /\ next_id = None /\ truncated = None /\
          yielded = None /\ churned = None /\ config = None /\
          conn = None /\ height = None /\ events = None /\ budget = None /\
          head = None /\ micro = None /\ futures = None /\ sync = None /\
          emitted = None /\ badpush = None /\ connected = None /\
          closing = None /\ tip = None /\ chain = None /\ out = None /\
          panicked = None /\ blamed = None /\ dropped = None /\
          at = None /\ macro_head = None /\ election_head = None /\
          syncing = None /\ asked = None /\ headers = None /\
          requests = None /\ banned = None /\ joins = None /\
          faults = None /\ known = None /\ forks = None /\ buffer = None /\
          heights = None /\ blocks_pending_push = None /\
          pending_requests = None /\ current_macro_height = None /\
          pending = None /\ channel = None /\ ops = None /\ phase = None /\
          resolved = None /\ rejected = None /\ released = None /\
          announced = None /\ bc = None /\ buffer_size = None /\
          start_key = None /\ request = None /\ diffs = None /\
          diff_needed = None /\ restarts = None /\ left = None /\
          live_left = None /\ macro = None /\ live = None /\
          fallen_back = None /\ outdated_peers = None /\
          incompatible_peers = None /\ pending_checks = None /\
          accepted_announcements = None /\ can_enforce = None /\
          state_complete = None /\ queued = None /\ established = None /\
          last_batch_number = None /\ synced_validity_window = None /\
          head_requests = None /\ head_requests_time = None /\
          contacts = None /\ pool = None /\ limits = None /\
          conns = None /\ now = None /\ exchanged = None /\ view = None /\
          calls = None /\ actions = None /\ task = None /\ lib = None /\
          apps = None /\ history = None
    \/ /\ part = "task" /\ part \in Parts
       /\ N!Init
       /\ peers = None /\ ids_to_request = None /\
          pending_futures = None /\ queued_outputs = None /\
          next_incoming_index = None /\ next_outgoing_index = None /\
          current_peer_index = None /\ waker = None /\ scheduled = None /\
          polling = None /\ next_id = None /\ truncated = None /\
          yielded = None /\ churned = None /\ conn = None /\
          height = None /\ budget = None /\ head = None /\ micro = None /\
          futures = None /\ sync = None /\ emitted = None /\
          badpush = None /\ closing = None /\ tip = None /\ chain = None /\
          out = None /\ panicked = None /\ blamed = None /\
          dropped = None /\ at = None /\ macro_head = None /\
          election_head = None /\ syncing = None /\ asked = None /\
          headers = None /\ requests = None /\ banned = None /\
          joins = None /\ faults = None /\ known = None /\ forks = None /\
          stream = None /\ buffer = None /\ heights = None /\
          blocks_pending_push = None /\ pending_requests = None /\
          current_macro_height = None /\ pending = None /\
          channel = None /\ ops = None /\ phase = None /\
          resolved = None /\ rejected = None /\ released = None /\
          announced = None /\ bc = None /\ buffer_size = None /\
          start_key = None /\ request = None /\ diffs = None /\
          diff_needed = None /\ restarts = None /\ left = None /\
          live_left = None /\ macro = None /\ live = None /\
          fallen_back = None /\ outdated_peers = None /\
          incompatible_peers = None /\ pending_checks = None /\
          accepted_announcements = None /\ can_enforce = None /\
          state_complete = None /\ queued = None /\ established = None /\
          last_batch_number = None /\ synced_validity_window = None /\
          head_requests = None /\ head_requests_time = None /\
          sent = None /\ contacts = None /\ pool = None /\ writer = None /\
          reader = None /\ received = None

LivenessNext ==
    \/ /\ part = "queue" /\ S!Next
       /\ UNCHANGED <<part, config, conn, height, events, budget, head, micro, futures,
          sync, emitted, badpush, connected, closing, tip, chain, out,
          panicked, blamed, dropped, at, macro_head, election_head, syncing,
          asked, headers, requests, banned, joins, faults, known, forks,
          stream, buffer, heights, blocks_pending_push, pending_requests,
          current_macro_height, pending, channel, ops, phase, resolved,
          rejected, released, announced, bc, buffer_size, start_key, request,
          diffs, diff_needed, restarts, left, live_left, macro, live,
          fallen_back, outdated_peers, incompatible_peers, pending_checks,
          accepted_announcements, can_enforce, state_complete, queued,
          established, last_batch_number, synced_validity_window,
          head_requests, head_requests_time, sent, contacts, pool, limits,
          conns, writer, reader, received, now, exchanged, view, calls,
          actions, task, lib, apps, history>>
    \/ /\ part = "history" /\ H!Next
       /\ UNCHANGED <<part, peers, ids_to_request, pending_futures, queued_outputs,
          next_incoming_index, next_outgoing_index, current_peer_index, waker,
          scheduled, polling, next_id, truncated, yielded, churned, connected,
          closing, tip, chain, out, panicked, blamed, dropped, at, macro_head,
          election_head, syncing, asked, headers, requests, banned, joins,
          faults, known, forks, stream, buffer, heights, blocks_pending_push,
          pending_requests, current_macro_height, pending, channel, ops,
          phase, resolved, rejected, released, announced, bc, buffer_size,
          start_key, request, diffs, diff_needed, restarts, left, live_left,
          macro, live, fallen_back, outdated_peers, incompatible_peers,
          pending_checks, accepted_announcements, can_enforce, state_complete,
          queued, established, last_batch_number, synced_validity_window,
          head_requests, head_requests_time, sent, contacts, pool, limits,
          conns, writer, reader, received, now, exchanged, view, calls,
          actions, task, lib, apps, history>>
    \/ /\ part = "light" /\ L!Next
       /\ UNCHANGED <<part, peers, ids_to_request, pending_futures, queued_outputs,
          next_incoming_index, next_outgoing_index, current_peer_index, waker,
          scheduled, polling, next_id, truncated, yielded, churned, conn,
          height, head, micro, futures, emitted, badpush, at, macro_head,
          election_head, syncing, asked, headers, requests, banned, joins,
          faults, known, forks, stream, buffer, heights, blocks_pending_push,
          pending_requests, current_macro_height, pending, channel, ops,
          phase, resolved, rejected, released, announced, bc, buffer_size,
          start_key, request, diffs, diff_needed, restarts, left, live_left,
          macro, live, fallen_back, outdated_peers, incompatible_peers,
          pending_checks, accepted_announcements, can_enforce, state_complete,
          queued, established, last_batch_number, synced_validity_window,
          head_requests, head_requests_time, sent, contacts, pool, limits,
          conns, writer, reader, received, now, exchanged, view, calls,
          actions, task, lib, apps, history>>
    \/ /\ part = "pico" /\ I!Next
       /\ UNCHANGED <<part, peers, ids_to_request, pending_futures, queued_outputs,
          next_incoming_index, next_outgoing_index, current_peer_index, waker,
          scheduled, polling, next_id, truncated, yielded, churned, config,
          conn, height, budget, head, micro, futures, sync, emitted, badpush,
          closing, tip, chain, panicked, blamed, dropped, known, forks,
          stream, buffer, heights, blocks_pending_push, pending_requests,
          current_macro_height, pending, channel, ops, phase, resolved,
          rejected, released, announced, bc, buffer_size, start_key, request,
          diffs, diff_needed, restarts, left, live_left, macro, live,
          fallen_back, outdated_peers, incompatible_peers, pending_checks,
          accepted_announcements, can_enforce, state_complete, queued,
          established, last_batch_number, synced_validity_window,
          head_requests, head_requests_time, sent, contacts, pool, limits,
          conns, writer, reader, received, now, exchanged, view, calls,
          actions, task, lib, apps, history>>
    \/ /\ part = "blocks" /\ B!Next
       /\ UNCHANGED <<part, ids_to_request, pending_futures, queued_outputs,
          next_incoming_index, next_outgoing_index, current_peer_index, waker,
          scheduled, polling, next_id, truncated, yielded, churned, conn,
          height, budget, micro, futures, sync, emitted, badpush, connected,
          closing, tip, chain, out, panicked, blamed, dropped, at, macro_head,
          election_head, syncing, asked, headers, banned, joins, faults, bc,
          buffer_size, start_key, request, diffs, diff_needed, restarts, left,
          live_left, macro, live, fallen_back, outdated_peers,
          incompatible_peers, pending_checks, accepted_announcements,
          can_enforce, state_complete, queued, established, last_batch_number,
          synced_validity_window, head_requests, head_requests_time, sent,
          contacts, pool, limits, conns, writer, reader, received, now,
          exchanged, view, calls, actions, task, lib, apps, history>>
    \/ /\ part = "state" /\ Q!Next
       /\ UNCHANGED <<part, ids_to_request, pending_futures, queued_outputs,
          next_incoming_index, next_outgoing_index, current_peer_index, waker,
          scheduled, polling, next_id, truncated, yielded, churned, conn,
          height, budget, head, micro, futures, sync, emitted, badpush,
          connected, closing, tip, chain, out, blamed, dropped, at,
          macro_head, election_head, syncing, asked, headers, requests,
          banned, joins, faults, known, forks, stream, heights,
          pending_requests, pending, channel, phase, resolved, announced,
          left, live_left, macro, live, fallen_back, outdated_peers,
          incompatible_peers, pending_checks, accepted_announcements,
          can_enforce, state_complete, queued, established, last_batch_number,
          synced_validity_window, head_requests, head_requests_time, sent,
          contacts, pool, limits, conns, writer, reader, received, now,
          exchanged, view, calls, actions, task, lib, apps, history>>
    \/ /\ part = "consensus" /\ K!Next
       /\ UNCHANGED <<part, peers, ids_to_request, pending_futures, queued_outputs,
          next_incoming_index, next_outgoing_index, current_peer_index, waker,
          scheduled, polling, next_id, truncated, yielded, churned, conn,
          events, budget, head, micro, futures, sync, emitted, badpush,
          closing, tip, chain, out, panicked, blamed, dropped, at, macro_head,
          election_head, syncing, asked, headers, requests, banned, faults,
          known, forks, stream, buffer, heights, blocks_pending_push,
          pending_requests, current_macro_height, pending, channel, ops,
          resolved, rejected, released, announced, bc, buffer_size, start_key,
          request, diffs, diff_needed, restarts, contacts, pool, limits,
          conns, writer, reader, received, now, exchanged, view, calls,
          actions, task, lib, apps, history>>
    \/ /\ part = "pool" /\ C!Next
       /\ UNCHANGED <<part, peers, ids_to_request, pending_futures, queued_outputs,
          next_incoming_index, next_outgoing_index, current_peer_index, waker,
          scheduled, polling, next_id, truncated, yielded, churned, conn,
          height, events, head, micro, futures, sync, emitted, badpush,
          connected, closing, tip, chain, out, panicked, blamed, dropped, at,
          macro_head, election_head, syncing, asked, headers, requests,
          banned, joins, faults, known, forks, stream, buffer, heights,
          blocks_pending_push, pending_requests, current_macro_height,
          pending, channel, ops, phase, resolved, rejected, released,
          announced, bc, buffer_size, start_key, request, diffs, diff_needed,
          restarts, left, live_left, macro, live, fallen_back, outdated_peers,
          incompatible_peers, pending_checks, accepted_announcements,
          can_enforce, state_complete, queued, established, last_batch_number,
          synced_validity_window, head_requests, head_requests_time, sent,
          writer, reader, received, now, exchanged, view, calls, actions,
          task, lib, apps, history>>
    \/ /\ part = "codec" /\ M!Next
       /\ UNCHANGED <<part, peers, ids_to_request, pending_futures, queued_outputs,
          next_incoming_index, next_outgoing_index, current_peer_index, waker,
          scheduled, polling, next_id, truncated, yielded, churned, config,
          conn, height, events, budget, head, micro, futures, sync, emitted,
          badpush, connected, closing, tip, chain, out, panicked, blamed,
          dropped, at, macro_head, election_head, syncing, asked, headers,
          requests, banned, joins, faults, known, forks, buffer, heights,
          blocks_pending_push, pending_requests, current_macro_height,
          pending, channel, ops, phase, resolved, rejected, released,
          announced, bc, buffer_size, start_key, request, diffs, diff_needed,
          restarts, left, live_left, macro, live, fallen_back, outdated_peers,
          incompatible_peers, pending_checks, accepted_announcements,
          can_enforce, state_complete, queued, established, last_batch_number,
          synced_validity_window, head_requests, head_requests_time, contacts,
          pool, limits, conns, now, exchanged, view, calls, actions, task,
          lib, apps, history>>
    \/ /\ part = "task" /\ N!Next
       /\ UNCHANGED <<part, peers, ids_to_request, pending_futures, queued_outputs,
          next_incoming_index, next_outgoing_index, current_peer_index, waker,
          scheduled, polling, next_id, truncated, yielded, churned, conn,
          height, budget, head, micro, futures, sync, emitted, badpush,
          closing, tip, chain, out, panicked, blamed, dropped, at, macro_head,
          election_head, syncing, asked, headers, requests, banned, joins,
          faults, known, forks, stream, buffer, heights, blocks_pending_push,
          pending_requests, current_macro_height, pending, channel, ops,
          phase, resolved, rejected, released, announced, bc, buffer_size,
          start_key, request, diffs, diff_needed, restarts, left, live_left,
          macro, live, fallen_back, outdated_peers, incompatible_peers,
          pending_checks, accepted_announcements, can_enforce, state_complete,
          queued, established, last_batch_number, synced_validity_window,
          head_requests, head_requests_time, sent, contacts, pool, writer,
          reader, received>>

all_vars ==
    <<part, peers, ids_to_request, pending_futures, queued_outputs,
      next_incoming_index, next_outgoing_index, current_peer_index, waker,
      scheduled, polling, next_id, truncated, yielded, churned, config, conn,
      height, events, budget, head, micro, futures, sync, emitted, badpush,
      connected, closing, tip, chain, out, panicked, blamed, dropped, at,
      macro_head, election_head, syncing, asked, headers, requests, banned,
      joins, faults, known, forks, stream, buffer, heights,
      blocks_pending_push, pending_requests, current_macro_height, pending,
      channel, ops, phase, resolved, rejected, released, announced, bc,
      buffer_size, start_key, request, diffs, diff_needed, restarts, left,
      live_left, macro, live, fallen_back, outdated_peers, incompatible_peers,
      pending_checks, accepted_announcements, can_enforce, state_complete,
      queued, established, last_batch_number, synced_validity_window,
      head_requests, head_requests_time, sent, contacts, pool, limits, conns,
      writer, reader, received, now, exchanged, view, calls, actions, task,
      lib, apps, history>>

LivenessSpec == LivenessInit /\ [][LivenessNext]_all_vars

queue_vars == <<peers, ids_to_request, pending_futures, queued_outputs,
                next_incoming_index, next_outgoing_index, current_peer_index,
                waker, scheduled, polling, next_id, truncated, yielded,
                churned>>

blocks_vars == <<config, known, head, events, forks, stream, peers, buffer,
                 heights, blocks_pending_push, pending_requests,
                 current_macro_height, pending, requests, channel, ops, phase,
                 resolved, rejected, released, announced>>

state_vars == <<config, bc, events, buffer, buffer_size, current_macro_height,
                start_key, request, diffs, diff_needed, blocks_pending_push,
                peers, ops, released, rejected, panicked, restarts>>

consensus_vars == <<config, phase, connected, joins, left, live_left, macro,
                    live, fallen_back, outdated_peers, incompatible_peers,
                    pending_checks, accepted_announcements, height,
                    can_enforce, state_complete, queued, established,
                    last_batch_number, synced_validity_window, head_requests,
                    head_requests_time, sent>>

codec_vars == <<writer, stream, reader, sent, received>>

(* The fairness of the part that takes steps.  A part has up to six sources *)
(* of work.  For some of them weak fairness is stated with the condition   *)
(* under which there is work, for others strong fairness is needed: the    *)
(* conditions of all parts are put together here, so that there are as     *)
(* many as one part has.                                                   *)
Sources == {"events", "cluster", "jobs", "outdated", "p", "q"}

Due(l) ==
    \/ part = "history" /\ H!Due(l)
    \/ part = "pico" /\ l \in {"events", "p", "q"} /\ I!Due(l)
    \/ part = "light" /\ l = "events" /\ L!Due
    \/ part = "pool" /\ l = "events" /\ C!Due
    \/ part = "task" /\ l = "events" /\ N!Due
    \/ part = "state" /\ l = "jobs" /\ Q!PushDue

ConsensusStep(l) ==
    \/ l = "events" /\ K!AcceptedQueuedBlocks
    \/ l = "cluster" /\ K!HeadBlockAnswered
    \/ l = "jobs" /\ K!HeadsFinished
    \/ l = "p" /\ K!PollMacro("p")
    \/ l = "q" /\ K!HeadAnswered("p")

StateStep(l) ==
    \/ l = "events" /\ Q!PollSomeBlock
    \/ l = "cluster" /\ Q!PollDiff

Able(l) ==
    \/ part = "consensus" /\ ENABLED <<ConsensusStep(l)>>_consensus_vars
    \/ part = "state" /\ ENABLED <<StateStep(l)>>_state_vars

Handles(l) ==
    \/ part = "history" /\ H!Handles(l)
    \/ part = "pico" /\ I!Handles(l)
    \/ part = "light" /\ l = "events" /\ L!Handles
    \/ part = "pool" /\ l = "events" /\ C!Handles
    \/ part = "task" /\ l = "events" /\ N!Handles
    \/ part = "state" /\ (StateStep(l) \/ (l = "jobs" /\ Q!Push))
    \/ part = "consensus" /\ ConsensusStep(l)

LivenessFairness ==
    /\ \A l \in Sources :
         ([]<>(~Due(l)) /\ <>[](~Able(l))) \/ []<><<Handles(l)>>_all_vars
    /\ WF_queue_vars(part = "queue" /\ (S!PollReady \/ S!PollPending))
    /\ WF_queue_vars(part = "queue" /\ scheduled /\ S!Poll)
    /\ WF_queue_vars(part = "queue" /\ S!AnswerStep)
    /\ WF_blocks_vars(part = "blocks" /\ B!QueueTask)
    /\ WF_blocks_vars(part = "blocks" /\ B!Take)
    /\ WF_blocks_vars(part = "blocks" /\ B!PushBlock)
    /\ WF_blocks_vars(part = "blocks" /\ B!ProcessPush)
    /\ WF_blocks_vars(part = "blocks" /\ B!AnswerSome)
    /\ WF_state_vars(part = "state" /\ Q!PollEvent)
    /\ WF_state_vars(part = "state" /\ Q!RequestChunk)
    /\ WF_state_vars(part = "state" /\ Q!AnswerSomeChunk)
    /\ WF_state_vars(part = "state" /\ Q!PollChunk)
    /\ WF_state_vars(part = "state" /\ Q!AddSomePeer)
    /\ WF_state_vars(part = "state" /\ Q!AnswerSomeDiffs)
    /\ WF_consensus_vars(part = "consensus" /\ K!Poll)
    /\ WF_consensus_vars(part = "consensus" /\ K!SyncState)
    /\ WF_consensus_vars(part = "consensus" /\ K!Timeout)
    /\ WF_consensus_vars(part = "consensus" /\ K!Join("p"))
    /\ WF_codec_vars(part = "codec" /\ M!Woken)
    /\ WF_codec_vars(part = "codec" /\ M!poll_next)
    /\ WF_codec_vars(part = "codec" /\ M!WakeReader)

LivenessFairSpec == LivenessSpec /\ LivenessFairness

-----------------------------------------------------------------------------
(* Once the chain stops growing and peers answer, the syncs come to their  *)
(* end and stay there.  History sync catches up with the peers it keeps,   *)
(* also when a request fails or a peer is on a fork.  Light sync emits all *)
(* peers if no request fails and no peer leaves.  Pico sync emits all      *)
(* peers, or falls back, except a peer that stays at our election block    *)
(* while we are past it.  The download of the state completes, and         *)
(* consensus is established.                                               *)
SyncCompletes ==
    <>[](/\ part = "history" => H!CaughtUp
         /\ part = "light" => L!SettledIfQuiet
         /\ part = "pico" => I!AllEmitted
         /\ part = "state" => Q!StateSynced
         /\ part = "consensus" => K!EstablishedIfLive)

(* Again and again nothing is left waiting: ids of the sync queue are      *)
(* resolved, the block queue has caught up, bans have ended, callers of    *)
(* the swarm task have their answers, and messages have arrived unless a   *)
(* short write put their writer to sleep.  A pool whose seed dials are not *)
(* denied keeps dialing.                                                   *)
NothingHangs ==
    /\ []<>(/\ part = "queue" => S!AllResolved
            /\ part = "blocks" => B!CaughtUp
            /\ part = "pool" => C!NothingBanned
            /\ part = "codec" => M!AllArrived
            /\ part = "task" => N!NothingPending)
    /\ []<>(part = "pool" => C!Trying)
=============================================================================
