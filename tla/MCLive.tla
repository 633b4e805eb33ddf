------------------------------- MODULE MCLive -------------------------------
(***************************************************************************)
(* Instances of the parts of a node that follow the chain: the block queue *)
(* and the state queue of the live sync, the consensus task, what peers    *)
(* ask of each other, and the events sent to subscribed peers.             *)
(***************************************************************************)
EXTENDS Integers, Sequences, FiniteSets, TLC

CONSTANTS
    None, Parts    \* the parts that a run is about

VARIABLES part,
    config, known, head, events, forks, stream, peers, buffer, heights,
    blocks_pending_push, pending_requests, current_macro_height, pending,
    requests, channel, ops, phase, resolved, rejected, released, announced,
    bc, buffer_size, start_key, request, diffs, diff_needed, panicked,
    restarts, connected, joins, left, live_left, macro, live, fallen_back,
    outdated_peers, incompatible_peers, pending_checks,
    accepted_announcements, height, can_enforce, state_complete, queued,
    established, last_batch_number, synced_validity_window, head_requests,
    head_requests_time, sent, stored, call, subscribed_peers, subscriptions,
    chain, next, blockchain_events, network_events, receipts, budget

-----------------------------------------------------------------------------
(***************************************************************************)
(* Batches of three blocks.  The chain g a1 a2 a3 a4 a5, where a3 is a     *)
(* macro block, a fork b1 b2 of one producer with a1, an invalid block x2  *)
(* on a1 with its successor x3, and a malformed block y2 on a1.  The       *)
(* scenarios: catching up over a macro block; forks that other parts of    *)
(* the node push meanwhile; invalid blocks; failing requests and callers   *)
(* that wait for a block; peers that are too far ahead or behind.          *)
(***************************************************************************)
Announced(p) == [requested |-> FALSE, peer |-> {p}]

BlockQueueBlocks == {"g", "a1", "a2", "a3", "a4", "a5", "b1", "b2", "x2", "x3", "y2"}
BlockQueueNumber == [b \in BlockQueueBlocks |->
    CASE b = "g" -> 0 [] b \in {"a1", "b1"} -> 1 [] b \in {"a2", "b2", "x2", "y2"} -> 2
      [] b \in {"a3", "x3"} -> 3 [] b = "a4" -> 4 [] b = "a5" -> 5]
BlockQueueParent == [b \in BlockQueueBlocks |->
    CASE b = "g" -> "g" [] b \in {"a1", "b1"} -> "g" [] b = "a2" -> "a1"
      [] b = "a3" -> "a2" [] b = "a4" -> "a3" [] b = "a5" -> "a4" [] b = "b2" -> "b1"
      [] b \in {"x2", "y2"} -> "a1" [] b = "x3" -> "x2"]
BlockQueueInvalid == {"x2", "x3", "y2"}
BlockQueueMalformed == {"y2"}
BlockQueueEquivocations == {{"a1", "b1"}}

Gossip(b, p) == [block |-> b, source |-> Announced(p)]

Scenario(announcements, elsewhere) ==
    [announcements |-> announcements, elsewhere |-> elsewhere, resolve |-> {},
     fails |-> FALSE, peers_change |-> FALSE, live |-> FALSE,
     window_ahead_max |-> 6, tolerate_past_max |-> 3]

BlockQueueConfigurations ==
    {[Scenario({Gossip("a5", "p")}, {}) EXCEPT !.live = TRUE],
     Scenario({Gossip("a2", "p"), Gossip("b2", "p"), Gossip("y2", "q")}, {"b1"}),
     [Scenario({Gossip("x3", "q"), Gossip("a3", "p")}, {"a1"})
        EXCEPT !.fails = TRUE],
     [Scenario({Gossip("a3", "p")}, {})
        EXCEPT !.resolve = {"a1"}, !.fails = TRUE],
     [Scenario({Gossip("a3", "p"), Gossip("a1", "q"), Gossip("b1", "p")}, {"a1", "a2"})
        EXCEPT !.window_ahead_max = 1, !.tolerate_past_max = 0, !.peers_change = TRUE]}

BlockQueuePeers == {"p", "q"}

BlockQueueCallers == {"c", "d"}

B == INSTANCE BlockQueue WITH
    Blocks <- BlockQueueBlocks, Genesis <- "g", Number <- BlockQueueNumber,
    Parent <- BlockQueueParent, Invalid <- BlockQueueInvalid,
    Malformed <- BlockQueueMalformed,
    Equivocations <- BlockQueueEquivocations, BlocksPerBatch <- 3,
    Peers <- BlockQueuePeers, Callers <- BlockQueueCallers,
    Configurations <- BlockQueueConfigurations,
    MAX_BUFFERED_PER_PEER_PER_HEIGHT <- 1, NUM_PENDING_BLOCKS <- 2,
    QUEUED_BLOCK_BUFFER_SIZE <- 2

-----------------------------------------------------------------------------
(***************************************************************************)
(* Two keys in chunks of one, macro block 3; the chain a1..a4, the fork    *)
(* b1, b2, and the invalid x2 on a1.                                       *)
(***************************************************************************)
Complete == 3

StateQueueBlocks == {"g", "a1", "a2", "a3", "a4", "b1", "b2", "x2", "x3"}

StateQueueNumber ==
    [b \in StateQueueBlocks |->
        CASE b = "g" -> 0
          [] b \in {"a1", "b1"} -> 1
          [] b \in {"a2", "b2", "x2"} -> 2
          [] b \in {"a3", "x3"} -> 3
          [] b = "a4" -> 4]

StateQueueParent ==
    [b \in StateQueueBlocks |->
        CASE b \in {"g", "a1", "b1"} -> "g"
          [] b \in {"a2", "x2"} -> "a1"
          [] b = "b2" -> "b1"
          [] b = "a3" -> "a2"
          [] b = "x3" -> "x2"
          [] b = "a4" -> "a3"]

StateQueueChanges ==
    [b \in StateQueueBlocks |->
        CASE b = "a1" -> {1, 2}
          [] b \in {"a2", "x2", "x3"} -> {1}
          [] b \in {"a3", "b1", "b2"} -> {2}
          [] b = "a4" -> {1}
          [] b = "g" -> {}]

HeadOf(b) == [type |-> "Head", blocks |-> <<b>>]
Buffered(list) == [type |-> "Buffered", blocks |-> list]
Missing(list) == [type |-> "Missing", blocks |-> list]

Default ==
    [missing |-> 1, deliver |-> {}, serve |-> {}, faults |-> FALSE, restarts |-> 0, live |-> FALSE,
     macro_sync |-> FALSE,      buffer_max |-> 2, window_ahead_max |-> 3, tolerate_past_max |-> 1]

StateQueueConfigurations ==
    { \* the chain with chunks of several heads and faults
      [Default EXCEPT !.deliver = {HeadOf("a1"), Missing(<<"a2", "a3">>), HeadOf("a4")},
                      !.serve = {"g", "a2", "a3"}, !.faults = TRUE],
      \* a fork while the state is incomplete
      [Default EXCEPT !.deliver = {HeadOf("a1"), HeadOf("b1"), HeadOf("b2"), Buffered(<<"a2", "b1">>),
                                   HeadOf("a2"), HeadOf("a3")},
                      !.serve = {"g", "b2"}],
      \* restarts
      [Default EXCEPT !.deliver = {HeadOf("a1"), HeadOf("b1"), HeadOf("b2"), HeadOf("a2")},
                      !.serve = {"a1", "b1", "b2"}, !.restarts = 1],
      \* invalid blocks, and a macro sync that drops the state
      [Default EXCEPT !.deliver = {HeadOf("a1"), Missing(<<"x2", "x3">>), HeadOf("a4")},
                      !.serve = {"a3"}, !.missing = Complete, !.macro_sync = TRUE],
      \* a peer with chunks of a block on top of an invalid one
      [Default EXCEPT !.deliver = {HeadOf("a1"), Missing(<<"x2">>), HeadOf("a2")},
                      !.serve = {"x3", "a2"}, !.buffer_max = 3],
      \* peers too far ahead and behind
      [Default EXCEPT !.deliver = {HeadOf("a1"), HeadOf("a2"), HeadOf("a3")},
                      !.serve = {"g", "a3"}, !.window_ahead_max = 1, !.tolerate_past_max = 0],
      \* the chain grows to a macro block, where the peers are
      [Default EXCEPT !.deliver = {HeadOf("a1"), HeadOf("a2"), HeadOf("a3")},
                      !.serve = {"a3"}, !.live = TRUE] }

StateQueueInvalid == {"x2", "x3"}

StateQueuePeers == {"p", "q"}

Q == INSTANCE StateQueue WITH
    Blocks <- StateQueueBlocks, Genesis <- "g", Number <- StateQueueNumber,
    Parent <- StateQueueParent, Changes <- StateQueueChanges,
    Invalid <- StateQueueInvalid, BlocksPerBatch <- 3, MaxKey <- 2,
    ChunkSize <- 1, Peers <- StateQueuePeers,
    Configurations <- StateQueueConfigurations

-----------------------------------------------------------------------------
(* Small networks around one consensus task. *)
ConsensusPeers == {"p", "q"}
ConsensusPlain == [node |-> "full", min_peers |-> 1, height |-> 1, max_height |-> 4, max_joins |-> ("p" :> 1 @@ "q" :> 1), peers |-> {"p", "q"},
          leave |-> FALSE, faults |-> FALSE, incompatible |-> FALSE, live_events |-> FALSE,
          live |-> FALSE, heads |-> ("p" :> 2 @@ "q" :> 4)]

(* A stopped chain ahead of the node. *)
Stopped == [ConsensusPlain EXCEPT !.peers = {"p"}, !.live = TRUE, !.max_height = 3, !.heads = ("p" :> 3 @@ "q" :> 3)]
(* Two peers needed; peers leave and return. *)
Churn == [ConsensusPlain EXCEPT !.node = "light", !.leave = TRUE, !.max_joins["p"] = 2, !.min_peers = 2, !.max_height = 1,
                       !.heads = ("p" :> 1 @@ "q" :> 1)]
(* Incompatible peers, requests that fail. *)
Faults == [ConsensusPlain EXCEPT !.peers = {"p"}, !.max_joins["p"] = 2, !.faults = TRUE, !.incompatible = TRUE, !.height = 0, !.max_height = 2,
                        !.heads = ("p" :> 2 @@ "q" :> 2)]
(* A seed node that may start alone; peers too far ahead or behind for the live sync. *)
Seed == [ConsensusPlain EXCEPT !.node = "light", !.min_peers = 0, !.live_events = TRUE, !.height = 0, !.max_height = 2,
                      !.heads = ("p" :> 2 @@ "q" :> 0)]
(* A pico node whose peers conflict. *)
Pico == [ConsensusPlain EXCEPT !.node = "pico", !.height = 0, !.max_height = 1, !.heads = ("p" :> 1 @@ "q" :> 1)]

(* One peer, while macro blocks take the state and the validity window away. *)
Incomplete == [ConsensusPlain EXCEPT !.peers = {"p"}, !.leave = TRUE, !.max_joins["p"] = 2, !.live_events = TRUE,
                            !.max_height = 2, !.heads = ("p" :> 2 @@ "q" :> 0)]

ConsensusConfigurations == {Incomplete, Stopped, Churn, Faults, Seed, Pico}

K == INSTANCE Consensus WITH
    Peers <- ConsensusPeers, BlocksPerBatch <- 2, AcceptanceWindow <- 1,
    MinBlocksEstablished <- 2, Configurations <- ConsensusConfigurations

-----------------------------------------------------------------------------
(***************************************************************************)
(* Batches of three blocks, epochs of six.  Lookups from epoch 5, where a  *)
(* block of epoch 1 needs a hop; heads around a checkpoint with a fork and *)
(* around the election block of epoch 5; a chain of seven epochs.          *)
(***************************************************************************)
Lookup(tx, n) == [tx |-> tx, number |-> n]
RequestsPlain == [server |-> 28, client |-> 28, max |-> 31, forks |-> {29, 30},
          peers |-> {"server", "other"}, trie |-> FALSE, lookups |-> {}, heights |-> 28 .. 31]

(* Epoch 4 ends at 28; the checkpoint of epoch 5 is 31, its election 34. *)
Forks == [RequestsPlain EXCEPT !.lookups =
            {{Lookup(29, 29), Lookup(30, 30)}, {Lookup(30, 29)}, {Lookup(31, 30)}, {Lookup(30, 0)}}]
Old == [RequestsPlain EXCEPT !.server = 30, !.client = 31, !.heights = {4, 10, 16, 28, 31}, !.lookups =
            {{Lookup(7, 7), Lookup(10, 10)}, {Lookup(8, 0)}, {Lookup(16, 16), Lookup(28, 28)}, {Lookup(4, 4), Lookup(31, 31)}}]
Boundary == [RequestsPlain EXCEPT !.server = 31, !.client = 31, !.max = 36, !.forks = {35, 36},
            !.peers = {"server"}, !.lookups = {{Lookup(29, 29), Lookup(32, 32)}, {Lookup(33, 33)}, {Lookup(34, 34)}}]
Trie == [RequestsPlain EXCEPT !.trie = TRUE]
Epochs == [RequestsPlain EXCEPT !.server = 4, !.client = 4, !.max = 46, !.forks = {8, 9}, !.peers = {"server"}]

RequestsConfigurations == {Forks, Old, Boundary, Trie, Epochs}

R == INSTANCE Requests WITH
    blocks_per_batch <- 3, batches_per_epoch <- 2, genesis_block_number <- 4,
    transaction_validity_window <- 2, JAIL_EPOCHS <- 1, U32_MAX <- 1000,
    MaxEpoch <- 10, Configurations <- RequestsConfigurations,
    MAX_BLOCK_DRIFT <- 2

-----------------------------------------------------------------------------
(* Three peers of which two fit, and three blocks of which the last is a macro *)
(* block, with three addresses of which a peer may have two.                   *)
NoStaker == "none"

Tx(s, r, k) == [sender |-> s, recipient |-> r, add_stake |-> k]
RemoteEventsBlockTxs == << <<Tx("a", "b", NoStaker)>>, <<Tx("x", "staking", "c")>>, << >> >>

RemoteEventsPeers == {"p", "q", "r"}

RemoteEventsConfigurations ==
    {[peers |-> {"p", "q", "r"}, blocks |-> 0, requests |-> 3],
     [peers |-> {"p", "q"}, blocks |-> 3, requests |-> 2]}

RemoteEventsAddresses == {"a", "b", "c"}

RemoteEventsAddressLists == {{"a"}, {"b", "c"}}

E == INSTANCE RemoteEvents WITH
    Peers <- RemoteEventsPeers, Addresses <- RemoteEventsAddresses,
    AddressLists <- RemoteEventsAddressLists,
    BlockTxs <- RemoteEventsBlockTxs, MacroBlocks <- {3}, MAX_SUBSCRIBED_PEERS <- 2,
    MAX_SUBSCRIBED_PEERS_ADDRESSES <- 2, Configurations <- RemoteEventsConfigurations

-----------------------------------------------------------------------------
(* In each behaviour one part takes steps; the variables of the others are idle. *)
LiveInit ==
    \/ /\ part = "blocks" /\ part \in Parts
       /\ B!Init
       /\ bc = None /\ buffer_size = None /\ start_key = None /\
          request = None /\ diffs = None /\ diff_needed = None /\
          panicked = None /\ restarts = None /\ connected = None /\
          joins = None /\ left = None /\ live_left = None /\
          macro = None /\ live = None /\ fallen_back = None /\
          outdated_peers = None /\ incompatible_peers = None /\
          pending_checks = None /\ accepted_announcements = None /\
          height = None /\ can_enforce = None /\ state_complete = None /\
          queued = None /\ established = None /\
          last_batch_number = None /\ synced_validity_window = None /\
          head_requests = None /\ head_requests_time = None /\
          sent = None /\ stored = None /\ call = None /\
          subscribed_peers = None /\ subscriptions = None /\
          chain = None /\ next = None /\ blockchain_events = None /\
          network_events = None /\ receipts = None /\ budget = None
    \/ /\ part = "state" /\ part \in Parts
       /\ Q!Init
       /\ known = None /\ head = None /\ forks = None /\ stream = None /\
          heights = None /\ pending_requests = None /\ pending = None /\
          requests = None /\ channel = None /\ phase = None /\
          resolved = None /\ announced = None /\ connected = None /\
          joins = None /\ left = None /\ live_left = None /\
          macro = None /\ live = None /\ fallen_back = None /\
          outdated_peers = None /\ incompatible_peers = None /\
          pending_checks = None /\ accepted_announcements = None /\
          height = None /\ can_enforce = None /\ state_complete = None /\
          queued = None /\ established = None /\
          last_batch_number = None /\ synced_validity_window = None /\
          head_requests = None /\ head_requests_time = None /\
          sent = None /\ stored = None /\ call = None /\
          subscribed_peers = None /\ subscriptions = None /\
          chain = None /\ next = None /\ blockchain_events = None /\
          network_events = None /\ receipts = None /\ budget = None
    \/ /\ part = "consensus" /\ part \in Parts
       /\ K!Init
       /\ known = None /\ head = None /\ events = None /\ forks = None /\
          stream = None /\ peers = None /\ buffer = None /\
          heights = None /\ blocks_pending_push = None /\
          pending_requests = None /\ current_macro_height = None /\
          pending = None /\ requests = None /\ channel = None /\
          ops = None /\ resolved = None /\ rejected = None /\
          released = None /\ announced = None /\ bc = None /\
          buffer_size = None /\ start_key = None /\ request = None /\
          diffs = None /\ diff_needed = None /\ panicked = None /\
          restarts = None /\ stored = None /\ call = None /\
          subscribed_peers = None /\ subscriptions = None /\
          chain = None /\ next = None /\ blockchain_events = None /\
          network_events = None /\ receipts = None /\ budget = None
    \/ /\ part = "requests" /\ part \in Parts
       /\ R!Init
       /\ known = None /\ events = None /\ forks = None /\ stream = None /\
          peers = None /\ buffer = None /\ heights = None /\
          blocks_pending_push = None /\ pending_requests = None /\
          current_macro_height = None /\ pending = None /\
          requests = None /\ channel = None /\ ops = None /\
          phase = None /\ resolved = None /\ rejected = None /\
          released = None /\ announced = None /\ bc = None /\
          buffer_size = None /\ start_key = None /\ request = None /\
          diffs = None /\ diff_needed = None /\ panicked = None /\
          restarts = None /\ connected = None /\ joins = None /\
          left = None /\ live_left = None /\ macro = None /\ live = None /\
          fallen_back = None /\ outdated_peers = None /\
          incompatible_peers = None /\ pending_checks = None /\
          accepted_announcements = None /\ height = None /\
          can_enforce = None /\ state_complete = None /\ queued = None /\
          established = None /\ last_batch_number = None /\
          synced_validity_window = None /\ head_requests = None /\
          head_requests_time = None /\ sent = None /\
          subscribed_peers = None /\ subscriptions = None /\
          chain = None /\ next = None /\ blockchain_events = None /\
          network_events = None /\ receipts = None /\ budget = None
    \/ /\ part = "events" /\ part \in Parts
       /\ E!Init
       /\ known = None /\ head = None /\ events = None /\
          stream = None /\ peers = None /\ buffer = None /\
          heights = None /\ blocks_pending_push = None /\
          pending_requests = None /\ current_macro_height = None /\
          pending = None /\ channel = None /\ ops = None /\ phase = None /\
          resolved = None /\ rejected = None /\ released = None /\
          announced = None /\ bc = None /\ buffer_size = None /\
          start_key = None /\ request = None /\ diffs = None /\
          diff_needed = None /\ restarts = None /\
          joins = None /\ left = None /\ live_left = None /\
          macro = None /\ live = None /\ fallen_back = None /\
          outdated_peers = None /\ incompatible_peers = None /\
          pending_checks = None /\ accepted_announcements = None /\
          height = None /\ can_enforce = None /\ state_complete = None /\
          queued = None /\ established = None /\
          last_batch_number = None /\ synced_validity_window = None /\
          head_requests = None /\ head_requests_time = None /\
          sent = None /\ call = None

LiveNext ==
    \/ /\ part = "blocks" /\ B!Next
       /\ UNCHANGED <<part, bc, buffer_size, start_key, request, diffs, diff_needed,
          panicked, restarts, connected, joins, left, live_left, macro, live,
          fallen_back, outdated_peers, incompatible_peers, pending_checks,
          accepted_announcements, height, can_enforce, state_complete, queued,
          established, last_batch_number, synced_validity_window,
          head_requests, head_requests_time, sent, stored, call,
          subscribed_peers, subscriptions, chain, next, blockchain_events,
          network_events, receipts, budget>>
    \/ /\ part = "state" /\ Q!Next
       /\ UNCHANGED <<part, known, head, forks, stream, heights, pending_requests,
          pending, requests, channel, phase, resolved, announced, connected,
          joins, left, live_left, macro, live, fallen_back, outdated_peers,
          incompatible_peers, pending_checks, accepted_announcements, height,
          can_enforce, state_complete, queued, established, last_batch_number,
          synced_validity_window, head_requests, head_requests_time, sent,
          stored, call, subscribed_peers, subscriptions, chain, next,
          blockchain_events, network_events, receipts, budget>>
    \/ /\ part = "consensus" /\ K!Next
       /\ UNCHANGED <<part, known, head, events, forks, stream, peers, buffer, heights,
          blocks_pending_push, pending_requests, current_macro_height,
          pending, requests, channel, ops, resolved, rejected, released,
          announced, bc, buffer_size, start_key, request, diffs, diff_needed,
          panicked, restarts, stored, call, subscribed_peers, subscriptions,
          chain, next, blockchain_events, network_events, receipts, budget>>
    \/ /\ part = "requests" /\ R!Next
       /\ UNCHANGED <<part, known, events, forks, stream, peers, buffer, heights,
          blocks_pending_push, pending_requests, current_macro_height,
          pending, requests, channel, ops, phase, resolved, rejected,
          released, announced, bc, buffer_size, start_key, request, diffs,
          diff_needed, panicked, restarts, connected, joins, left, live_left,
          macro, live, fallen_back, outdated_peers, incompatible_peers,
          pending_checks, accepted_announcements, height, can_enforce,
          state_complete, queued, established, last_batch_number,
          synced_validity_window, head_requests, head_requests_time, sent,
          subscribed_peers, subscriptions, chain, next, blockchain_events,
          network_events, receipts, budget>>
    \/ /\ part = "events" /\ E!Next
       /\ UNCHANGED <<part, known, head, events, stream, peers, buffer, heights,
          blocks_pending_push, pending_requests, current_macro_height,
          pending, channel, ops, phase, resolved, rejected, released,
          announced, bc, buffer_size, start_key, request, diffs, diff_needed,
          restarts, joins, left, live_left, macro, live,
          fallen_back, outdated_peers, incompatible_peers, pending_checks,
          accepted_announcements, height, can_enforce, state_complete, queued,
          established, last_batch_number, synced_validity_window,
          head_requests, head_requests_time, sent, call>>

all_vars ==
    <<part, config, known, head, events, forks, stream, peers, buffer,
      heights, blocks_pending_push, pending_requests, current_macro_height,
      pending, requests, channel, ops, phase, resolved, rejected, released,
      announced, bc, buffer_size, start_key, request, diffs, diff_needed,
      panicked, restarts, connected, joins, left, live_left, macro, live,
      fallen_back, outdated_peers, incompatible_peers, pending_checks,
      accepted_announcements, height, can_enforce, state_complete, queued,
      established, last_batch_number, synced_validity_window, head_requests,
      head_requests_time, sent, stored, call, subscribed_peers, subscriptions,
      chain, next, blockchain_events, network_events, receipts, budget>>

LiveSpec == LiveInit /\ [][LiveNext]_all_vars

-----------------------------------------------------------------------------
(* A block in the buffer of the block queue waits for its parent; unless   *)
(* requests fail, what it waits for is asked for or being pushed. A peer   *)
(* keeps to its share of the buffer, honest blocks are not rejected, a     *)
(* block that comes after it was asked for is resolved, no hash stays      *)
(* pending and no peer is lost.                                            *)
BlocksAwaitParents ==
    part = "blocks" =>
       B!TypeOK /\ B!BufferedAwaitParent /\ B!MissingIsAsked /\ B!PendingIsInFlight /\
       B!PeerHasItsShare /\ B!HonestNotRejected /\ B!ResolvedOnceKnown /\
       B!NoPeerLost

(* While chunks and diffs arrive between blocks and rebranches, the        *)
(* partial state is always the state of the head, a state reported as      *)
(* complete is and no rebranch can change that, what is pending is on its  *)
(* way, and the buffered chunks are counted: exactly until blocks are      *)
(* rejected, and never too low.                                            *)
StateFollowsHead ==
    part = "state" =>
       Q!TypeOK /\ Q!NoPanic /\ Q!StateFollowsHead /\ Q!CompleteIsFinal /\
       Q!PendingIsOnItsWay /\ Q!BufferIsCounted

(* The established flag and the events that tell it agree; the flag of the *)
(* validity window claims no window that is gone, an event that denies the *)
(* window is true; and no peer gets lost between the sync stages.  An      *)
(* event may claim a window that is not there, see EventTellsWindow.       *)
ConsensusIsTold ==
    part = "consensus" =>
       K!TypeOK /\ K!EventsFollowFlag /\ K!WindowIsThere /\
       K!MissingWindowIsTold /\ K!NoPeerLost

(* A client takes only what the chain contains from the answers to its     *)
(* requests; chains of macro blocks and missing blocks connect to what was *)
(* asked for; no full node is banned for the state it proves.  The answers *)
(* of a full node about transactions verify while it is in the client's    *)
(* epoch and at most one batch past the block asked for, and for finalised *)
(* epochs except for transactions in election blocks.                      *)
AnswersAreProven ==
    part = "requests" =>
       /\ R!TypeOK /\ R!OnlyProvenFacts /\ R!HonestAnswersVerify /\ R!HonestNotBanned
       \* properties of the heads alone, which move whether there is a call or not
       /\ call = R!NoCall =>
             /\ R!BlocksAreProven /\ R!MacroChainProgress /\ R!MissingBlocksConnect
             /\ head["client"] = head["server"] => R!FinalizedAreProven

(* The two maps of subscriptions agree and stay within the limits however  *)
(* peers subscribe, unsubscribe and leave, blocks of an inferior fork are  *)
(* not reported, and a new block is found in the chain store when it is    *)
(* reported unless it was replaced and its batch finalised before.         *)
SubscribersAgree ==
    part = "events" =>
       E!TypeOK /\ E!MapsAgree /\ E!WithinLimits /\ E!NoReceiptOfFork /\
       E!PanicsOnFinalizedOnly

(* Consensus is only established on the evidence of announced blocks or of *)
(* the head of a peer and with a complete state, a reported block reaches  *)
(* every peer subscribed to an account in it, and the wait for the block   *)
(* of a proof ends after MAX_BLOCK_DRIFT blocks.                           *)
ReportsAreTrue ==
    [][/\ part = "consensus" => K!EvidenceStep
       /\ part = "requests" => R!BoundedStep
       /\ part = "events" => E!ReportStep]_all_vars
=============================================================================
