----------------------------- MODULE MCNetwork ------------------------------
(***************************************************************************)
(* Instances of the network's parts: the connection pool, peer discovery,  *)
(* the message codec and the network task, and of the aggregation of votes *)
(* and the buffer of proposals of a validator.                             *)
(***************************************************************************)
EXTENDS Integers, Sequences, FiniteSets, TLC

CONSTANTS
    None, Own, Parts    \* the parts that a run is about

VARIABLES part,
    config, contacts, pool, limits, conns, budget, now, nodes, wire, seen,
    writer, stream, reader, sent, received, exchanged, connected, events,
    view, calls, actions, task, lib, apps, history, store, levels, pending,
    verification, final_result, emitted, net, head, buffer, resolving, peers,
    disconnects, wakers, woken, live, phase, verdict

-----------------------------------------------------------------------------
(***************************************************************************)
(* Instances of ConnectionPool: a node that finds its peers through a seed   *)
(* and through its contact book, one with small limits and many connections, *)
(* one that bans, and one peer with five connections.                        *)
(***************************************************************************)
ConnectionPoolBase == [seeds |-> {}, own_addresses |-> {}, own_greater |-> TRUE,
         ip |-> [a \in {"a", "b", "s"} |-> IF a = "s" THEN None ELSE "i"],
         subnet |-> [a \in {"a", "b", "s"} |-> "n"],
         answers |-> [a \in {"a", "b", "s"} |-> IF a = "a" THEN "p" ELSE IF a = "b" THEN "q" ELSE "p"],
         contacts |-> [x \in {"p", "q"} |-> [addresses |-> IF x = "p" THEN {"a"} ELSE {"a", "b"}, useful |-> TRUE]],
         known |-> {}, inbound |-> {}, desired |-> 2, initial |-> 1, count_max |-> 2, per_ip |-> 2,
         per_subnet |-> 3, pending_max |-> 1, dialing_max |-> 1, connections |-> 3, denials |-> FALSE, closes |-> TRUE,
         steady |-> FALSE,
         budget |-> [starts |-> 1, MaliciousPeer |-> 0, GoingOffline |-> 0, Other |-> 0, updates |-> 0, inbound |-> 0]]

(* A node that only knows a seed, which may not answer.                      *)
Seeded == [ConnectionPoolBase EXCEPT !.seeds = {"s", "b"}, !.steady = TRUE, !.dialing_max = 2]

(* Two contacts: one is reached at two addresses, the other answers at one   *)
(* of them.                                                                  *)
Contacts2 == [ConnectionPoolBase EXCEPT !.known = {"p", "q"}, !.denials = TRUE]

Limited == [ConnectionPoolBase EXCEPT !.inbound = {<<"p", "a">>, <<"q", "b">>}, !.budget.inbound = 3, !.known = {"p"},
                        !.count_max = 1, !.connections = 3, !.denials = FALSE, !.budget.starts = 1]

(* A contact is banned while it is dialled and while it connects to us.      *)
Banning == [ConnectionPoolBase EXCEPT !.known = {"p"}, !.inbound = {<<"p", "a">>}, !.budget.inbound = 1, !.connections = 2,
                        !.budget.MaliciousPeer = 1, !.desired = 1]

(* Two bans, the later one while the first is running.                       *)
Banning2 == [ConnectionPoolBase EXCEPT !.known = {"p"}, !.inbound = {<<"p", "a">>}, !.budget.inbound = 1, !.connections = 1,
                         !.budget.MaliciousPeer = 2, !.budget.updates = 1, !.budget.starts = 0]

Crowded == [ConnectionPoolBase EXCEPT !.inbound = {<<"p", "a">>}, !.per_ip = 6, !.per_subnet = 6, !.count_max = 6, !.pending_max = 6,
                        !.connections = 5, !.budget.inbound = 5, !.budget.starts = 0]

Offline == [ConnectionPoolBase EXCEPT !.known = {"q"}, !.budget.starts = 2, !.budget.GoingOffline = 1, !.budget.Other = 1]

ConnectionPoolConfigurations == {Seeded, Contacts2, Limited, Banning, Banning2, Crowded, Offline}

C == INSTANCE ConnectionPool WITH
    Configurations <- ConnectionPoolConfigurations, MAX_PEER_FAILURES <- 2,
    MAX_ADDRESS_FAILURES <- 4, RETRY_DOWN <- 2, BAN_TIME <- 2

-----------------------------------------------------------------------------
(***************************************************************************)
(* Two nodes that exchange the contacts of two others: promptly over some    *)
(* updates, slowly, with a loss and a new connection, with changing          *)
(* addresses, and of two networks.                                           *)
(***************************************************************************)
Nodes == {"a", "b"}

Contact(p, t, s) == [peer |-> p, timestamp |-> t, services |-> s, addresses |-> <<"wss">>]

NoBook == [p \in {} |-> None]

Node == [genesis_hash |-> "g", skew |-> 0, update_limit |-> 2, update_interval |-> 2, min_send_update_interval |-> 1,
         min_recv_update_interval |-> 1, required_services |-> {"full"}, services |-> {"full"},
         only_secure_ws_connections |-> FALSE, addresses |-> <<"ws">>, house_keeping_interval |-> 1,
         book |-> NoBook]

OnlyX == [p \in {"x"} |-> Contact("x", 0, {"full"})]

XandY == [p \in {"x", "y"} |-> Contact(p, 1, IF p = "x" THEN {"full"} ELSE {"validator"})]

DiscoveryBase == [node |-> [n \in Nodes |-> Node], prompt |-> TRUE, max_time |-> 6,
         budget |-> [connections |-> 1, losses |-> 0, addresses |-> 0]]

(* Updates until the contacts of the others have aged out.                   *)
Prompt == [DiscoveryBase EXCEPT !.node["a"].book = XandY, !.node["b"].book = OnlyX, !.node["b"].services = {"full", "validator"}]

(* Different limits and filters; a does not offer what b requires.           *)
Mixed == [DiscoveryBase EXCEPT !.node["a"].book = XandY, !.node["a"].update_limit = 1, !.node["a"].services = {},
                      !.node["b"].update_limit = 3, !.node["b"].update_interval = 1,
                      !.node["a"].only_secure_ws_connections = TRUE, !.node["b"].addresses = <<"wss">>]

Slow == [DiscoveryBase EXCEPT !.prompt = FALSE, !.max_time = 5, !.node["a"].book = OnlyX]

Lossy == [DiscoveryBase EXCEPT !.budget.connections = 2, !.budget.losses = 1, !.max_time = 3, !.node["a"].book = OnlyX]

Moving == [DiscoveryBase EXCEPT !.budget.addresses = 2, !.max_time = 3, !.node["a"].addresses = <<"ws", "ws">>]

Foreign == [DiscoveryBase EXCEPT !.prompt = FALSE, !.node["b"].genesis_hash = "h"]

(* The clock of b is ahead.                                                  *)
Skewed == [DiscoveryBase EXCEPT !.max_time = 4, !.node["b"].skew = 1]

DiscoveryConfigurations == {Prompt, Mixed, Slow, Lossy, Moving, Foreign, Skewed}

D == INSTANCE Discovery WITH
    Configurations <- DiscoveryConfigurations, MAX_ADDRESSES <- 3,
    MAX_PEER_AGE <- 3, STATE_TRANSITION_TIMEOUT <- 1,
    MAX_SEND_UPDATE_INTERVAL <- 4, WINDOW <- 2

-----------------------------------------------------------------------------
(***************************************************************************)
(* Three messages of no, one or three bytes through a stream of three bytes. *)
(***************************************************************************)
MessageCodecSizes == {0, 1, 3}

M == INSTANCE MessageCodec WITH
    HEADER_SIZE <- 2, MAX_MESSAGE_SIZE <- 3, CAPACITY <- 3,
    Sizes <- MessageCodecSizes, MAX_SENT <- 3

-----------------------------------------------------------------------------
(* Instances of NetworkTask for TLC, one scenario per part of the task: peers  *)
(* joining and leaving over several connections; requests of ours; requests of *)
(* peers with a rate limit; gossip; DHT queries, puts and readiness; addresses.*)
EmptyMap == [k \in {} |-> 0]

Limit(max, window) == [max |-> max, window |-> window]

NetworkTaskBase == [peers |-> {"p"}, calls |-> <<>>, events_max |-> 0, conns_max |-> 1, open_max |-> 2,
         time_max |-> 0, services |-> [p \in {"p", "q"} |-> {"h"}], dht_quorum |-> 2,
         records |-> {}, ready_max |-> 0, modes |-> FALSE, dht_put_limit |-> Limit(2, 2),
         attempts_max |-> 0, addresses |-> {}, in_use |-> {}, topics |-> EmptyMap,
         messages |-> EmptyMap, types |-> EmptyMap, inbound |-> EmptyMap, buffer_size |-> 1,
         drops |-> FALSE, closes |-> FALSE, exchanges |-> FALSE, dialer |-> {FALSE},
         cache_expires |-> FALSE]

Plain(kind) == [kind |-> kind, after |-> {}, impatient |-> FALSE, peer |-> "p", services |-> {"h"},
                min |-> 2, key |-> "k", record |-> None, topic |-> "t", type |-> "a",
                request |-> 1, addresses |-> <<>>]
Hasty(kind) == [Plain(kind) EXCEPT !.impatient = TRUE]
After(c, cs) == [c EXCEPT !.after = cs]

Joining == [NetworkTaskBase EXCEPT !.peers = {"p", "q"}, !.conns_max = 2, !.events_max = 2,
    !.closes = TRUE, !.exchanges = TRUE]

Searching == [NetworkTaskBase EXCEPT !.peers = {"p", "q"}, !.closes = TRUE, !.exchanges = TRUE,
    !.calls = <<[Plain("peers_by_services") EXCEPT !.min = 2],
                Plain("dial"), Hasty("disconnect")>>]

Asking == [NetworkTaskBase EXCEPT !.closes = TRUE,
    !.calls = <<Hasty("request"), Plain("request"), Hasty("request"), Plain("publish")>>]

In(type, body) == [peer |-> "p", type |-> type, body |-> body]

Serving == [NetworkTaskBase EXCEPT !.drops = TRUE, !.closes = TRUE,
    !.types = ("a" :> [limit |-> Limit(2, 2), responds |-> TRUE]),
    !.inbound = <<In("a", "good"), In("a", "bad"), In("a", "good")>>,
    !.calls = <<Plain("receive"), [After(Plain("respond"), {1}) EXCEPT !.request = 1],
                [After(Plain("respond"), {1}) EXCEPT !.request = 3], After(Plain("receive"), {1, 2})>>]

Noticing == [NetworkTaskBase EXCEPT !.types = ("a" :> [limit |-> Limit(2, 2), responds |-> FALSE]),
    !.inbound = <<In("a", "unreadable"), In("a", "good"), In("a", "good")>>,
    !.calls = <<Plain("receive")>>]

(* Requests of two types, reconnects and time: the limits outlive the peer.    *)
Limiting == [NetworkTaskBase EXCEPT !.peers = {"p", "q"}, !.time_max = 3, !.closes = TRUE,
    !.open_max = 1, !.attempts_max = 5, !.dht_put_limit = Limit(1, 2),
    !.records = {[key |-> "k", timestamp |-> 1, valid |-> FALSE]}]

Msg(size, valid) == [peer |-> "p", topic |-> "t", large |-> size, valid |-> valid]

Gossip(validate, messages) == [NetworkTaskBase EXCEPT !.drops = TRUE, !.cache_expires = TRUE,
    !.topics = ("t" :> [validate |-> validate, limit |-> Limit(2, 2), size |-> 1]),
    !.messages = messages,
    !.calls = <<Hasty("subscribe"), After(Plain("unsubscribe"), {1}),
                After(Plain("subscribe"), {1})>>]

Rec(timestamp, valid) == [key |-> "k", timestamp |-> timestamp, valid |-> valid]

Querying == [NetworkTaskBase EXCEPT !.records = {Rec(1, TRUE), Rec(2, TRUE), Rec(3, FALSE)},
    !.calls = <<Plain("dht_get"), Hasty("dht_get")>>]

Storing == [NetworkTaskBase EXCEPT !.records = {Rec(1, TRUE), Rec(2, TRUE), Rec(3, FALSE)},
    !.attempts_max = 4, !.dht_put_limit = Limit(3, 2),
    !.calls = <<[Plain("dht_put") EXCEPT !.record = Rec(2, TRUE)], Hasty("dht_put")>>]

Bootstrapping == [NetworkTaskBase EXCEPT !.ready_max = 2, !.modes = TRUE, !.events_max = 2, !.dialer = BOOLEAN]

Listening == [NetworkTaskBase EXCEPT !.addresses = {"x", "y"}, !.in_use = {"z"},
    !.peers = {},
    !.calls = <<[Plain("listen_on") EXCEPT !.addresses = <<"x", "z", "y">>],
                [Hasty("listen_on") EXCEPT !.addresses = <<"y">>]>>]

NetworkTaskConfigurations == {Joining, Searching, Asking, Serving, Noticing, Limiting,
                     Gossip(TRUE, <<Msg(FALSE, TRUE), Msg(FALSE, FALSE), Msg(TRUE, TRUE)>>),
                     Gossip(FALSE, <<Msg(FALSE, TRUE), Msg(TRUE, TRUE)>>), Querying,
                     [Storing EXCEPT !.calls[2].record = Rec(1, TRUE)], Bootstrapping, Listening}

N == INSTANCE NetworkTask WITH
    Configurations <- NetworkTaskConfigurations

-----------------------------------------------------------------------------
(***************************************************************************)
(* Validators 0 to 4: validator 4 has two empty levels and one with all    *)
(* others, validator 0 one level for each size; three validators of which  *)
(* two have two slots.                                                     *)
(***************************************************************************)
Votes(S) == [signers |-> S, valid |-> TRUE]
Update(l, o, S, i) == [aggregate |-> Votes(S), individual |-> IF i THEN Votes({o}) ELSE None, level |-> l, origin |-> o]
Forged(u) == [u EXCEPT !.aggregate.valid = FALSE]

(* Overlapping contributions on one level. *)
Wide == [node |-> 4, size |-> 5, slots |-> [v \in 0 .. 4 |-> {v}], threshold |-> 4,
         updates |-> {Update(3, 0, {0, 1}, TRUE), Update(3, 1, {1, 2}, TRUE), Update(3, 2, {2, 3}, FALSE), Update(3, 3, {1, 2, 3}, TRUE),
                      Update(3, 1, {1}, FALSE), Forged(Update(3, 0, {0, 1, 2}, FALSE))},
         budget |-> [updates |-> 4, ticks |-> 0, sends |-> 0]]

(* All levels, and the final result of another validator. *)
Deep == [node |-> 0, size |-> 5, slots |-> [v \in 0 .. 4 |-> {v}], threshold |-> 4,
         updates |-> {Update(1, 1, {1}, FALSE), Update(2, 2, {2, 3}, TRUE), Update(2, 3, {3, 4}, FALSE), Update(3, 4, {4}, FALSE),
                      Update(4, 3, {1, 2, 3, 4}, TRUE), Update(4, 2, {2, 3}, FALSE), Update(5, 1, {1}, FALSE)},
         budget |-> [updates |-> 3, ticks |-> 1, sends |-> 1]]

(* Validators with several slots. *)
Slots == [node |-> 2, size |-> 3, slots |-> [v \in 0 .. 2 |-> IF v = 2 THEN {4} ELSE {2 * v, 2 * v + 1}], threshold |-> 4,
          updates |-> {Update(2, 0, {0, 1}, FALSE), Update(2, 0, {0}, FALSE), Update(2, 1, {2, 3}, FALSE),
                       Update(1, 1, {2, 3}, FALSE), Update(3, 0, {0, 1, 2, 4}, FALSE)},
          budget |-> [updates |-> 3, ticks |-> 1, sends |-> 1]]

(* Other numbers of validators, with no update yet. *)
Sized(n, id) == [Wide EXCEPT !.node = id, !.size = n, !.slots = [v \in 0 .. n - 1 |-> {v}], !.updates = {},
                             !.budget = [updates |-> 0, ticks |-> 0, sends |-> 1]]

HandelConfigurations ==
    {Wide, Deep, Slots} \cup UNION {{Sized(n, id) : id \in 0 .. n - 1} : n \in {1, 2, 4, 6, 7}}

H == INSTANCE Handel WITH
    Configurations <- HandelConfigurations, MAX_PARALLEL_SENDS <- 1,
    PEER_COUNT <- 2

-----------------------------------------------------------------------------
(***************************************************************************)
(* Batches of three blocks: 6 is a checkpoint, 9 the election block, 12 a  *)
(* checkpoint of the next epoch, whose two validators change places.       *)
(***************************************************************************)
Micro(n, s) == [kind |-> "Micro", number |-> n, slot |-> s]
Macro(n) == [kind |-> "Macro", number |-> n, slot |-> 1]
Block(n) == CASE n \in {6, 9, 12} -> Macro(n) [] OTHER -> Micro(n, 1 + (n % 2))
ProposalBufferM(source, number, parent, signer, signed) ==
    [source |-> source, number |-> number, parent |-> parent, signer |-> signer, signed |-> signed]

(* Block 50 is a fork of block 5 with another proposer. *)
ProposalBufferPlain ==
    [blocks |-> [b \in (4 .. 12) \cup {50} |-> IF b = 50 THEN Micro(5, 1) ELSE Block(b)],
     known |-> {4, 50}, growth |-> <<4, 5, 6>>,
     election |-> 9, macros |-> {6, 9, 12}, validators |-> <<<<"a", "b">>, <<"b", "a">>>>,
     messages |-> {ProposalBufferM("p", 6, 5, 2, TRUE), ProposalBufferM("p", 6, 50, 1, TRUE), ProposalBufferM("q", 6, 5, 1, TRUE), ProposalBufferM("q", 6, 5, 2, TRUE)}]
ProposalBufferInvalid == [ProposalBufferPlain EXCEPT !.growth = <<5, 6>>, !.known = {4, 50, 5}, !.messages =
     {ProposalBufferM("p", 6, 5, 2, FALSE), ProposalBufferM("p", 6, 5, 3, TRUE), ProposalBufferM("q", 6, 4, 2, TRUE), ProposalBufferM("q", 12, 11, 2, TRUE), ProposalBufferM("p", 9, 6, 2, TRUE)}]
ProposalBufferElection == [ProposalBufferPlain EXCEPT !.growth = <<5, 6, 7, 8, 9, 10, 11>>, !.known = {4}, !.messages =
     {ProposalBufferM("p", 9, 8, 1, TRUE), ProposalBufferM("q", 9, 8, 2, TRUE), ProposalBufferM("p", 12, 11, 2, TRUE)}]
ProposalBufferConfigurations == {ProposalBufferPlain, ProposalBufferInvalid, ProposalBufferElection}

B == INSTANCE ProposalBuffer WITH
    Configurations <- ProposalBufferConfigurations

-----------------------------------------------------------------------------
(* In each behaviour one part takes steps; the variables of the others are idle. *)
NetworkInit ==
    \/ /\ part = "pool" /\ part \in Parts
       /\ C!Init
       /\ now = None /\ nodes = None /\ wire = None /\ seen = None /\
          writer = None /\ stream = None /\ reader = None /\ sent = None /\
          received = None /\ exchanged = None /\ connected = None /\
          events = None /\ view = None /\ calls = None /\ actions = None /\
          task = None /\ lib = None /\ apps = None /\ history = None /\
          store = None /\ levels = None /\ pending = None /\
          verification = None /\ final_result = None /\ emitted = None /\
          net = None /\ head = None /\ buffer = None /\ resolving = None /\
          peers = None /\ disconnects = None /\ wakers = None /\
          woken = None /\ live = None /\ phase = None /\ verdict = None
    \/ /\ part = "discovery" /\ part \in Parts
       /\ D!Init
       /\ contacts = None /\ pool = None /\ limits = None /\
          conns = None /\ writer = None /\ stream = None /\
          reader = None /\ sent = None /\ received = None /\
          exchanged = None /\ connected = None /\ events = None /\
          view = None /\ calls = None /\ actions = None /\ task = None /\
          lib = None /\ apps = None /\ history = None /\ store = None /\
          levels = None /\ pending = None /\ verification = None /\
          final_result = None /\ emitted = None /\ net = None /\
          head = None /\ buffer = None /\ resolving = None /\
          peers = None /\ disconnects = None /\ wakers = None /\
          woken = None /\ live = None /\ phase = None /\ verdict = None
    \/ /\ part = "codec" /\ part \in Parts
       /\ M!Init
       /\ config = None /\ contacts = None /\ pool = None /\
          limits = None /\ conns = None /\ budget = None /\ now = None /\
          nodes = None /\ wire = None /\ seen = None /\ exchanged = None /\
          connected = None /\ events = None /\ view = None /\
          calls = None /\ actions = None /\ task = None /\ lib = None /\
          apps = None /\ history = None /\ store = None /\ levels = None /\
          pending = None /\ verification = None /\ final_result = None /\
          emitted = None /\ net = None /\ head = None /\ buffer = None /\
          resolving = None /\ peers = None /\ disconnects = None /\
          wakers = None /\ woken = None /\ live = None /\ phase = None /\
          verdict = None
    \/ /\ part = "task" /\ part \in Parts
       /\ N!Init
       /\ contacts = None /\ pool = None /\ budget = None /\
          nodes = None /\ wire = None /\ seen = None /\ writer = None /\
          stream = None /\ reader = None /\ sent = None /\
          received = None /\ store = None /\ levels = None /\
          pending = None /\ verification = None /\ final_result = None /\
          emitted = None /\ net = None /\ head = None /\ buffer = None /\
          resolving = None /\ peers = None /\ disconnects = None /\
          wakers = None /\ woken = None /\ live = None /\ phase = None /\
          verdict = None
    \/ /\ part = "handel" /\ part \in Parts
       /\ H!Init
       /\ contacts = None /\ pool = None /\ limits = None /\
          conns = None /\ now = None /\ nodes = None /\ wire = None /\
          seen = None /\ writer = None /\ stream = None /\ reader = None /\
          sent = None /\ received = None /\ exchanged = None /\
          connected = None /\ events = None /\ view = None /\
          calls = None /\ actions = None /\ task = None /\ lib = None /\
          apps = None /\ history = None /\ head = None /\ buffer = None /\
          resolving = None /\ peers = None /\ disconnects = None /\
          wakers = None /\ woken = None /\ live = None /\ phase = None /\
          verdict = None
    \/ /\ part = "proposals" /\ part \in Parts
       /\ B!Init
       /\ contacts = None /\ pool = None /\ limits = None /\
          conns = None /\ budget = None /\ now = None /\ nodes = None /\
          wire = None /\ seen = None /\ writer = None /\ stream = None /\
          reader = None /\ sent = None /\ received = None /\
          exchanged = None /\ connected = None /\ events = None /\
          view = None /\ calls = None /\ actions = None /\ task = None /\
          lib = None /\ apps = None /\ history = None /\ store = None /\
          levels = None /\ pending = None /\ verification = None /\
          final_result = None /\ emitted = None /\ net = None

NetworkNext ==
    \/ /\ part = "pool" /\ C!Next
       /\ UNCHANGED <<part, now, nodes, wire, seen, writer, stream, reader, sent,
          received, exchanged, connected, events, view, calls, actions, task,
          lib, apps, history, store, levels, pending, verification,
          final_result, emitted, net, head, buffer, resolving, peers,
          disconnects, wakers, woken, live, phase, verdict>>
    \/ /\ part = "discovery" /\ D!Next
       /\ UNCHANGED <<part, contacts, pool, limits, conns, writer, stream, reader, sent,
          received, exchanged, connected, events, view, calls, actions, task,
          lib, apps, history, store, levels, pending, verification,
          final_result, emitted, net, head, buffer, resolving, peers,
          disconnects, wakers, woken, live, phase, verdict>>
    \/ /\ part = "codec" /\ M!Next
       /\ UNCHANGED <<part, config, contacts, pool, limits, conns, budget, now, nodes,
          wire, seen, exchanged, connected, events, view, calls, actions,
          task, lib, apps, history, store, levels, pending, verification,
          final_result, emitted, net, head, buffer, resolving, peers,
          disconnects, wakers, woken, live, phase, verdict>>
    \/ /\ part = "task" /\ N!Next
       /\ UNCHANGED <<part, contacts, pool, budget, nodes, wire, seen, writer, stream,
          reader, sent, received, store, levels, pending, verification,
          final_result, emitted, net, head, buffer, resolving, peers,
          disconnects, wakers, woken, live, phase, verdict>>
    \/ /\ part = "handel" /\ H!Next
       /\ UNCHANGED <<part, contacts, pool, limits, conns, now, nodes, wire, seen, writer,
          stream, reader, sent, received, exchanged, connected, events, view,
          calls, actions, task, lib, apps, history, head, buffer, resolving,
          peers, disconnects, wakers, woken, live, phase, verdict>>
    \/ /\ part = "proposals" /\ B!Next
       /\ UNCHANGED <<part, contacts, pool, limits, conns, budget, now, nodes, wire, seen,
          writer, stream, reader, sent, received, exchanged, connected,
          events, view, calls, actions, task, lib, apps, history, store,
          levels, pending, verification, final_result, emitted, net>>

all_vars ==
    <<part, config, contacts, pool, limits, conns, budget, now, nodes, wire,
      seen, writer, stream, reader, sent, received, exchanged, connected,
      events, view, calls, actions, task, lib, apps, history, store, levels,
      pending, verification, final_result, emitted, net, head, buffer,
      resolving, peers, disconnects, wakers, woken, live, phase, verdict>>

NetworkSpec == NetworkInit /\ [][NetworkNext]_all_vars

-----------------------------------------------------------------------------
(* The connection pool counts the connections of every address and subnet  *)
(* exactly through dials, upgrades, failures and bans: counts are those of *)
(* the open connections, limits hold, and dialing and banned peers are     *)
(* what they are called.                                                   *)
PoolIsExact ==
    part = "pool" =>
       C!TypeOK /\ C!LimitsAreExact /\ C!ConnectionsWithinLimits /\
       C!ConnectedIsOpen /\ C!DialingIsReal /\ C!DialsWithinLimit /\
       C!BannedAreClosed

(* Two honest nodes stay connected through any interleaving of their       *)
(* handshakes.  A peer whose clock is not ahead of ours is announced to    *)
(* the swarm, one with the same clock stays in our book, and the contacts  *)
(* of nodes that have gone age out.                                        *)
ContactsAreCurrent ==
    part = "discovery" =>
       D!TypeOK /\ D!HonestPairStaysConnected /\
       D!EstablishedAreAnnounced /\ D!BooksAreCurrent /\
       D!ConnectedStayKnown

(* However the stream splits writes and reads, a reader gets the messages  *)
(* that were sent, in order, and no error; the end of the stream is        *)
(* reported as such only between two messages.                             *)
FramesAreKept ==
    part = "codec" =>
       M!TypeOK /\ M!FramesAreKept

(* What the swarm task keeps agrees with libp2p and with what callers were *)
(* told: peers, topics, pending calls, listeners and NAT status; only      *)
(* accepted messages are forwarded, and rate limits are kept, given back   *)
(* and denied only when earned.                                            *)
TaskIsExact ==
    part = "task" =>
       N!TypeOK /\ N!PeersAreExact /\ N!EventsTellPeers /\
       N!PendingIsReal /\ N!ReadyIsTold /\ N!NatStatusIsRight /\
       N!OnlyAcceptedAreForwarded /\ N!TopicsAgree /\
       N!ListensAsAnswered /\ N!PendingLimitsAreBacked /\ N!LimitHolds /\
       N!DenialsAreEarned

(* The aggregation of votes only uses verified contributions, merges none  *)
(* twice, keeps every individual one, completes a level only when it is    *)
(* full, and sends updates that their recipients accept; no assertion      *)
(* fails.                                                                  *)
AggregatesAreSound ==
    part = "handel" =>
       H!TypeOK /\ H!NoPanic /\ H!IndividualsAreInBest /\
       H!OnlyVerifiedIsUsed /\ H!UpdatesAreAccepted /\ H!CompleteIsFull /\
       H!LevelsAgree

(* What the doc of ProposalBuffer promises its peers and its reader: one   *)
(* proposal and one request per peer, and a reader that sleeps only when   *)
(* there is nothing to read or to send.                                    *)
ProposalsAreServed ==
    part = "proposals" =>
       B!TypeOK /\ B!ProposalsAreServed

(* What came later but is older or less replaces nothing: contacts in a    *)
(* book, records that peers put into the DHT store, and the best aggregate *)
(* of a level.                                                             *)
NeverRegresses ==
    [][/\ part = "discovery" => D!NewerStep
       /\ part = "task" => N!StoreStep
       /\ part = "handel" => H!ImprovesStep]_all_vars

(* Every caller of the swarm task gets the answer to its own call.  A      *)
(* proposal gets at most one verdict, before the election block one that   *)
(* the validators of its epoch justify, and leaves the buffer without one  *)
(* only when its relayer has another proposal that waits for its           *)
(* predecessor.                                                            *)
AnswersAreRight ==
    [][/\ part = "task" => N!AnswerStep
       /\ part = "proposals" => B!VerdictStep /\ B!JudgedStep /\ B!SettledStep]_all_vars
=============================================================================
