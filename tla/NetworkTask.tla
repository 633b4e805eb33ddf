----------------------------- MODULE NetworkTask ------------------------------
(* The swarm task of network-libp2p (swarm.rs, network_types.rs) and the       *)
(* Network handle in front of it (network.rs). A caller of the handle puts an  *)
(* action with a oneshot channel for the answer into the action queue; the     *)
(* task performs the actions and handles the events of the libp2p swarm, in    *)
(* any order. The swarm itself is external: it hands out the events that       *)
(* conform to its interface, and delivers what a behaviour has to say about a  *)
(* connection before it reports the connection closed.                         *)
EXTENDS RateLimits, Sequences, SequencesExt

CONSTANTS Configurations, None

VARIABLES
    config,     \* what the environment may do in this scenario
    now,        \* Instant::now()
    conns,      \* open connections per peer (libp2p)
    exchanged,  \* peers whose exchange of contacts is done on an open connection
    connected,  \* Network::connected_peers
    events,     \* the broadcast queue of one subscriber of network events
    view,       \* what that subscriber made of the events it has taken
    calls,      \* the callers of the handle: a state and a result each
    actions,    \* action_rx
    task,       \* TaskState
    limits,     \* rate_limiting
    lib,        \* libp2p: requests, queries, topics, messages, listeners, ...
    apps,       \* the receivers of requests and messages, validate_rx
    history     \* of rate limiting: every attempt, when it was and its fate

vars == <<config, now, conns, exchanged, connected, events, view, calls, actions, task, limits,
          lib, apps, history>>

peerVars == <<conns, exchanged, connected, events, view>>
callVars == <<calls, actions>>

Peers == config.peers
Calls == DOMAIN config.calls
Call(c) == config.calls[c]

Answer(tag, value) == [tag |-> tag, value |-> value]
Ok(value) == Answer("ok", value)
Err(error) == Answer("err", error)

Unknown == "Unknown"
Public == "Public"
Private == "Private"

Init ==
    /\ config \in Configurations
    /\ now = 0
    /\ conns = [p \in Peers |-> 0]
    /\ exchanged = {} /\ connected = {}
    /\ events = <<>> /\ view = [peers |-> {}, lagged |-> config.events_max = 0]
    /\ calls = [c \in Calls |-> [state |-> "new", result |-> Err("none"), seen |-> {}]]
    /\ actions = <<>>
    /\ task = [dht_puts |-> {}, dht_gets |-> {}, dht_get_results |-> EmptyMap,
               gossip_topics |-> {}, dht_bootstrap_state |-> "NotStarted",
               dht_server_mode |-> FALSE, requests |-> {}, response_channels |-> {},
               receive_requests |-> {},
               nat |-> [confirmed |-> {}, address_status |-> EmptyMap, status |-> Unknown]]
    /\ limits = [NoLimits EXCEPT !.rate_limits = EmptyMap, !.by_key = EmptyMap]
    /\ lib = [outbound |-> {}, inbound |-> [r \in DOMAIN config.inbound |-> "new"],
              queries |-> EmptyMap, puts |-> {}, store |-> EmptyMap, mode |-> "Client",
              ready |-> 0, subscribed |-> {},
              messages |-> [m \in DOMAIN config.messages |-> "new"],
              listeners |-> {}]
    /\ apps = [requests |-> EmptyMap, topics |-> EmptyMap, taken |-> {}, validated |-> EmptyMap,
               validations |-> <<>>]
    /\ history = {}

-------------------------------------------------------------------------------
(* Callers.                                                                    *)

Waiting(c) == calls[c].state = "waiting"

(* output.send(..): a caller that is gone does not get the answer.             *)
Answered(cs, c, result) ==
    IF cs[c].state = "waiting"
      THEN [cs EXCEPT ![c].state = "done", ![c].result = result] ELSE cs

Services(p) == config.services[p]

(* get_peers_by_services: the connected peers that serve, before the await.    *)
Filtered(c) == {p \in connected : Call(c).services \subseteq Services(p)}

(* A caller puts its action into the queue of the task, unless the question    *)
(* is answered by the connected peers; a response needs a request taken.       *)
Start(c) ==
    /\ calls[c].state = "new"
    /\ \A d \in Call(c).after : calls[d].state \notin {"new"}
    /\ Call(c).kind = "respond" => Call(c).request \in apps.taken
    /\ IF Call(c).kind = "peers_by_services" /\ Cardinality(Filtered(c)) >= Call(c).min
         THEN /\ calls' = [calls EXCEPT ![c].state = "done",
                                        ![c].result = Ok(SetToSeq(Filtered(c)))]
              /\ UNCHANGED actions
         ELSE /\ calls' = [calls EXCEPT ![c].state = "waiting",
                    ![c].seen = IF Call(c).kind = "peers_by_services" THEN Filtered(c) ELSE {}]
              /\ actions' = Append(actions, c)
    /\ UNCHANGED <<config, now, peerVars, task, limits, lib, apps, history>>

(* REQUEST_TIMEOUT of request_impl and dht_get passes, or the caller is        *)
(* dropped: in both cases the oneshot channel is closed.                       *)
Abandon(c) ==
    /\ Waiting(c)
    /\ Call(c).impatient
    /\ calls' = [calls EXCEPT ![c].state = "done", ![c].result = Err("timeout")]
    /\ UNCHANGED <<config, now, peerVars, actions, task, limits, lib, apps, history>>

(* The subscriber takes the next event from its queue.                         *)
Seen(peers, event) ==
    CASE event.tag = "PeerJoined" -> peers \cup {event.value}
      [] event.tag = "PeerLeft" -> peers \ {event.value}
      [] OTHER -> peers

TakeEvent ==
    /\ events # <<>>
    /\ events' = Tail(events)
    /\ view' = [view EXCEPT !.peers = Seen(@, Head(events))]
    /\ UNCHANGED <<config, now, conns, exchanged, connected, callVars, task, limits, lib, apps,
                   history>>

(* events_tx.send: the queue of a subscriber loses its oldest event when it is *)
(* full, and the subscriber is told that it lagged. Without a subscriber, the  *)
(* event is lost.                                                              *)
Send(tag, value) ==
    LET full == Len(events) = config.events_max
    IN  IF config.events_max = 0 THEN UNCHANGED <<events, view>> ELSE
        /\ events' = Append(IF full THEN Tail(events) ELSE events, Answer(tag, value))
        /\ view' = [view EXCEPT !.lagged = @ \/ full]

-------------------------------------------------------------------------------
(* handle_event, handle_discovery_event, handle_ping_event: connections.       *)

(* A connection to p is established; the first one we dialed to a dialable     *)
(* address starts the bootstrap of the DHT.                                    *)
ConnectionEstablished(p, dialer) ==
    /\ conns[p] < config.conns_max
    /\ dialer \in config.dialer
    /\ Cardinality({q \in Peers : conns[q] > 0}) < config.open_max \/ conns[p] > 0
    /\ conns' = [conns EXCEPT ![p] = @ + 1]
    /\ task' = [task EXCEPT !.dht_bootstrap_state =
            IF dialer /\ @ = "NotStarted" THEN "Started" ELSE @]
    /\ UNCHANGED <<config, now, exchanged, connected, events, view, callVars, limits, lib, apps,
                   history>>

(* The handler of one connection of p is done with the exchange of contacts;   *)
(* a peer that is there already only has its information replaced.             *)
Established(p) ==
    /\ conns[p] > 0 /\ config.exchanges
    /\ exchanged' = exchanged \cup {p}
    /\ connected' = connected \cup {p}
    /\ IF p \in connected THEN UNCHANGED <<events, view>> ELSE Send("PeerJoined", p)
    /\ UNCHANGED <<config, now, conns, callVars, task, limits, lib, apps, history>>

(* A connection to p is closed, by either side, by a failed ping or by the     *)
(* pool. With the last one go the peer, its rate limits, and what libp2p has   *)
(* in flight with it (reported by failures that come first).                   *)
ConnectionClosed(p) ==
    /\ conns[p] > 0 /\ config.closes
    /\ conns[p] = 1 => /\ \A c \in lib.outbound : Call(c).peer # p
                       /\ \A m \in DOMAIN apps.validated :
                            apps.validated[m] = "unseen" => config.messages[m].peer # p
                       /\ \A r \in DOMAIN lib.inbound :
                            config.inbound[r].peer = p => lib.inbound[r] # "open"
    /\ conns' = [conns EXCEPT ![p] = @ - 1]
    /\ IF conns[p] = 1
         THEN /\ exchanged' = exchanged \ {p}
              /\ connected' = connected \ {p}
              /\ limits' = remove_rate_limits(limits, p, now)
              /\ Send("PeerLeft", p)
         ELSE UNCHANGED <<exchanged, connected, limits, events, view>>
    /\ UNCHANGED <<config, now, callVars, task, lib, apps, history>>

Tick ==
    /\ now < config.time_max
    /\ now' = now + 1
    /\ UNCHANGED <<config, peerVars, callVars, task, limits, lib, apps, history>>

-------------------------------------------------------------------------------
(* The DHT: handle_dht_event.                                                  *)

(* store_dht_record: the best record so far, and how many have come.           *)
store_dht_record(results, q, record) ==
    LET old == IF q \in DOMAIN results THEN results[q] ELSE [count |-> 0, best |-> record]
    IN  Put(results, q, [count |-> old.count + 1,
                         best |-> IF record.timestamp > old.best.timestamp THEN record
                                  ELSE old.best])

KnownQuery(q) == q \in task.dht_gets \/ q \in DOMAIN task.dht_get_results

(* A peer of the query has a record. One that does not verify aborts the       *)
(* query; the quorum ends it.                                                  *)
FoundRecord(q, record) ==
    /\ q \in DOMAIN lib.queries
    /\ record \in lib.queries[q].left
    /\ LET libNow == [lib EXCEPT !.queries[q].left = @ \ {record},
                                 !.queries[q].found = @ \cup {record}]
           results == store_dht_record(task.dht_get_results, q, record)
       IN  IF ~KnownQuery(q)
             THEN lib' = libNow /\ UNCHANGED <<task, calls>>
           ELSE IF ~record.valid
             THEN /\ lib' = [libNow EXCEPT !.queries[q].finishing = TRUE]
                  /\ task' = [task EXCEPT !.dht_gets = @ \ {q},
                                          !.dht_get_results = Drop(@, {q})]
                  /\ calls' = Answered(calls, q, Err("verification"))
           ELSE /\ task' = [task EXCEPT !.dht_get_results = results]
                /\ lib' = [libNow EXCEPT !.queries[q].finishing =
                        @ \/ results[q].count = config.dht_quorum]
                /\ UNCHANGED calls
    /\ UNCHANGED <<config, now, peerVars, actions, limits, apps, history>>

(* The query is over: with the last record, or with an error.                  *)
FinishedWithNoAdditionalRecord(q) ==
    /\ q \in DOMAIN lib.queries
    /\ lib.queries[q].found # {}
    /\ lib.queries[q].finishing \/ lib.queries[q].left = {}
    /\ lib' = [lib EXCEPT !.queries = Drop(@, {q})]
    /\ IF ~KnownQuery(q) THEN UNCHANGED <<task, calls>>
       ELSE /\ task' = [task EXCEPT !.dht_gets = @ \ {q}, !.dht_get_results = Drop(@, {q})]
            /\ calls' = Answered(calls, q,
                    IF q \in DOMAIN task.dht_get_results
                      THEN Ok(task.dht_get_results[q].best) ELSE Err("no valid record"))
    /\ UNCHANGED <<config, now, peerVars, actions, limits, apps, history>>

GetRecordFailed_retries(q) ==
    /\ q \in DOMAIN lib.queries
    /\ lib' = [lib EXCEPT !.queries[q] = [left |-> @.left \cup @.found, found |-> {},
                                          finishing |-> FALSE]]
    /\ task' = [task EXCEPT !.dht_get_results = Drop(@, {q})]
    /\ UNCHANGED <<config, now, peerVars, callVars, limits, apps, history>>

GetRecordFailed(q) ==
    /\ q \in DOMAIN lib.queries
    /\ lib' = [lib EXCEPT !.queries = Drop(@, {q})]
    /\ IF ~KnownQuery(q) THEN UNCHANGED <<task, calls>>
       ELSE /\ task' = [task EXCEPT !.dht_gets = @ \ {q}, !.dht_get_results = Drop(@, {q})]
            /\ calls' = Answered(calls, q, Err("query"))
    /\ UNCHANGED <<config, now, peerVars, actions, limits, apps, history>>

handle_dht_put_record(q) ==
    /\ q \in lib.puts
    /\ lib' = [lib EXCEPT !.puts = @ \ {q}]
    /\ task' = [task EXCEPT !.dht_puts = @ \ {q}]
    /\ \E result \in {Ok(None), Err("quorum")} : calls' = Answered(calls, q, result)
    /\ UNCHANGED <<config, now, peerVars, actions, limits, apps, history>>
(* The bootstrap is over, and the mode of the DHT changes, in either order.    *)
handle_dht_bootstrap(success) ==
    /\ \E p \in Peers : conns[p] > 0
    /\ lib.ready < config.ready_max
    /\ IF ~success THEN UNCHANGED <<task, lib, events, view>>
       ELSE /\ task' = [task EXCEPT !.dht_bootstrap_state = "Completed"]
            /\ IF task.dht_server_mode
                 THEN Send("DhtReady", lib.mode) /\ lib' = [lib EXCEPT !.ready = @ + 1]
                 ELSE UNCHANGED <<events, view, lib>>
    /\ UNCHANGED <<config, now, conns, exchanged, connected, callVars, limits, apps, history>>

handle_dht_mode_change(new_mode) ==
    /\ new_mode # lib.mode
    /\ config.modes /\ lib.ready < config.ready_max
    /\ task' = [task EXCEPT !.dht_server_mode = @ \/ new_mode = "Server"]
    /\ IF new_mode = "Server" /\ task.dht_bootstrap_state = "Completed"
         THEN /\ Send("DhtReady", new_mode)
              /\ lib' = [lib EXCEPT !.mode = new_mode, !.ready = @ + 1]
         ELSE lib' = [lib EXCEPT !.mode = new_mode] /\ UNCHANGED <<events, view>>
    /\ UNCHANGED <<config, now, conns, exchanged, connected, callVars, limits, apps, history>>

(* rate_limiting.exceeds_rate_limit, and what became of the attempt.           *)
Count(p, id, cfg) ==
    /\ limits' = count_request(limits, p, id, cfg, now)
    /\ history' = history \cup
           {[peer |-> p, id |-> id, at |-> now, n |-> Cardinality(history),
             max |-> cfg.max, window |-> cfg.window,
             denied |-> exceeds_rate_limit(limits, p, id, cfg, now)]}

(* handle_dht_inbound_put: a record that verifies is stored, unless the one    *)
(* in the store is newer.                                                      *)
Overwrites(record) ==
    record.key \in DOMAIN lib.store => ~(lib.store[record.key].timestamp > record.timestamp)

handle_dht_inbound_put(p, record) ==
    /\ conns[p] > 0
    /\ Cardinality(history) < config.attempts_max
    /\ Count(p, "dht", config.dht_put_limit)
    /\ IF ~exceeds_rate_limit(limits, p, "dht", config.dht_put_limit, now)
            /\ record.valid /\ Overwrites(record)
         THEN lib' = [lib EXCEPT !.store = Put(@, record.key, record)]
         ELSE UNCHANGED lib
    /\ UNCHANGED <<config, now, peerVars, callVars, task, apps>>

-------------------------------------------------------------------------------
(* NatState (autonat.rs) and the events that change it.                        *)

Statuses(nat) == {nat.address_status[a] : a \in DOMAIN nat.address_status}

update_state(nat) ==
    [nat EXCEPT !.status = IF nat.confirmed # {} THEN Public
                           ELSE IF Statuses(nat) \subseteq {Private} THEN Private
                           ELSE Unknown]

add_address(nat, a) == [nat EXCEPT !.address_status = Put(@, a, Unknown)]

remove_address(nat, a) ==
    update_state([nat EXCEPT !.address_status = Drop(@, {a}), !.confirmed = @ \ {a}])

set_address_nat(nat, a, status) ==
    update_state([nat EXCEPT !.address_status = Put(@, a, status),
                             !.confirmed = IF status = Public THEN @ \cup {a} ELSE @ \ {a}])

add_confirmed_address(nat, a) == set_address_nat(nat, a, Public)

remove_confirmed_address(nat, a) == set_address_nat(nat, a, Private)

(* NewListenAddr, the probes of AutoNAT, confirmed and expired addresses. A    *)
(* listener that is closed takes its addresses along.                          *)
NatEvent ==
    /\ \E a \in config.addresses :
         \/ /\ a \in lib.listeners
            /\ task' = [task EXCEPT !.nat = add_address(@, a)]
         \/ \E status \in {Public, Private} : task' = [task EXCEPT !.nat = set_address_nat(@, a, status)]
         \/ task' = [task EXCEPT !.nat = add_confirmed_address(@, a)]
         \/ task' = [task EXCEPT !.nat = remove_confirmed_address(@, a)]
    /\ UNCHANGED <<config, now, peerVars, callVars, limits, lib, apps, history>>

ListenerClosed(a) ==
    /\ a \in lib.listeners
    /\ a \in config.addresses
    /\ lib' = [lib EXCEPT !.listeners = @ \ {a}]
    /\ task' = [task EXCEPT !.nat = remove_address(@, a)]
    /\ UNCHANGED <<config, now, peerVars, callVars, limits, apps, history>>

-------------------------------------------------------------------------------
(* handle_gossipsub_event, and the validation of messages.                     *)

Message(m) == config.messages[m]
Topic(t) == config.topics[t]

(* report_message_validation_result: the message leaves the cache.             *)
Report(l, m, acceptance) ==
    IF l.messages[m] = "cached" THEN [l EXCEPT !.messages[m] = acceptance] ELSE l

(* gossipsub receives a message of a topic we are subscribed to, and waits     *)
(* for the result of its validation before it forwards it.                     *)
MessageReceived(m) ==
    /\ lib.messages[m] = "new"
    /\ conns[Message(m).peer] > 0
    /\ Message(m).topic \in lib.subscribed
    /\ lib' = [lib EXCEPT !.messages[m] = "cached"]
    /\ apps' = [apps EXCEPT !.validated = Put(@, m, "unseen")]
    /\ UNCHANGED <<config, now, peerVars, callVars, task, limits, history>>

(* topic_info.output.try_send                                                  *)
Dispatch(channels, key, item) ==
    IF channels[key].open /\ Len(channels[key].queue) < channels[key].size
      THEN [channels EXCEPT ![key].queue = Append(@, item)] ELSE channels

HandleMessage(m) ==
    /\ m \in DOMAIN apps.validated /\ apps.validated[m] = "unseen"
    /\ LET t == Message(m).topic IN
       IF t \notin task.gossip_topics
         THEN /\ apps' = [apps EXCEPT !.validated[m] = "dropped"]
              /\ UNCHANGED <<lib, limits, history>>
         ELSE /\ Count(Message(m).peer, t, Topic(t).limit)
              /\ IF exceeds_rate_limit(limits, Message(m).peer, t, Topic(t).limit, now)
                   THEN apps' = [apps EXCEPT !.validated[m] = "dropped"] /\ UNCHANGED lib
                 ELSE IF Message(m).large
                   THEN /\ apps' = [apps EXCEPT !.validated[m] = "dropped"]
                        /\ lib' = Report(lib, m, "Reject")
                 ELSE /\ lib' = IF Topic(t).validate THEN lib ELSE Report(lib, m, "Accept")
                      /\ apps' = [apps EXCEPT !.topics = Dispatch(@, t, m),
                                              !.validated[m] = "dispatched"]
    /\ UNCHANGED <<config, now, peerVars, callVars, task>>

(* The application takes a message and validates it (validate_message): a      *)
(* message that does not deserialize is skipped by the stream.                 *)
TakeMessage(t) ==
    /\ t \in DOMAIN apps.topics /\ apps.topics[t].queue # <<>>
    /\ LET m == Head(apps.topics[t].queue)
           taken == [apps EXCEPT !.topics[t].queue = Tail(@)]
       IN  IF ~Message(m).valid \/ ~Topic(t).validate THEN apps' = taken
           ELSE \E acceptance \in {"Accept", "Ignore", "Reject"} :
                  apps' = [taken EXCEPT !.validated[m] = acceptance,
                                        !.validations = Append(@, m)]
    /\ UNCHANGED <<config, now, peerVars, callVars, task, limits, lib, history>>

(* validate_rx.recv(), in the task.                                            *)
ReportValidation ==
    /\ apps.validations # <<>>
    /\ LET m == Head(apps.validations) IN lib' = Report(lib, m, apps.validated[m])
    /\ apps' = [apps EXCEPT !.validations = Tail(@)]
    /\ UNCHANGED <<config, now, peerVars, callVars, task, limits, history>>

(* The cache of gossipsub forgets a message that nobody validated.             *)
CacheExpires(m) ==
    /\ lib.messages[m] = "cached"
    /\ config.cache_expires
    /\ lib' = [lib EXCEPT !.messages[m] = "expired"]
    /\ UNCHANGED <<config, now, peerVars, callVars, task, limits, apps, history>>
-------------------------------------------------------------------------------
(* handle_request_response_event.                                              *)

Inbound(r) == config.inbound[r]
Type(t) == config.types[t]

(* A request of a peer: passed on to the receiver of its type, if there is one *)
(* and the rate limit allows it. The channel of the response is kept for types *)
(* that have a response; the others are answered at once.                      *)
HandleRequest(r) ==
    /\ lib.inbound[r] = "new"
    /\ conns[Inbound(r).peer] > 0
    /\ LET t == Inbound(r).type
           id == <<"request", t>>
           alive == t \in task.receive_requests /\ apps.requests[t].open
       IN  IF Inbound(r).body = "unreadable"
             THEN /\ lib' = [lib EXCEPT !.inbound[r] = "open"]
                  /\ UNCHANGED <<task, limits, history, apps>>
           ELSE IF ~alive
             THEN /\ lib' = [lib EXCEPT !.inbound[r] = "NoReceiver"]
                  /\ task' = [task EXCEPT !.receive_requests = @ \ {t}]
                  /\ UNCHANGED <<limits, history, apps>>
           ELSE /\ Count(Inbound(r).peer, id, Type(t).limit)
                /\ IF exceeds_rate_limit(limits, Inbound(r).peer, id, Type(t).limit, now)
                     THEN /\ lib' = [lib EXCEPT !.inbound[r] = "ExceedsRateLimit"]
                          /\ UNCHANGED <<task, apps>>
                     ELSE /\ apps' = [apps EXCEPT !.requests = Dispatch(@, t, r)]
                          /\ lib' = [lib EXCEPT !.inbound[r] =
                                  IF Type(t).responds THEN "open" ELSE "auto"]
                          /\ task' = IF Type(t).responds
                                THEN [task EXCEPT !.response_channels = @ \cup {r}]
                                ELSE task
    /\ UNCHANGED <<config, now, peerVars, callVars>>

(* libp2p gives up on a request of a peer: no response in time, the connection *)
(* is closed, or the channel of its response was dropped.                      *)
InboundFailure(r) ==
    /\ lib.inbound[r] = "open"
    /\ lib' = [lib EXCEPT !.inbound[r] = "failed"]
    /\ task' = [task EXCEPT !.response_channels = @ \ {r}]
    /\ UNCHANGED <<config, now, peerVars, callVars, limits, apps, history>>

(* The stream of receive_requests yields the next request it can deserialize.  *)
TakeRequest(t) ==
    /\ t \in DOMAIN apps.requests
    /\ apps.requests[t].queue # <<>>
    /\ LET r == Head(apps.requests[t].queue) IN
         apps' = [apps EXCEPT !.requests[t].queue = Tail(@),
                              !.taken = IF Inbound(r).body = "good" THEN @ \cup {r} ELSE @]
    /\ UNCHANGED <<config, now, peerVars, callVars, task, limits, lib, history>>

(* The application drops the stream of requests, or of messages.               *)
CloseRequests(t) ==
    /\ config.drops
    /\ t \in DOMAIN apps.requests /\ apps.requests[t].open
    /\ apps' = [apps EXCEPT !.requests[t].open = FALSE, !.requests[t].queue = <<>>]
    /\ UNCHANGED <<config, now, peerVars, callVars, task, limits, lib, history>>

CloseTopic(t) ==
    /\ config.drops
    /\ t \in DOMAIN apps.topics /\ apps.topics[t].open
    /\ apps' = [apps EXCEPT !.topics[t].open = FALSE, !.topics[t].queue = <<>>]
    /\ UNCHANGED <<config, now, peerVars, callVars, task, limits, lib, history>>

(* The answer to a request of ours: a response, one cut off by the codec       *)
(* (None), or a failure. The caller may be gone.                               *)
OutboundDone(c) ==
    /\ c \in lib.outbound
    /\ lib' = [lib EXCEPT !.outbound = @ \ {c}]
    /\ IF c \notin task.requests THEN UNCHANGED <<task, calls>>
       ELSE /\ task' = [task EXCEPT !.requests = @ \ {c}]
            /\ \E result \in {Ok(c), Err("timeout"), Err("failure")} :
                 calls' = Answered(calls, c, result)
    /\ UNCHANGED <<config, now, peerVars, actions, limits, apps, history>>

-------------------------------------------------------------------------------
(* perform_action: the task takes the next action from its queue.              *)

Takes(c, kind) == actions # <<>> /\ c = Head(actions) /\ Call(c).kind = kind
              /\ actions' = Tail(actions)

Dial(c) ==
    /\ Takes(c, "dial")
    /\ \E result \in {Ok(None), Err("dial")} :
         /\ conns[Call(c).peer] > 0 => result.tag = "err"
         /\ calls' = Answered(calls, c, result)
    /\ UNCHANGED <<config, now, peerVars, task, limits, lib, apps, history>>

DhtGet(c) ==
    /\ Takes(c, "dht_get")
    /\ task' = [task EXCEPT !.dht_gets = @ \cup {c}]
    /\ lib' = [lib EXCEPT !.queries = Put(@, c,
            [left |-> {r \in config.records : r.key = Call(c).key}, found |-> {},
             finishing |-> FALSE])]
    /\ UNCHANGED <<config, now, peerVars, calls, limits, apps, history>>

(* Our own record goes to the local store, whatever is there, and out.         *)
DhtPut(c) ==
    /\ Takes(c, "dht_put")
    /\ \/ /\ task' = [task EXCEPT !.dht_puts = @ \cup {c}]
          /\ lib' = [lib EXCEPT !.puts = @ \cup {c},
                                !.store = Put(@, Call(c).record.key, Call(c).record)]
          /\ UNCHANGED calls
       \/ /\ calls' = Answered(calls, c, Err("store"))
          /\ UNCHANGED <<task, lib>>
    /\ UNCHANGED <<config, now, peerVars, limits, apps, history>>

Subscribe(c) ==
    /\ Takes(c, "subscribe")
    /\ LET t == Call(c).topic IN
       IF t \in lib.subscribed
         THEN /\ calls' = Answered(calls, c, Err("already subscribed"))
              /\ UNCHANGED <<task, lib, apps>>
         ELSE /\ lib' = [lib EXCEPT !.subscribed = @ \cup {t}]
              /\ task' = [task EXCEPT !.gossip_topics = @ \cup {t}]
              /\ apps' = [apps EXCEPT !.topics =
                     Put(@, t, [queue |-> <<>>, open |-> Waiting(c), size |-> Topic(t).size])]
              /\ calls' = Answered(calls, c, Ok(None))
    /\ UNCHANGED <<config, now, peerVars, limits, history>>

Unsubscribe(c) ==
    /\ Takes(c, "unsubscribe")
    /\ LET t == Call(c).topic IN
       IF t \notin task.gossip_topics
         THEN /\ calls' = Answered(calls, c, Err("already unsubscribed"))
              /\ UNCHANGED <<task, lib, apps>>
         ELSE /\ lib' = [lib EXCEPT !.subscribed = @ \ {t}]
              /\ task' = [task EXCEPT !.gossip_topics = @ \ {t}]
              /\ calls' = Answered(calls, c,
                     IF t \in lib.subscribed THEN Ok(None) ELSE Err("already unsubscribed"))
              /\ UNCHANGED apps
    /\ UNCHANGED <<config, now, peerVars, limits, history>>

(* Publish and NetworkInfo: answered by the swarm at once.                     *)
AskSwarm(c) ==
    /\ Takes(c, "publish")
    /\ \E result \in {Ok(None), Err("publish")} : calls' = Answered(calls, c, result)
    /\ UNCHANGED <<config, now, peerVars, task, limits, lib, apps, history>>

ReceiveRequests(c) ==
    /\ Takes(c, "receive")
    /\ task' = [task EXCEPT !.receive_requests = @ \cup {Call(c).type}]
    /\ apps' = [apps EXCEPT !.requests =
            Put(@, Call(c).type, [queue |-> <<>>, open |-> TRUE, size |-> config.buffer_size])]
    /\ calls' = Answered(calls, c, Ok(None))
    /\ UNCHANGED <<config, now, peerVars, limits, lib, history>>

SendRequest(c) ==
    /\ Takes(c, "request")
    /\ task' = [task EXCEPT !.requests = @ \cup {c}]
    /\ lib' = [lib EXCEPT !.outbound = @ \cup {c}]
    /\ UNCHANGED <<config, now, peerVars, calls, limits, apps, history>>

SendResponse(c) ==
    /\ Takes(c, "respond")
    /\ LET r == Call(c).request IN
       IF r \notin task.response_channels
         THEN /\ calls' = Answered(calls, c, Err("unknown request id"))
              /\ UNCHANGED <<task, lib>>
         ELSE /\ task' = [task EXCEPT !.response_channels = @ \ {r}]
              /\ lib' = [lib EXCEPT !.inbound[r] = IF @ = "open" THEN "app" ELSE @]
              /\ calls' = Answered(calls, c,
                     IF lib.inbound[r] = "open" THEN Ok(None) ELSE Err("channel closed"))
    /\ UNCHANGED <<config, now, peerVars, limits, apps, history>>

(* ListenOn: the listeners opened before the address that fails are closed.    *)
ListenOn(c) ==
    /\ Takes(c, "listen_on")
    /\ LET bad == {i \in DOMAIN Call(c).addresses : Call(c).addresses[i] \in config.in_use}
           opened == {Call(c).addresses[i] : i \in
                        {j \in DOMAIN Call(c).addresses : \A b \in bad : j < b}}
       IN  IF bad = {}
             THEN /\ lib' = [lib EXCEPT !.listeners = @ \cup opened]
                  /\ calls' = Answered(calls, c, Ok(None))
             ELSE /\ lib' = [lib EXCEPT !.listeners = (@ \cup opened) \ opened]
                  /\ calls' = Answered(calls, c, Err("listen"))
    /\ UNCHANGED <<config, now, peerVars, task, limits, apps, history>>

(* ConnectPeersByServices: the pool picks peers to dial among those that are   *)
(* not connected; the caller checks afterwards whether there are enough.       *)
ConnectPeersByServices(c) ==
    /\ Takes(c, "peers_by_services")
    /\ \E chosen \in SUBSET {p \in Peers : conns[p] = 0 /\ Call(c).services \subseteq Services(p)} :
         /\ Cardinality(chosen) <= Call(c).min - Cardinality(calls[c].seen)
         /\ calls' = Answered(calls, c,
                IF Cardinality(calls[c].seen) + Cardinality(chosen) < Call(c).min
                  THEN Err("peers not found")
                  ELSE Ok(SetToSeq(calls[c].seen) \o SetToSeq(chosen)))
    /\ UNCHANGED <<config, now, peerVars, task, limits, lib, apps, history>>

(* DisconnectPeer and StartConnecting: left to the connection pool.            *)
ToPool(c) ==
    /\ Takes(c, "disconnect")
    /\ calls' = Answered(calls, c, Ok(None))
    /\ UNCHANGED <<config, now, peerVars, task, limits, lib, apps, history>>

Perform(c) ==
    \/ Dial(c) \/ DhtGet(c) \/ DhtPut(c) \/ Subscribe(c) \/ Unsubscribe(c) \/ AskSwarm(c)
    \/ ReceiveRequests(c) \/ SendRequest(c) \/ SendResponse(c) \/ ListenOn(c)
    \/ ConnectPeersByServices(c) \/ ToPool(c)
-------------------------------------------------------------------------------
Next ==
    \/ \E c \in Calls : Start(c) \/ Abandon(c) \/ Perform(c)
    \/ \E c \in Calls : OutboundDone(c) \/ FinishedWithNoAdditionalRecord(c)
                          \/ GetRecordFailed(c) \/ handle_dht_put_record(c)
    \/ \E c \in Calls, record \in config.records : FoundRecord(c, record)
    \/ \E p \in Peers : Established(p) \/ ConnectionClosed(p)
    \/ \E p \in Peers, dialer \in BOOLEAN : ConnectionEstablished(p, dialer)
    \/ \E p \in Peers, record \in config.records : handle_dht_inbound_put(p, record)
    \/ \E success \in BOOLEAN : handle_dht_bootstrap(success)
    \/ \E mode \in {"Server", "Client"} : handle_dht_mode_change(mode)
    \/ NatEvent
    \/ \E a \in config.addresses : ListenerClosed(a)
    \/ \E m \in DOMAIN config.messages : MessageReceived(m) \/ HandleMessage(m) \/ CacheExpires(m)
    \/ \E t \in DOMAIN config.topics : TakeMessage(t) \/ CloseTopic(t)
    \/ ReportValidation
    \/ \E r \in DOMAIN config.inbound : HandleRequest(r) \/ InboundFailure(r)
    \/ \E t \in DOMAIN config.types : TakeRequest(t) \/ CloseRequests(t)
    \/ TakeEvent
    \/ Tick

Spec == Init /\ [][Next]_vars

Opened == {r \in DOMAIN config.inbound : lib.inbound[r] = "open"}

Due ==
    \/ actions # <<>>
    \/ lib.outbound # {} \/ lib.puts # {} \/ lib.queries # EmptyMap \/ Opened # {}

Handles ==
    \/ \E c \in Calls : \/ Perform(c) \/ OutboundDone(c) \/ handle_dht_put_record(c)
                        \/ FinishedWithNoAdditionalRecord(c) \/ GetRecordFailed(c)
    \/ \E r \in Opened : InboundFailure(r)

(* The task keeps taking actions, and libp2p ends every request, query and     *)
(* put it was given, by a result, a timeout or the close of the connection:    *)
(* while any of this is due, one of it happens, time and again.                *)
Fairness == []<>(~Due) \/ []<><<Handles>>_vars

FairSpec == Spec /\ Fairness

-------------------------------------------------------------------------------
(* Type invariant of the task, its callers and the rate limits.                *)
TypeOK ==
    /\ connected \subseteq Peers /\ view.peers \subseteq Peers
    /\ Len(events) <= config.events_max
    /\ \A c \in Calls : calls[c].state \in {"new", "waiting", "done"}
    /\ Range(actions) \subseteq Calls /\ IsInjective(actions)
    /\ task.requests \cup task.dht_gets \cup task.dht_puts \subseteq Calls
    /\ \A q \in DOMAIN task.dht_get_results :
         task.dht_get_results[q].count \in 1..Cardinality(config.records)
    /\ task.dht_bootstrap_state \in {"NotStarted", "Started", "Completed"}
    /\ task.nat.status \in {Public, Private, Unknown}
    /\ \A p \in DOMAIN limits.rate_limits : DOMAIN limits.rate_limits[p] # {}
    /\ \A t \in DOMAIN apps.requests : Len(apps.requests[t].queue) <= apps.requests[t].size
    /\ \A t \in DOMAIN apps.topics : Len(apps.topics[t].queue) <= apps.topics[t].size

(* Network::connected_peers holds exactly the peers with an open connection    *)
(* that have done the exchange of contacts, however many connections a peer    *)
(* has and in whatever order they are opened and closed.                       *)
PeersAreExact == connected = exchanged /\ \A p \in connected : conns[p] > 0

(* A subscriber that has not lagged and replays PeerJoined and PeerLeft knows  *)
(* the connected peers, and is never told twice that a peer joined.            *)
EventsTellPeers ==
    ~view.lagged =>
        /\ FoldLeft(Seen, view.peers, events) = connected
        /\ \A i \in DOMAIN events : events[i].tag = "PeerJoined" =>
             events[i].value \notin FoldLeft(Seen, view.peers, SubSeq(events, 1, i - 1))

(* Every channel the task holds for a caller or a peer belongs to something    *)
(* libp2p still has in flight, so that it will be answered; a caller that      *)
(* waits has its action in the queue or its channel in the task. Nothing       *)
(* leaks, nobody is forgotten.                                                 *)
PendingIsReal ==
    /\ task.requests = lib.outbound
    /\ task.dht_puts = lib.puts
    /\ task.dht_gets \subseteq DOMAIN lib.queries
    /\ DOMAIN task.dht_get_results \subseteq task.dht_gets
    /\ \A r \in task.response_channels : lib.inbound[r] = "open"
    /\ \A c \in Calls : Waiting(c) =>
         c \in Range(actions) \cup task.requests \cup task.dht_puts \cup task.dht_gets

(* A call that ends well ends with its own answer. *)
AnswerStep ==
    \A c \in Calls : (Waiting(c) /\ calls'[c].state = "done" /\ calls'[c].result.tag = "ok") =>
      /\ Call(c).kind = "request" => calls'[c].result.value = c
      /\ Call(c).kind = "dht_get" =>
           /\ calls'[c].result.value \in lib.queries[c].found
           /\ \A r \in lib.queries[c].found :
                r.valid /\ r.timestamp <= calls'[c].result.value.timestamp

(* A caller gets the response to its own request; dht_get answers with the     *)
(* newest of the records found, all of which verified.                         *)
AnswersAreRight == [][AnswerStep]_vars

(* A step does not take a record back. *)
StoreStep ==
    \A k \in DOMAIN lib.store :
      \/ k \in DOMAIN lib'.store /\ lib'.store[k].timestamp >= lib.store[k].timestamp
      \/ actions' # actions

(* The DHT store only replaces a record by an older one when the node itself   *)
(* publishes: what peers put never takes a record back.                        *)
StoreNeverRegresses == [][StoreStep]_vars

(* Once the bootstrap is complete and the DHT has been in server mode, DhtReady *)
(* has been sent: in whichever order the two came about.                       *)
ReadyIsTold ==
    task.dht_bootstrap_state = "Completed" /\ task.dht_server_mode => lib.ready > 0

(* The node takes itself for publicly reachable exactly while it has a         *)
(* confirmed address.                                                          *)
NatStatusIsRight == (task.nat.status = Public) = (task.nat.confirmed # {})

(* A message is forwarded only if the application accepted it or its topic is  *)
(* not validated, and never if it exceeds the size of the topic.               *)
OnlyAcceptedAreForwarded ==
    \A m \in DOMAIN config.messages : lib.messages[m] = "Accept" =>
        /\ ~Message(m).large
        /\ Topic(Message(m).topic).validate => apps.validated[m] = "Accept"

(* The task knows exactly the topics gossipsub is subscribed to, so that a     *)
(* message always finds its topic unless it was queued before we unsubscribed. *)
TopicsAgree == task.gossip_topics = lib.subscribed

(* listen_on opens all listeners or none: what is open was asked for by a call *)
(* that was not answered with an error.                                        *)
ListensAsAnswered ==
    \A a \in lib.listeners : \E c \in Calls :
        /\ Call(c).kind = "listen_on" /\ a \in Range(Call(c).addresses)
        /\ calls[c].result # Err("listen")

(* A limit that is pending deletion is still there and expires no earlier than *)
(* its entry says, both pending structures hold the same entries, and every    *)
(* limit of a peer that left is pending: what clean_up asserts, and that no    *)
(* limit outlives its peer for good.                                           *)
PendingLimitsAreBacked ==
    /\ limits.by_time = {Expiration(k[1], k[2], limits.by_key[k]) : k \in DOMAIN limits.by_key}
    /\ \A k \in DOMAIN limits.by_key :
         /\ k[2] \in DOMAIN LimitsOf(limits, k[1])
         /\ next_reset_time(limits.by_key[k]) <= next_reset_time(limits.rate_limits[k[1]][k[2]])
    /\ \A p \in DOMAIN limits.rate_limits : conns[p] = 0 =>
         \A i \in DOMAIN limits.rate_limits[p] : <<p, i>> \in DOMAIN limits.by_key

Within(h, t) == h.at > t - h.window /\ h.at <= t

(* In no time window do more than twice the allowed requests of a peer pass    *)
(* (fixed windows), however often the peer reconnects in between.              *)
LimitHolds ==
    \A h \in history : ~h.denied =>
        Cardinality({g \in history : g.peer = h.peer /\ g.id = h.id /\ ~g.denied
                                        /\ Within(g, h.at)}) <= 2 * h.max

(* A peer that stays within the limit is never denied: a denial means that     *)
(* more than the allowed number came within one time window.                   *)
DenialsAreEarned ==
    \A h \in history : h.denied =>
        Cardinality({g \in history : g.peer = h.peer /\ g.id = h.id /\ Within(g, h.at)}) > h.max

NothingPending ==
    /\ actions = <<>>
    /\ \A c \in Calls : ~Waiting(c)
    /\ task.requests \cup task.dht_gets \cup task.dht_puts = {}
    /\ task.response_channels = {}

(* Every caller is answered and the task ends up holding no channel, provided  *)
(* that libp2p ends what it was given.                                         *)
EveryCallEnds == []<>NothingPending

(* DhtReady is documented as "DHT is ready (bootstrapped and in server mode)   *)
(* to publish records": the DHT is in server mode when it is sent.  Not so in  *)
(* the code: dht_server_mode stays true when the mode changes back to client,  *)
(* and a later bootstrap announces the DHT again.                              *)
ReadyInServerMode ==
    \A i \in DOMAIN events : events[i].tag = "DhtReady" => events[i].value = "Server"

(* get_peers_by_services returns at least the minimum of peers, or an error.   *)
(* Not so in the code: a connected peer that leaves during the await may be    *)
(* chosen by the pool, and is then in the result twice.                        *)
EnoughPeers ==
    \A c \in Calls : Call(c).kind = "peers_by_services" /\ calls[c].result.tag = "ok" =>
        Cardinality(Range(calls[c].result.value)) >= Call(c).min
===============================================================================
