-------------------------------- MODULE Discovery --------------------------------
(***************************************************************************)
(* Peer discovery between two connected nodes: the handler of a connection  *)
(* (handshake, acknowledgement, periodic updates), the contact book of each *)
(* node, and the discovery behaviour that announces peers, closes           *)
(* connections after an error and keeps the book.                           *)
(*                                                                           *)
(* `nodes[n]` holds a node's book, own contact, housekeeping timer, handler  *)
(* (None without a connection) and the handler events its behaviour has not  *)
(* seen yet; `wire[n]` the messages under way to n; `seen` what the          *)
(* behaviours told the swarm.  Signatures are those of the named peer.       *)
(***************************************************************************)
EXTENDS Integers, FiniteSets, FiniteSetsExt, Sequences, SequencesExt, Functions

CONSTANTS
    None,                      \* Option::None
    Configurations,            \* the scenarios
    MAX_ADDRESSES,             \* addresses of a contact
    MAX_PEER_AGE,              \* ticks after which a contact is removed
    STATE_TRANSITION_TIMEOUT,  \* ticks a state of the handshake may last
    MAX_SEND_UPDATE_INTERVAL,  \* longest interval of updates
    WINDOW                     \* messages the stream to a peer takes

VARIABLES config, now, nodes, wire, seen, budget

vars == <<config, now, nodes, wire, seen, budget>>

Nodes == {"a", "b"}

Peer(n) == CHOOSE p \in Nodes : p # n

C(n) == config.node[n]

(* The clocks of the nodes may differ.                                       *)
Clock(n) == now + C(n).skew

(***************************************************************************)
(* Contacts and the contact book                                            *)
(***************************************************************************)
verify(c) == Len(c.addresses) <= MAX_ADDRESSES

add_addresses(c, as) ==
    [c EXCEPT !.addresses = @ \o SubSeq(as, 1, Min({Len(as), MAX_ADDRESSES - Len(@)}))]

remove_addresses(c, as) == [c EXCEPT !.addresses = SelectSeq(@, LAMBDA a : a \notin Range(as))]

exceeds_age(c, time) == time < c.timestamp \/ time - c.timestamp > MAX_PEER_AGE

matches(c, services) == services \subseteq c.services

Entered(book, c) ==
    IF c.peer \in DOMAIN book /\ book[c.peer].timestamp >= c.timestamp THEN book
    ELSE [p \in DOMAIN book \cup {c.peer} |-> IF p = c.peer THEN c ELSE book[p]]

IsSecure(c) == \E i \in 1 .. Len(c.addresses) : c.addresses[i] = "wss"

insert_filtered(n, book, c) ==
    LET keep_validator == {"validator"} \subseteq nodes[n].own.services /\ {"validator"} \subseteq c.services
    IN  IF \/ ~keep_validator /\ ~matches(c, C(n).required_services)
           \/ C(n).only_secure_ws_connections /\ ~IsSecure(c)
           \/ c.timestamp > Clock(n)
           \/ exceeds_age(c, Clock(n))
        THEN book
        ELSE Entered(book, c)

insert_all_filtered(n, book, cs) == FoldSet(LAMBDA c, b : insert_filtered(n, b, c), book, cs)

insert(n, book, c) ==
    IF c.peer = n \/ c.timestamp > Clock(n) THEN book ELSE Entered(book, c)

query(book, services) == {book[p] : p \in {q \in DOMAIN book : matches(book[q], services)}}

update_own_contact(n, c) == [c EXCEPT !.timestamp = Clock(n)]

house_keeping(n, book) == Restrict(book, {p \in DOMAIN book : ~exceeds_age(book[p], Clock(n))})

(***************************************************************************)
(* The handler                                                              *)
(***************************************************************************)
NewHandler == [state |-> "Init", timeout |-> None, services_filter |-> {}, peer_list_limit |-> None,
               timer |-> None, last_update_time |-> None, inbound |-> FALSE, outbound |-> FALSE, events |-> 0]

H(n) == nodes[n].handler

Connected == H("a") # None

WithHandler(n, h) == [nodes EXCEPT ![n].handler = h]

Notified(n, h, event) == [nodes EXCEPT ![n].handler = h, ![n].notes = Append(@, event)]

Error(error) == [kind |-> "Error", error |-> error]

Samples(S, k) == kSubset(Min({k, Cardinality(S)}), S)

get_peer_contacts(n, h, limit) == Samples(query(nodes[n].book, h.services_filter), limit)

Send(n, message) == wire' = [wire EXCEPT ![Peer(n)] = Append(@, message)]

Receive(n) == wire' = [wire EXCEPT ![n] = Tail(@)]

SendAndReceive(n, message) == wire' = [wire EXCEPT ![n] = Tail(@), ![Peer(n)] = Append(@, message)]

Limited(n, cs) == Cardinality(cs) > C(n).update_limit

(* What poll does first: a timeout is an error; without space in the stream  *)
(* nothing is done.                                                          *)
TimedOut(n) == H(n).timeout = 0

Ready(n) ==
    /\ H(n) # None
    /\ ~TimedOut(n)
    /\ H(n).outbound => Len(wire[Peer(n)]) < WINDOW

Timeout(n) ==
    /\ H(n) # None
    /\ TimedOut(n)
    /\ nodes[n].notes = <<>>
    /\ nodes' = Notified(n, H(n), Error("StateTransitionTimeout"))
    /\ UNCHANGED <<config, now, wire, seen, budget>>

OpenSubstream(n) ==
    /\ Ready(n) /\ H(n).state = "Init"
    /\ nodes' = WithHandler(n, [H(n) EXCEPT !.state = "OpenSubstream", !.timeout = STATE_TRANSITION_TIMEOUT])
    /\ UNCHANGED <<config, now, wire, seen, budget>>

check_initialized(h) ==
    IF h.inbound /\ h.outbound
    THEN [h EXCEPT !.state = "SendHandshake", !.timeout = STATE_TRANSITION_TIMEOUT]
    ELSE h

(* The substream requested by n is negotiated: first one side learns of it,  *)
(* then the other.                                                           *)
FullyNegotiatedInbound(n) ==
    /\ Connected
    /\ H(Peer(n)).state # "Init" /\ ~H(n).inbound
    /\ nodes' = WithHandler(n, check_initialized([H(n) EXCEPT !.inbound = TRUE]))
    /\ UNCHANGED <<config, now, wire, seen, budget>>

FullyNegotiatedOutbound(n) ==
    /\ Connected
    /\ H(n).state = "OpenSubstream" /\ ~H(n).outbound
    /\ nodes' = WithHandler(n, check_initialized([H(n) EXCEPT !.outbound = TRUE]))
    /\ UNCHANGED <<config, now, wire, seen, budget>>

SendHandshake(n) ==
    /\ Ready(n) /\ H(n).state = "SendHandshake"
    /\ Send(n, [kind |-> "Handshake", nonce |-> n, genesis_hash |-> C(n).genesis_hash,
                limit |-> C(n).update_limit, services |-> C(n).required_services])
    /\ nodes' = WithHandler(n, [H(n) EXCEPT !.state = "ReceiveHandshake", !.timeout = STATE_TRANSITION_TIMEOUT])
    /\ UNCHANGED <<config, now, seen, budget>>

Failed(n, error) ==
    /\ nodes' = Notified(n, H(n), Error(error))
    /\ Receive(n)

Arrived(n) == Ready(n) /\ wire[n] # <<>>

(* Mutant: the limit the peer asked for is not lowered to our own.           *)
PeerListLimit_theirs(n, limit) == Max({limit, C(n).update_limit})

PeerListLimit(n, limit) == Min({limit, C(n).update_limit})

ReceiveHandshake(n) ==
    /\ Arrived(n) /\ H(n).state = "ReceiveHandshake"
    /\ LET m == Head(wire[n])
       IN  IF m.kind # "Handshake" THEN Failed(n, "UnexpectedMessage")
           ELSE IF m.genesis_hash # C(n).genesis_hash THEN Failed(n, "GenesisHashMismatch")
           ELSE LET h == [H(n) EXCEPT !.peer_list_limit = PeerListLimit(n, m.limit),
                                      !.services_filter = m.services,
                                      !.state = "ReceiveHandshakeAck", !.timeout = STATE_TRANSITION_TIMEOUT]
                IN  \E cs \in get_peer_contacts(n, h, h.peer_list_limit) :
                       /\ SendAndReceive(n, [kind |-> "HandshakeAck", peer_contact |-> nodes[n].own,
                                             response |-> <<n, m.nonce>>,
                                             update_interval |-> C(n).update_interval, peer_contacts |-> cs])
                       /\ nodes' = Notified(n, h, [kind |-> "ObservedAddress"])
    /\ UNCHANGED <<config, now, seen, budget>>

UpdateInterval(n, secs) ==
    IF secs < C(n).min_send_update_interval THEN C(n).min_send_update_interval
    ELSE Min({secs, MAX_SEND_UPDATE_INTERVAL})

ReceiveHandshakeAck(n) ==
    /\ Arrived(n) /\ H(n).state = "ReceiveHandshakeAck"
    /\ LET m == Head(wire[n])
       IN  IF m.kind # "HandshakeAck" THEN Failed(n, "UnexpectedMessage")
           ELSE IF ~verify(m.peer_contact) THEN Failed(n, "InvalidPeerContactSignature")
           ELSE IF m.peer_contact.peer # Peer(n) \/ m.response # <<m.peer_contact.peer, n>>
                THEN Failed(n, "ChallengeResponseFailed")
           ELSE IF Limited(n, m.peer_contacts) THEN Failed(n, "UpdateLimitExceeded")
           ELSE IF \E c \in m.peer_contacts : ~verify(c) THEN Failed(n, "InvalidPeerContactSignature")
           ELSE LET interval == UpdateInterval(n, m.update_interval)
                    h == [H(n) EXCEPT !.state = "Established", !.timeout = None,
                                      !.timer = [period |-> interval, next |-> interval, due |-> 0]]
                IN  /\ Receive(n)
                    /\ nodes' = [Notified(n, h, [kind |-> "PeerExchangeEstablished"]) EXCEPT
                                    ![n].book = insert_all_filtered(n, insert(n, @, m.peer_contact), m.peer_contacts)]
    /\ UNCHANGED <<config, now, seen, budget>>

ReceiveUpdate(n) ==
    /\ Arrived(n) /\ H(n).state = "Established"
    /\ LET m == Head(wire[n])
           h == [H(n) EXCEPT !.last_update_time = 0]
       IN  IF m.kind # "PeerAddresses" THEN Failed(n, "UnexpectedMessage")
           ELSE IF H(n).last_update_time # None /\ H(n).last_update_time < C(n).min_recv_update_interval
                THEN Failed(n, "TooFrequentUpdates")
           ELSE IF Limited(n, m.peer_contacts) THEN Failed(n, "UpdateLimitExceeded")
           ELSE IF \E c \in m.peer_contacts : ~verify(c) THEN Failed(n, "InvalidPeerContactSignature")
           ELSE /\ Receive(n)
                /\ nodes' = [Notified(n, h, [kind |-> "Update"]) EXCEPT
                                ![n].book = insert_all_filtered(n, @, m.peer_contacts)]
    /\ UNCHANGED <<config, now, seen, budget>>

Update(n, cs) == cs \cup {nodes[n].own}

(* Nothing arrived and the timer of the updates fired.                       *)
SendUpdate(n) ==
    /\ Ready(n) /\ H(n).state = "Established" /\ wire[n] = <<>>
    /\ H(n).timer.due > 0
    /\ \E cs \in get_peer_contacts(n, H(n), Max({0, H(n).peer_list_limit - 1})) :
          Send(n, [kind |-> "PeerAddresses", peer_contacts |-> Update(n, cs)])
    /\ nodes' = WithHandler(n, [H(n) EXCEPT !.timer.due = @ - 1])
    /\ UNCHANGED <<config, now, seen, budget>>

(***************************************************************************)
(* The behaviour                                                            *)
(***************************************************************************)
Disconnected(ns) == [n \in Nodes |-> [ns[n] EXCEPT !.handler = None, !.notes = <<>>]]

(* on_connection_handler_event: an error closes all connections to the peer. *)
on_connection_handler_event(n) ==
    /\ nodes[n].notes # <<>>
    /\ LET event == Head(nodes[n].notes)
       IN  /\ nodes' = IF event.kind = "Error" THEN Disconnected(nodes) ELSE [nodes EXCEPT ![n].notes = Tail(@)]
           /\ wire' = IF event.kind = "Error" THEN [m \in Nodes |-> <<>>] ELSE wire
           /\ seen' = CASE event.kind = "Error" -> [seen EXCEPT !.errors = @ \cup {event.error}, !.announced = {}]
                        [] event.kind = "PeerExchangeEstablished" ->
                              IF Peer(n) \in DOMAIN nodes[n].book
                              THEN [seen EXCEPT !.announced = @ \cup {n}] ELSE seen
                        [] OTHER -> seen
    /\ UNCHANGED <<config, now, budget>>

(* The housekeeping timer fired.                                             *)
HouseKeeping(n) ==
    /\ nodes[n].timer.due > 0
    /\ nodes' = [nodes EXCEPT ![n].timer.due = @ - 1,
                              ![n].own = update_own_contact(n, @),
                              ![n].book = house_keeping(n, @)]
    /\ UNCHANGED <<config, now, wire, seen, budget>>

Spend(what) == budget[what] > 0 /\ budget' = [budget EXCEPT ![what] = @ - 1]

AddOwnAddresses(n) ==
    /\ Spend("addresses")
    /\ nodes' = [nodes EXCEPT ![n].own = add_addresses(@, <<"ws", "wss">>)]
    /\ UNCHANGED <<config, now, wire, seen>>

RemoveOwnAddresses(n) ==
    /\ Spend("addresses")
    /\ nodes' = [nodes EXCEPT ![n].own = remove_addresses(@, <<"wss">>)]
    /\ UNCHANGED <<config, now, wire, seen>>

Connect ==
    /\ ~Connected
    /\ Spend("connections")
    /\ nodes' = [n \in Nodes |-> [nodes[n] EXCEPT !.handler = NewHandler]]
    /\ UNCHANGED <<config, now, wire, seen>>

(* The connection ends for a reason outside of discovery.                    *)
Disconnect ==
    /\ Connected
    /\ Spend("losses")
    /\ nodes' = Disconnected(nodes)
    /\ wire' = [n \in Nodes |-> <<>>]
    /\ seen' = [seen EXCEPT !.announced = {}]
    /\ UNCHANGED <<config, now>>

Timer(t) == IF t.next = 1 THEN [t EXCEPT !.next = t.period, !.due = @ + 1] ELSE [t EXCEPT !.next = @ - 1]

AgedHandler(h) ==
    IF h = None THEN None
    ELSE [h EXCEPT !.timeout = IF @ = None THEN None ELSE Max({@ - 1, 0}),
                   !.timer = IF @ = None THEN None ELSE Timer(@),
                   !.last_update_time = IF @ = None THEN None ELSE @ + 1]

HandlerBusy(n) == H(n) # None /\ (H(n).state # "Established" \/ H(n).timer.due > 0)

(* A behaviour handles events and its housekeeping within a tick; in a       *)
(* prompt scenario so do the handlers, and messages arrive.                  *)
Tick ==
    /\ now < config.max_time
    /\ \A n \in Nodes : nodes[n].timer.due = 0 /\ nodes[n].notes = <<>>
    /\ config.prompt => \A n \in Nodes : wire[n] = <<>> /\ ~HandlerBusy(n)
    /\ now' = now + 1
    /\ nodes' = [n \in Nodes |-> [nodes[n] EXCEPT !.timer = Timer(@), !.handler = AgedHandler(@)]]
    /\ UNCHANGED <<config, wire, seen, budget>>

Init ==
    /\ config \in Configurations
    /\ now = 1
    /\ nodes = [n \in Nodes |->
                  [book |-> config.node[n].book, notes |-> <<>>, handler |-> None,
                   own |-> [peer |-> n, timestamp |-> 1 + config.node[n].skew, services |-> config.node[n].services,
                            addresses |-> config.node[n].addresses],
                   timer |-> [period |-> config.node[n].house_keeping_interval,
                              next |-> config.node[n].house_keeping_interval, due |-> 0]]]
    /\ wire = [n \in Nodes |-> <<>>]
    /\ seen = [announced |-> {}, errors |-> {}]
    /\ budget = config.budget

Next ==
    \/ \E n \in Nodes :
          \/ Timeout(n) \/ OpenSubstream(n) \/ FullyNegotiatedInbound(n) \/ FullyNegotiatedOutbound(n)
          \/ SendHandshake(n) \/ ReceiveHandshake(n) \/ ReceiveHandshakeAck(n)
          \/ ReceiveUpdate(n) \/ SendUpdate(n)
          \/ on_connection_handler_event(n) \/ HouseKeeping(n)
          \/ AddOwnAddresses(n) \/ RemoveOwnAddresses(n)
    \/ Connect
    \/ Disconnect
    \/ Tick

Spec == Init /\ [][Next]_vars

(***************************************************************************)
(* Properties                                                               *)
(***************************************************************************)
States == {"Init", "OpenSubstream", "SendHandshake", "ReceiveHandshake", "ReceiveHandshakeAck", "Established"}

(* Handlers come and go in pairs; a handler has a timeout until it is        *)
(* established and a timer from then on; a book lists contacts under their   *)
(* peer.                                                                     *)
TypeOK ==
    /\ H("a") = None <=> H("b") = None
    /\ \A n \in Nodes :
         /\ \A p \in DOMAIN nodes[n].book : nodes[n].book[p].peer = p
         /\ H(n) # None =>
               /\ H(n).state \in States
               /\ H(n).state = "Init" => H(n).timeout = None
               /\ H(n).state = "Established" <=> H(n).timer # None
               /\ H(n).state \notin {"Init", "Established"} => H(n).timeout \in 0 .. STATE_TRANSITION_TIMEOUT
    /\ seen.announced \subseteq Nodes

SameNetwork == config.node["a"].genesis_hash = config.node["b"].genesis_hash

(* Two nodes of one network that run this code do not close the connection:  *)
(* whatever their limits, intervals, books and addresses are, and however    *)
(* their handshakes interleave, no message is unexpected, too large or       *)
(* unverifiable.  Only slowness ends it: a state that lasted too long, or    *)
(* updates that queued up.                                                   *)
HonestPairStaysConnected ==
    SameNetwork => seen.errors \subseteq IF config.prompt THEN {}
                                         ELSE {"StateTransitionTimeout", "TooFrequentUpdates"}

(* A handler that finished its exchange was announced to the swarm (unless   *)
(* the event is still on its way), since its peer is in the book when the    *)
(* behaviour handles the event.  This is of peers whose clock is not ahead   *)
(* of ours, see AnnouncedWhateverTheClock.                                   *)
EstablishedAreAnnounced ==
    \A n \in Nodes :
        (H(n) # None /\ C(n).skew >= C(Peer(n)).skew) =>
            (H(n).state = "Established" /\ nodes[n].notes = <<>> => n \in seen.announced)

(* A book is current: no contact is from the future, none has outlived its   *)
(* age by more than the interval of the housekeeping, although peers keep    *)
(* sending each other the contacts of nodes that have gone.                  *)
BooksAreCurrent ==
    \A n \in Nodes : \A p \in DOMAIN nodes[n].book :
        /\ nodes[n].book[p].timestamp <= Clock(n)
        /\ Clock(n) - nodes[n].book[p].timestamp <= MAX_PEER_AGE + C(n).house_keeping_interval

(* The contact of a connected peer that we look for does not age out: its    *)
(* updates renew it in time.                                                 *)
ConnectedStayKnown ==
    config.prompt => \A n \in Nodes :
        (H(n) # None /\ C(Peer(n)).skew = C(n).skew /\ C(n).required_services \subseteq C(Peer(n)).services) =>
            (H(n).state = "Established" => Peer(n) \in DOMAIN nodes[n].book)

(* A step replaces a contact by one that is not older. *)
NewerStep ==
    \A n \in Nodes : \A p \in DOMAIN nodes[n].book \cap DOMAIN nodes'[n].book :
       nodes'[n].book[p].timestamp >= nodes[n].book[p].timestamp

(* A contact in a book is only ever replaced by a newer one, in whatever     *)
(* order the copies sent around arrive.                                      *)
ContactsOnlyGetNewer == [][NewerStep]_vars

(* Our own contact is not in our book (insert refuses it).  Not so in the    *)
(* code: insert_filtered, which takes the contacts of an update, does not.   *)
OwnContactStaysOut == \A n \in Nodes : n \notin DOMAIN nodes[n].book

(* An exchange that was completed is announced, whatever the clocks say.     *)
(* Not so in the code: the contact of a peer whose clock is ahead is refused *)
(* as one from the future, and without it the behaviour drops the event.     *)
AnnouncedWhateverTheClock ==
    \A n \in Nodes : H(n) # None =>
        (H(n).state = "Established" /\ nodes[n].notes = <<>> => n \in seen.announced)

=============================================================================
