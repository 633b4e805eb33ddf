------------------------------ MODULE ConnectionPool ------------------------------
(***************************************************************************)
(* The connection pool of the libp2p network: which peers and seeds are     *)
(* dialled, which connections are admitted, and the counters that limit     *)
(* them.  `pool` holds the two ConnectionStates (per peer id and per         *)
(* address), the queue of actions for the swarm and the active flag;         *)
(* `limits` the counters and what each connection was charged; `contacts`    *)
(* the part of the contact book the pool reads.  `conns` is the swarm (a     *)
(* library): its dials, handshakes and open connections, whose results       *)
(* arrive at the pool in any order.                                          *)
(*                                                                           *)
(* Time advances in ticks of one second.  An address stands for a multiaddr  *)
(* with an IP; config tells its IP, its subnet and who answers there.        *)
(***************************************************************************)
EXTENDS Integers, FiniteSets, FiniteSetsExt, Sequences, SequencesExt, Functions

CONSTANTS
    None,                  \* Option::None
    Own,                   \* our own peer id
    Configurations,        \* the scenarios
    MAX_PEER_FAILURES,     \* failed dials after which a peer is down
    MAX_ADDRESS_FAILURES,  \* failed dials after which an address is down
    RETRY_DOWN,            \* ticks after which a down id is dialled again
    BAN_TIME               \* ticks a ban lasts

VARIABLES config, contacts, pool, limits, conns, budget

vars == <<config, contacts, pool, limits, conns, budget>>

Ids == 1 .. config.connections

Peers == DOMAIN config.contacts

Addresses == DOMAIN config.ip

(***************************************************************************)
(* ConnectionState                                                          *)
(***************************************************************************)
EmptyFn == [x \in {} |-> 0]

Without(f, id) == Restrict(f, DOMAIN f \ {id})

With(f, id, v) == [x \in DOMAIN f \cup {id} |-> IF x = id THEN v ELSE f[x]]

NewState == [dialing |-> {}, connected |-> EmptyFn, banned |-> {}, unban |-> <<>>,
             failed |-> EmptyFn, down |-> EmptyFn]

mark_dialing(s, ids) == [s EXCEPT !.dialing = @ \cup ids]

mark_connected(s, id, services) ==
    [s EXCEPT !.dialing = @ \ {id}, !.failed = Without(@, id), !.down = Without(@, id),
              !.connected = With(@, id, services)]

mark_closed(s, id) == [s EXCEPT !.connected = Without(@, id)]

(* The head of `unban` is the unban timeout, the rest the deadlines.        *)
mark_banned(s, id) ==
    [s EXCEPT !.failed = Without(@, id), !.down = Without(@, id), !.banned = @ \cup {id},
              !.unban = Append(@, <<id, BAN_TIME>>)]

mark_down(s, id) == [s EXCEPT !.failed = Without(@, id), !.down = With(@, id, 0)]

mark_failed(s, id, max) ==
    LET t == [s EXCEPT !.dialing = @ \ {id}]
    IN  IF (id \in s.dialing /\ id \in DOMAIN s.connected) \/ id \in DOMAIN s.down THEN t
        ELSE IF id \notin DOMAIN s.failed THEN [t EXCEPT !.failed = With(@, id, 1)]
        ELSE IF s.failed[id] + 1 >= max THEN mark_down(t, id)
        ELSE [t EXCEPT !.failed[id] = @ + 1]

can_dial(s, id) == id \notin s.dialing \cup DOMAIN s.connected \cup DOMAIN s.down \cup s.banned

(* num_connected(true): those whose services were known to suffice when the *)
(* connection was opened.                                                   *)
num_connected(s) == Cardinality({id \in DOMAIN s.connected : s.connected[id]})

state_housekeeping(s) ==
    LET retry == IF num_connected(s) < config.desired THEN 1 ELSE RETRY_DOWN
    IN  [s EXCEPT !.down = Restrict(@, {id \in DOMAIN @ : @[id] < retry})]

(* ConnectionState::poll: every ban whose deadline was reached is lifted.    *)
poll_unban(s) ==
    LET due == {i \in 1 .. Len(s.unban) : \A j \in 1 .. i : s.unban[j][2] = 0}
    IN  [s EXCEPT !.banned = @ \ {s.unban[i][1] : i \in due},
                  !.unban = SubSeq(@, Cardinality(due) + 1, Len(@))]

Aged(s) ==
    [s EXCEPT !.down = [id \in DOMAIN @ |-> Min({@[id] + 1, RETRY_DOWN})],
              !.unban = [i \in DOMAIN @ |-> <<@[i][1], Max({@[i][2] - 1, 0})>>]]

(***************************************************************************)
(* What to dial                                                             *)
(***************************************************************************)
DialPeer(p) == <<"dial_peer", p>>

DialSeed(a) == <<"dial_seed", a>>

CloseAll(p) == <<"close_all", p>>

CloseOne(p, c) == <<"close_one", c>>

Samples(S, n) == kSubset(Min({n, Cardinality(S)}), S)

(* The contacts that provide `services`, can be dialled and have an address. *)
Dialable(s, b) ==
    {p \in Peers \ {Own} : /\ b[p] # None
                           /\ b[p].useful
                           /\ can_dial(s, p)
                           /\ b[p].addresses # {}}

choose_peers_to_dial(q, b) ==
    Samples(Dialable(q.peer_ids, b),
            Min({config.desired - num_connected(q.peer_ids),
                 config.dialing_max - Cardinality(q.peer_ids.dialing)}))

choose_seeds_to_dial(q) ==
    IF q.peer_ids.dialing # {} \/ q.addresses.dialing # {} THEN {{}}
    ELSE Samples({a \in config.seeds \ config.own_addresses : can_dial(q.addresses, a)},
                 config.initial)

Below(q) == q.active /\ num_connected(q.peer_ids) < config.desired

NumDialing(q) == Cardinality(q.peer_ids.dialing) + Cardinality(q.addresses.dialing)

DialingPeers(q, ps) ==
    [q EXCEPT !.peer_ids = mark_dialing(@, ps),
              !.actions = @ \o SetToSeq({DialPeer(p) : p \in ps})]

DialingSeeds(q, as) ==
    [q EXCEPT !.addresses = mark_dialing(@, as),
              !.actions = @ \o SetToSeq({DialSeed(a) : a \in as})]

(* maintain_peers: the states it may lead to, one for each random choice.    *)
maintain_peers(q, b) ==
    LET r == IF Below(q) /\ NumDialing(q) = 0
             THEN [q EXCEPT !.addresses = state_housekeeping(@), !.peer_ids = state_housekeeping(@)]
             ELSE q
    IN  IF ~(Below(r) /\ NumDialing(r) < config.dialing_max) THEN {r}
        ELSE UNION {{DialingSeeds(d, as) : as \in choose_seeds_to_dial(d)} :
                       d \in {DialingPeers(r, ps) : ps \in choose_peers_to_dial(r, b)}}

(***************************************************************************)
(* Limits                                                                   *)
(***************************************************************************)
NoLimits == [ip |-> EmptyFn, subnet |-> EmptyFn, inbound |-> 0, outbound |-> 0,
             pending |-> EmptyFn, charges |-> EmptyFn]

Count(f, k) == IF k \in DOMAIN f THEN f[k] ELSE 0

increment_count(f, k) == With(f, k, Count(f, k) + 1)

decrement_count(f, k) == IF Count(f, k) <= 1 THEN Without(f, k) ELSE [f EXCEPT ![k] = @ - 1]

check_peer_limit(l, dir) == l[dir] < config.count_max

check_ip_limits(l, a) ==
    /\ Count(l.ip, config.ip[a]) < config.per_ip
    /\ Count(l.subnet, config.subnet[a]) < config.per_subnet

check_pending_limit(l, a) == Count(l.pending, config.subnet[a]) < config.pending_max

NoCharge == [address |-> None, pending |-> FALSE, dir |-> None]

Charge(l, c) == IF c \in DOMAIN l.charges THEN l.charges[c] ELSE NoCharge

HasIp(a) == config.ip[a] # None

charge_pending(l, c, a) ==
    [l EXCEPT !.pending = increment_count(@, config.subnet[a]),
              !.charges = With(@, c, [Charge(l, c) EXCEPT !.pending = TRUE])]

release_pending(l, c) ==
    IF ~Charge(l, c).pending THEN l
    ELSE [l EXCEPT !.pending = decrement_count(@, config.subnet[l.charges[c].address]),
                   !.charges[c].pending = FALSE]

charge_peer_count(l, c, dir) ==
    [l EXCEPT ![dir] = @ + 1, !.charges = With(@, c, [Charge(l, c) EXCEPT !.dir = dir])]

charge_ip_counters(l, c, a) ==
    [l EXCEPT !.ip = increment_count(@, config.ip[a]),
              !.subnet = increment_count(@, config.subnet[a]),
              !.charges = With(@, c, [Charge(l, c) EXCEPT !.address = a])]

Uncharged(l, c) == [l EXCEPT !.charges = Without(@, c)]

(* Mutant: a connection that ends in its handshake stays counted as pending. *)
release_connection_keeps_pending(l, c) ==
    LET charge == Charge(l, c)
        m == IF charge.address = None THEN l
             ELSE [l EXCEPT !.ip = decrement_count(@, config.ip[charge.address]),
                            !.subnet = decrement_count(@, config.subnet[charge.address])]
        n == IF charge.dir = None THEN m ELSE [m EXCEPT ![charge.dir] = @ - 1]
    IN  Uncharged(n, c)

release_connection(l0, c) ==
    LET l == release_pending(l0, c)
        charge == Charge(l, c)
        m == IF charge.address = None THEN l
             ELSE [l EXCEPT !.ip = decrement_count(@, config.ip[charge.address]),
                            !.subnet = decrement_count(@, config.subnet[charge.address])]
        n == IF charge.dir = None THEN m ELSE [m EXCEPT ![charge.dir] = @ - 1]
    IN  Uncharged(n, c)

(***************************************************************************)
(* What the swarm reports                                                   *)
(***************************************************************************)
IsOpen(c) == c \in DOMAIN conns /\ conns[c].stage \in {"open", "closing"}

OpenTo(p) == {c \in DOMAIN conns : IsOpen(c) /\ conns[c].peer = p}

(* A connection id that neither the swarm nor a queued action refers to.     *)
FreeIds == {c \in Ids : c \notin DOMAIN conns /\ ~Contains(pool.actions, CloseOne(None, c))}

NewId == Min(FreeIds)

Queued(q, action) == [q EXCEPT !.actions = Append(@, action)]

AddressesFailed(q, as) ==
    [q EXCEPT !.addresses = FoldSet(LAMBDA a, s : mark_failed(s, a, MAX_ADDRESS_FAILURES), @, as)]

on_connection_established(q, b, p, c, a, failed, others) ==
    LET r == AddressesFailed(q, failed)
        services == b[p] # None /\ b[p].useful
    IN  IF others > 3 THEN {IF config.own_greater THEN Queued(r, CloseOne(p, c)) ELSE r}
        ELSE maintain_peers([r EXCEPT !.peer_ids = mark_connected(@, p, services),
                                      !.addresses = mark_connected(@, a, services)], b)

on_connection_closed(q, b, p, a, remaining) ==
    IF remaining > 0 THEN {q}
    ELSE maintain_peers([q EXCEPT !.peer_ids = mark_down(mark_closed(@, p), p),
                                  !.addresses = mark_down(mark_closed(@, a), a)], b)

PeerFailed(q, p) ==
    IF p = None THEN q ELSE [q EXCEPT !.peer_ids = mark_failed(@, p, MAX_PEER_FAILURES)]

on_dial_failure(q, b, p, error, as) ==
    CASE error = "Transport" -> maintain_peers(AddressesFailed(PeerFailed(q, p), as), b)
      [] error = "DialPeerConditionFalse" -> {q}
      [] OTHER -> IF p = None THEN {q} ELSE maintain_peers(PeerFailed(q, p), b)

(* Handler::new of the discovery behaviour remembers the first address a     *)
(* contact connected from.                                                   *)
set_outer_protocol_address(b, p, a) ==
    IF b[p] = None \/ ~HasIp(a) THEN b
    ELSE IF b[p].outer # None THEN b
    ELSE [b EXCEPT ![p].outer = config.ip[a]]

(***************************************************************************)
(* Actions                                                                  *)
(***************************************************************************)
Contact(p) == [addresses |-> config.contacts[p].addresses, useful |-> config.contacts[p].useful,
               outer |-> None]

Init ==
    /\ config \in Configurations
    /\ contacts = [p \in DOMAIN config.contacts |-> IF p \in config.known THEN Contact(p) ELSE None]
    /\ pool = [peer_ids |-> NewState, addresses |-> NewState, actions |-> <<>>, active |-> FALSE]
    /\ limits = NoLimits
    /\ conns = EmptyFn
    /\ budget = config.budget

Spend(what) == budget[what] > 0 /\ budget' = [budget EXCEPT ![what] = @ - 1]

start_connecting ==
    /\ ~pool.active
    /\ Spend("starts")
    /\ pool' \in maintain_peers([pool EXCEPT !.active = TRUE], contacts)
    /\ UNCHANGED <<config, contacts, limits, conns>>

ban_connection(q, b, p) ==
    [q EXCEPT !.peer_ids = mark_banned(@, p),
              !.addresses = IF b[p] = None THEN @
                            ELSE IF b[p].outer = None THEN @
                            ELSE mark_banned(@, b[p].outer)]

close_connection(p, reason) ==
    LET q == Queued(pool, CloseAll(p))
    IN  /\ Spend(reason)
        /\ pool' = CASE reason = "MaliciousPeer" -> ban_connection(q, contacts, p)
                     [] reason = "GoingOffline" -> [q EXCEPT !.active = FALSE]
                     [] OTHER -> q
        /\ UNCHANGED <<config, contacts, limits, conns>>

(* A discovery event: the contact of p was inserted or replaced by a newer   *)
(* one, which starts without the address p connected from.                   *)
handle_discovery_event(p) ==
    /\ Spend("updates")
    /\ contacts' = [contacts EXCEPT ![p] = Contact(p)]
    /\ pool' \in maintain_peers(pool, contacts')
    /\ UNCHANGED <<config, limits, conns>>

(* Behaviour::poll without actions: bans end and, when its timer fired, the  *)
(* housekeeping runs.                                                        *)
PolledTimers(due) ==
    LET q == [pool EXCEPT !.peer_ids = poll_unban(@), !.addresses = poll_unban(@)]
    IN  IF ~due THEN {q}
        ELSE maintain_peers([q EXCEPT !.peer_ids = state_housekeeping(@),
                                      !.addresses = state_housekeeping(@)], contacts)

PollTimers(due) ==
    /\ pool.actions = <<>>
    /\ pool' \in PolledTimers(due)
    /\ UNCHANGED <<config, contacts, limits, conns, budget>>

Tick ==
    /\ pool' = [pool EXCEPT !.peer_ids = Aged(@), !.addresses = Aged(@)]
    /\ UNCHANGED <<config, contacts, limits, conns, budget>>

Popped == [pool EXCEPT !.actions = Tail(@)]

Dial(peer, as) ==
    With(conns, NewId, [peer |-> peer, address |-> None, addrs |-> as, dir |-> "outbound",
                        stage |-> "dialing"])

(* The swarm takes an action of the pool: a dial it refuses at once (the     *)
(* peer is connected, no address is known, too many dials) is reported at    *)
(* once; a close of all connections also aborts the dials to the peer.       *)
TakeDialPeer ==
    /\ pool.actions # <<>>
    /\ Head(pool.actions)[1] = "dial_peer"
    /\ LET p == Head(pool.actions)[2]
           as == IF contacts[p] = None THEN {} ELSE contacts[p].addresses
       IN  \/ /\ OpenTo(p) # {}
              /\ pool' \in on_dial_failure(Popped, contacts, p, "DialPeerConditionFalse", {})
              /\ UNCHANGED conns
           \/ /\ OpenTo(p) = {}
              /\ as = {} \/ config.denials
              /\ pool' \in on_dial_failure(Popped, contacts, p, IF as = {} THEN "NoAddresses" ELSE "Denied", {})
              /\ UNCHANGED conns
           \/ /\ OpenTo(p) = {}
              /\ as # {} /\ FreeIds # {}
              /\ pool' = Popped
              /\ conns' = Dial(p, as)
    /\ UNCHANGED <<config, contacts, limits, budget>>

TakeDialSeed ==
    /\ pool.actions # <<>>
    /\ Head(pool.actions)[1] = "dial_seed"
    /\ \/ /\ config.denials
          /\ pool' \in on_dial_failure(Popped, contacts, None, "Denied", {})
          /\ UNCHANGED conns
       \/ /\ FreeIds # {}
          /\ pool' = Popped
          /\ conns' = Dial(None, {Head(pool.actions)[2]})
    /\ UNCHANGED <<config, contacts, limits, budget>>

TakeClose ==
    /\ pool.actions # <<>>
    /\ Head(pool.actions)[1] \in {"close_all", "close_one"}
    /\ LET id == Head(pool.actions)[2]
           Hit(c) == IF Head(pool.actions)[1] = "close_one" THEN c = id ELSE conns[c].peer = id
       IN  conns' = [c \in DOMAIN conns |->
                        IF ~Hit(c) \/ conns[c].stage = "handshake" THEN conns[c]
                        ELSE [conns[c] EXCEPT !.stage = IF @ \in {"dialing", "aborted"} THEN "aborted"
                                                        ELSE "closing"]]
    /\ pool' = Popped
    /\ UNCHANGED <<config, contacts, limits, budget>>

(* A dial ends without a connection: no address answered, or it was aborted. *)
DialFails(c) ==
    /\ conns[c].stage \in {"dialing", "aborted"}
    /\ LET error == IF conns[c].stage = "aborted" THEN "Aborted" ELSE "Transport"
       IN  pool' \in on_dial_failure(pool, contacts, conns[c].peer, error, conns[c].addrs)
    /\ limits' = release_connection(limits, c)
    /\ conns' = Without(conns, c)
    /\ UNCHANGED <<config, contacts, budget>>

handle_established_outbound(l, c, a) ==
    IF (HasIp(a) /\ ~check_ip_limits(l, a)) \/ ~check_peer_limit(l, "outbound")
    THEN [ok |-> FALSE, limits |-> l]
    ELSE LET m == IF HasIp(a) THEN charge_ip_counters(l, c, a) ELSE l
         IN  [ok |-> TRUE, limits |-> charge_peer_count(m, c, "outbound")]

(* Somebody answers at an address of the dial; the others may have failed.   *)
(* It may be ourselves, another peer than the one dialled, or a connection   *)
(* that the limits behaviour of the library (first in the list) or the pool  *)
(* denies.                                                                   *)
DialAnswered(c, a, failed) ==
    LET p == config.answers[a]
        expected == conns[c].peer
        admitted == handle_established_outbound(limits, c, a)
        Failure(peer, error) == /\ limits' = release_connection(limits, c)
                                /\ conns' = Without(conns, c)
                                /\ pool' \in on_dial_failure(pool, contacts, peer, error, {})
                                /\ UNCHANGED contacts
    IN  /\ conns[c].stage = "dialing"
        /\ a \in conns[c].addrs /\ p # None
        /\ \/ /\ p = Own
              /\ Failure(IF expected = None THEN Own ELSE expected, "LocalPeerId")
           \/ /\ p # Own /\ expected # None /\ expected # p
              /\ Failure(expected, "WrongPeerId")
           \/ /\ p # Own /\ expected \in {None, p}
              /\ config.denials \/ ~admitted.ok
              /\ Failure(p, "Denied")
           \/ /\ p # Own /\ expected \in {None, p}
              /\ admitted.ok
              /\ limits' = admitted.limits
              /\ contacts' = set_outer_protocol_address(contacts, p, a)
              /\ pool' \in on_connection_established(pool, contacts, p, c, a, failed, Cardinality(OpenTo(p)))
              /\ conns' = [conns EXCEPT ![c] = [peer |-> p, address |-> a, addrs |-> {}, dir |-> "outbound",
                                                stage |-> "open"]]
        /\ UNCHANGED <<config, budget>>

(* handle_pending_inbound_connection; a denied connection leaves no trace.   *)
Inbound(p, a) ==
    /\ FreeIds # {}
    /\ Spend("inbound")
    /\ HasIp(a) => /\ config.ip[a] \notin pool.addresses.banned
                   /\ check_ip_limits(limits, a)
                   /\ check_pending_limit(limits, a)
    /\ limits' = IF HasIp(a) THEN charge_ip_counters(charge_pending(limits, NewId, a), NewId, a) ELSE limits
    /\ conns' = With(conns, NewId, [peer |-> p, address |-> a, addrs |-> {}, dir |-> "inbound",
                                    stage |-> "handshake"])
    /\ UNCHANGED <<config, contacts, pool>>

(* The handshake failed or the limits behaviour of the library denied it.    *)
InboundFails(c) ==
    /\ conns[c].stage = "handshake"
    /\ limits' = release_connection(limits, c)
    /\ conns' = Without(conns, c)
    /\ UNCHANGED <<config, contacts, pool, budget>>

AdmitInbound(q, l, p) == p \notin q.peer_ids.banned /\ check_peer_limit(l, "inbound")

handle_established_inbound(c) ==
    LET p == conns[c].peer
        a == conns[c].address
        l == release_pending(limits, c)
    IN  /\ conns[c].stage = "handshake"
        /\ IF ~AdmitInbound(pool, l, p)
           THEN /\ limits' = release_connection(l, c)
                /\ conns' = Without(conns, c)
                /\ UNCHANGED <<contacts, pool>>
           ELSE /\ limits' = charge_peer_count(l, c, "inbound")
                /\ conns' = [conns EXCEPT ![c].stage = "open"]
                /\ contacts' = set_outer_protocol_address(contacts, p, a)
                /\ pool' \in on_connection_established(pool, contacts, p, c, a, {}, Cardinality(OpenTo(p)))
        /\ UNCHANGED <<config, budget>>

ConnectionClosed(c) ==
    /\ IsOpen(c)
    /\ conns[c].stage = "closing" \/ config.closes
    /\ limits' = release_connection(limits, c)
    /\ conns' = Without(conns, c)
    /\ pool' \in on_connection_closed(pool, contacts, conns[c].peer, conns[c].address,
                                     Cardinality(OpenTo(conns[c].peer)) - 1)
    /\ UNCHANGED <<config, contacts, budget>>

Next ==
    \/ start_connecting
    \/ \E p \in Peers, reason \in {"MaliciousPeer", "GoingOffline", "Other"} : close_connection(p, reason)
    \/ \E p \in Peers : handle_discovery_event(p)
    \/ \E due \in BOOLEAN : PollTimers(due)
    \/ Tick
    \/ TakeDialPeer
    \/ TakeDialSeed
    \/ TakeClose
    \/ \E c \in DOMAIN conns : DialFails(c)
    \/ \E c \in DOMAIN conns, a \in Addresses : \E failed \in {{}, conns[c].addrs \ {a}} : DialAnswered(c, a, failed)
    \/ \E e \in config.inbound : Inbound(e[1], e[2])
    \/ \E c \in DOMAIN conns : InboundFails(c)
    \/ \E c \in DOMAIN conns : handle_established_inbound(c)
    \/ \E c \in DOMAIN conns : ConnectionClosed(c)

Spec == Init /\ [][Next]_vars

(* A dial, a handshake or a close comes to an end.                            *)
Settles(c) ==
    /\ c \in DOMAIN conns
    /\ \/ DialFails(c)
       \/ \E a \in Addresses : DialAnswered(c, a, {})
       \/ InboundFails(c)
       \/ handle_established_inbound(c)
       \/ conns[c].stage = "closing" /\ ConnectionClosed(c)

Settling(c) == c \in DOMAIN conns /\ conns[c].stage # "open"

Takes == TakeDialPeer \/ TakeDialSeed \/ TakeClose

Taking ==
    /\ pool.actions # <<>>
    /\ Head(pool.actions)[1] \in {"dial_peer", "dial_seed"} => FreeIds # {}

TimersDue == pool.actions = <<>> /\ PolledTimers(TRUE) # {pool}

Aging == [pool EXCEPT !.peer_ids = Aged(@), !.addresses = Aged(@)] # pool

Due == Taking \/ TimersDue \/ Aging \/ \E c \in DOMAIN conns : Settling(c)

Handles == Takes \/ PollTimers(TRUE) \/ Tick \/ \E c \in DOMAIN conns : Settles(c)

(* The swarm takes the actions of the pool and polls its timers, time        *)
(* passes, and every dial, handshake and close comes to an end: while any of *)
(* this is due, one of it happens, time and again.                           *)
Fairness == []<>(~Due) \/ []<><<Handles>>_vars

FairSpec == Spec /\ Fairness

(***************************************************************************)
(* Properties                                                               *)
(***************************************************************************)
StateOK(s, ids, max) ==
    /\ s.dialing \subseteq ids /\ s.banned \subseteq ids
    /\ DOMAIN s.connected \subseteq ids /\ \A id \in DOMAIN s.connected : s.connected[id] \in BOOLEAN
    /\ DOMAIN s.failed \subseteq ids /\ \A id \in DOMAIN s.failed : s.failed[id] \in 1 .. max - 1
    /\ DOMAIN s.down \subseteq ids /\ DOMAIN s.down \cap DOMAIN s.failed = {}
    /\ \A i \in 1 .. Len(s.unban) : s.unban[i][1] \in ids /\ s.unban[i][2] \in 0 .. BAN_TIME

(* The states of the pool are well formed: an id fails fewer than            *)
(* `max_failures` times before it is down, and is never both failed and down.*)
TypeOK ==
    /\ StateOK(pool.peer_ids, Peers \cup {Own}, MAX_PEER_FAILURES)
    /\ StateOK(pool.addresses, Addresses \cup Range(config.ip), MAX_ADDRESS_FAILURES)
    /\ pool.active \in BOOLEAN
    /\ DOMAIN conns \subseteq Ids
    /\ DOMAIN contacts = Peers

Having(stages, P(_)) == Cardinality({c \in DOMAIN conns : conns[c].stage \in stages /\ P(conns[c])})

Live == {"handshake", "open", "closing"}

(* The counters of Limits are those of the connections that exist: whatever   *)
(* order handshakes, denials, failures and closes come in, each connection    *)
(* is released for exactly what it was charged, and none is forgotten.        *)
LimitsAreExact ==
    /\ \A i \in Range(config.ip) \ {None} :
          Count(limits.ip, i) = Having(Live, LAMBDA k : config.ip[k.address] = i)
    /\ \A n \in Range(config.subnet) :
          /\ Count(limits.subnet, n) = Having(Live, LAMBDA k : HasIp(k.address) /\ config.subnet[k.address] = n)
          /\ Count(limits.pending, n) = Having({"handshake"}, LAMBDA k : HasIp(k.address) /\ config.subnet[k.address] = n)
    /\ limits.inbound = Having({"open", "closing"}, LAMBDA k : k.dir = "inbound")
    /\ limits.outbound = Having({"open", "closing"}, LAMBDA k : k.dir = "outbound")
    /\ DOMAIN limits.charges \subseteq DOMAIN conns

(* No IP, subnet or direction ever has more connections than configured,      *)
(* although a limit is checked and charged in different callbacks for dials   *)
(* and for handshakes that run at the same time.                              *)
ConnectionsWithinLimits ==
    /\ \A i \in Range(config.ip) \ {None} : Having(Live, LAMBDA k : config.ip[k.address] = i) <= config.per_ip
    /\ \A n \in Range(config.subnet) :
          /\ Having(Live, LAMBDA k : HasIp(k.address) /\ config.subnet[k.address] = n) <= config.per_subnet
          /\ Having({"handshake"}, LAMBDA k : HasIp(k.address) /\ config.subnet[k.address] = n) <= config.pending_max
    /\ \A d \in {"inbound", "outbound"} : Having({"open", "closing"}, LAMBDA k : k.dir = d) <= config.count_max

(* The peers marked as connected are those with an open connection, through   *)
(* several connections to one peer, simultaneous dials and any order of       *)
(* closes (on_connection_established, on_connection_closed).                  *)
ConnectedIsOpen ==
    DOMAIN pool.peer_ids.connected = {conns[c].peer : c \in {d \in DOMAIN conns : IsOpen(d)}}

(* A peer marked as being dialled has a dial queued or under way: no result   *)
(* of a dial (refused at once, failed, aborted, denied, answered by another   *)
(* peer, overtaken by a connection of the peer) leaves it marked for ever.    *)
DialingIsReal ==
    \A p \in pool.peer_ids.dialing :
        \/ Contains(pool.actions, DialPeer(p))
        \/ \E c \in DOMAIN conns : conns[c].stage \in {"dialing", "aborted"} /\ conns[c].peer = p

(* At most `dialing_count_max` peers are dialled at a time, and a seed only    *)
(* when no other seed is (maintain_peers, choose_peers_to_dial).              *)
DialsWithinLimit ==
    /\ Cardinality(pool.peer_ids.dialing) <= config.dialing_max
    /\ Cardinality(pool.addresses.dialing) <= config.initial

(* A banned peer does not stay connected: each of its connections is closing  *)
(* or about to be closed, whatever of its dials and handshakes were under way *)
(* when it was banned.  (Not promised for a peer that answers at a seed       *)
(* address: a seed is dialled without knowing its peer.)                      *)
BannedAreClosed ==
    \A p \in pool.peer_ids.banned :
        \/ \E a \in config.seeds : config.answers[a] = p
        \/ \A c \in OpenTo(p) : conns[c].stage = "closing" \/ Contains(pool.actions, CloseAll(p))

NothingBanned == pool.peer_ids.banned = {} /\ pool.addresses.banned = {}

(* Every ban ends, also when several peers and addresses are banned while     *)
(* others are waiting for their deadline (ConnectionState::poll).             *)
BansEnd == []<>NothingBanned

Trying ==
    \/ ~Below(pool)
    \/ \E c \in DOMAIN conns : conns[c].stage = "dialing"
    \/ \A a \in config.seeds : \E c \in DOMAIN conns : conns[c].address = a
    \/ ~config.steady

(* An active pool below its desired count does not stop trying: again and     *)
(* again it has enough connections, a dial is under way, or everything it     *)
(* knows is connected.  (Where no seed dial is denied and no seed has a       *)
(* second connection, see AddressesAreReal.)                                  *)
KeepsDialing == []<>Trying

(* An address that is marked as dialled or connected is: the seeds that may be *)
(* dialled are those that are neither.  Not so in the code: a seed dial that   *)
(* is denied leaves its address marked, and so does the second connection     *)
(* to a seed.                                                                  *)
AddressesAreReal ==
    /\ \A a \in pool.addresses.dialing :
          \/ Contains(pool.actions, DialSeed(a))
          \/ \E c \in DOMAIN conns : conns[c].stage \in {"dialing", "aborted"} /\ a \in conns[c].addrs
    /\ \A a \in DOMAIN pool.addresses.connected : \E c \in DOMAIN conns : IsOpen(c) /\ conns[c].address = a

=============================================================================
