---------------------------- MODULE RemoteEvents ----------------------------
(***************************************************************************)
(* Address subscriptions of light clients at a full node: the request      *)
(* handler and the event loop of remote_event_dispatcher.rs.               *)
(*                                                                         *)
(* Requests of a peer are handled concurrently with the loop, which first  *)
(* drains the blockchain events and then the network events.  A block is a *)
(* number; BlockTxs gives the accounts its transactions touch.  A macro    *)
(* block finalises its batch and with it the chain store forgets the       *)
(* blocks that are not on the main chain.                                  *)
(***************************************************************************)
EXTENDS Integers, Sequences, FiniteSets, SequencesExt

CONSTANTS
    Peers,
    Addresses,
    AddressLists,                    \* the lists of addresses asked for
    BlockTxs,                        \* block number -> sequence of transactions
    MacroBlocks,
    MAX_SUBSCRIBED_PEERS,
    MAX_SUBSCRIBED_PEERS_ADDRESSES,
    Configurations                   \* peers, and bounds on blocks and requests

Blocks == DOMAIN BlockTxs
NoStaker == "none"
NoBlock == 0

VARIABLES
    config,
    connected,        \* peers connected to the node
    requests,         \* requests received and not yet handled
    subscribed_peers, \* peer -> addresses, for the peers known
    subscriptions,    \* address -> peers, for the addresses known
    chain,            \* the main chain
    next,             \* the next block anyone produces
    forks,            \* blocks that were never on the main chain
    stored,           \* blocks in the chain store
    panicked,         \* NoBlock, or the block that was not found
    blockchain_events,
    network_events,
    receipts,         \* <<peer, block, address>> published to the peer's subtopic
    budget

vars == <<config, connected, requests, subscribed_peers, subscriptions, chain, next, forks,
          stored, panicked, blockchain_events, network_events, receipts, budget>>
state == <<subscribed_peers, subscriptions>>
node == <<chain, next, forks, stored, panicked, blockchain_events>>

Init ==
    /\ config \in Configurations
    /\ connected = config.peers
    /\ requests = {}
    /\ subscribed_peers = << >>
    /\ subscriptions = << >>
    /\ chain = << >> /\ next = 1 /\ forks = {}
    /\ stored = {} /\ panicked = NoBlock
    /\ blockchain_events = << >> /\ network_events = << >>
    /\ receipts = {} /\ budget = config.requests

-----------------------------------------------------------------------------
(* The state and its operations. *)
AddressesOf(p) == IF p \in DOMAIN subscribed_peers THEN subscribed_peers[p] ELSE {}
get_peers(a) == IF a \in DOMAIN subscriptions THEN subscriptions[a] ELSE {}

Without(f, x) == [y \in DOMAIN f \ {x} |-> f[y]]

number_of_addresses_after_subscribe(p, addresses) == Cardinality(AddressesOf(p) \cup addresses)

add_addresses(p, addresses) ==
    /\ subscribed_peers' = 
           [q \in DOMAIN subscribed_peers \cup {p} |->
               AddressesOf(q) \cup (IF q = p THEN addresses ELSE {})]
    /\ subscriptions' = 
           [a \in DOMAIN subscriptions \cup addresses |->
               get_peers(a) \cup (IF a \in addresses THEN {p} ELSE {})]

(* remove_subscription for several addresses; an address without peers goes. *)
remove_subscription(p, addresses) ==
    LET fewer == [a \in DOMAIN subscriptions |->
                     IF a \in addresses THEN subscriptions[a] \ {p} ELSE subscriptions[a]]
    IN subscriptions' = [a \in {b \in DOMAIN fewer : fewer[b] # {}} |-> fewer[a]]

remove_peer_keeps(p) ==
    /\ subscribed_peers' = Without(subscribed_peers, p)
    /\ UNCHANGED subscriptions
remove_peer(p) ==
    /\ remove_subscription(p, AddressesOf(p))
    /\ subscribed_peers' = Without(subscribed_peers, p)

remove_addresses(p, addresses) ==
    LET left == AddressesOf(p) \ addresses
    IN /\ remove_subscription(p, addresses)
       /\ subscribed_peers' = IF left = {} THEN Without(subscribed_peers, p)
                              ELSE [subscribed_peers EXCEPT ![p] = left]

-----------------------------------------------------------------------------
(* RequestSubscribeToAddress::handle, under one write lock. *)
Send(p) ==
    /\ p \in connected /\ budget > 0
    /\ \E op \in {"Subscribe", "Unsubscribe"}, addresses \in AddressLists :
           requests' = requests \cup {[peer |-> p, op |-> op, addresses |-> addresses]}
    /\ budget' = budget - 1
    /\ UNCHANGED <<config, connected, state, node, network_events, receipts>>

TooMany(r) ==
    \/ /\ r.peer \notin DOMAIN subscribed_peers
       /\ Cardinality(DOMAIN subscribed_peers) >= MAX_SUBSCRIBED_PEERS
    \/ number_of_addresses_after_subscribe(r.peer, r.addresses) > MAX_SUBSCRIBED_PEERS_ADDRESSES

handle ==
    \E r \in requests :
        /\ requests' = requests \ {r}
        /\ IF r.op = "Subscribe"
           THEN IF TooMany(r) THEN UNCHANGED state ELSE add_addresses(r.peer, r.addresses)
           ELSE IF r.peer \notin DOMAIN subscribed_peers THEN UNCHANGED state
                ELSE remove_addresses(r.peer, r.addresses)
        /\ UNCHANGED <<config, connected, node, network_events, receipts, budget>>

-----------------------------------------------------------------------------
(* The chain and the network. *)
Extend ==
    /\ next <= config.blocks
    /\ chain' = Append(chain, next) /\ next' = next + 1
    /\ stored' = IF next \in MacroBlocks THEN ToSet(chain') ELSE stored \cup {next}
    /\ blockchain_events' = Append(blockchain_events, [type |-> "Extended", blocks |-> <<next>>])
    /\ UNCHANGED <<config, forks, panicked, connected, requests, state, network_events, receipts, budget>>

(* The last block is replaced; it stays stored until its batch is final. *)
Rebranch ==
    /\ next <= config.blocks /\ next \notin MacroBlocks /\ chain # << >> /\ Last(chain) \notin MacroBlocks
    /\ chain' = Append(Front(chain), next) /\ next' = next + 1
    /\ stored' = stored \cup {next}
    /\ blockchain_events' = Append(blockchain_events, [type |-> "Rebranched", blocks |-> <<next>>])
    /\ UNCHANGED <<config, forks, panicked, connected, requests, state, network_events, receipts, budget>>

Stored ==
    /\ next <= config.blocks /\ next \notin MacroBlocks
    /\ next' = next + 1 /\ forks' = forks \cup {next} /\ stored' = stored \cup {next}
    /\ blockchain_events' = Append(blockchain_events, [type |-> "Stored", blocks |-> <<next>>])
    /\ UNCHANGED <<config, panicked, connected, requests, state, chain, network_events, receipts, budget>>

Leave(p) ==
    /\ p \in connected
    /\ connected' = connected \ {p}
    /\ network_events' = Append(network_events, p)
    /\ UNCHANGED <<config, requests, state, node, receipts, budget>>

-----------------------------------------------------------------------------
(* RemoteEventDispatcher::poll *)
NewBlocks(event) == IF event.type = "Stored" THEN {} ELSE ToSet(event.blocks)

(* The accounts a transaction notifies: an AddStake also the staker's. *)
Touched(tx) == {tx.sender, tx.recipient} \cup ({tx.add_stake} \ {NoStaker})

Receipts(blocks) ==
    UNION {UNION {{<<p, b, a>> : p \in get_peers(a)} :
                     a \in UNION {Touched(tx) : tx \in ToSet(BlockTxs[b])}} : b \in blocks}

(* The block of an Extended event is read from the chain store, with an     *)
(* expect that it is there; the blocks of a rebranch come with the event.   *)
PollBlockchain ==
    /\ blockchain_events # << >>
    /\ LET event == Head(blockchain_events)
       IN IF event.type = "Extended" /\ event.blocks[1] \notin stored
          THEN panicked' = event.blocks[1] /\ UNCHANGED <<blockchain_events, receipts>>
          ELSE /\ blockchain_events' = Tail(blockchain_events)
               /\ receipts' = receipts \cup Receipts(NewBlocks(event))
               /\ UNCHANGED panicked
    /\ UNCHANGED <<config, connected, requests, state, chain, next, forks, stored, network_events, budget>>

PollNetwork ==
    /\ blockchain_events = << >> /\ network_events # << >>
    /\ network_events' = Tail(network_events)
    /\ remove_peer(Head(network_events))
    /\ UNCHANGED <<config, connected, requests, node, receipts, budget>>

(* The broadcast of network events overflowed: events are lost and the loop *)
(* returns.                                                                 *)
PollLagged ==
    /\ blockchain_events = << >> /\ Len(network_events) > 1
    /\ network_events' = Tail(network_events)
    /\ UNCHANGED <<config, connected, requests, state, node, receipts, budget>>

Next ==
    \/ \E p \in Peers : Send(p) \/ Leave(p)
    \/ handle \/ Extend \/ Rebranch \/ Stored
    \/ panicked = NoBlock /\ (PollBlockchain \/ PollNetwork \/ PollLagged)

Spec == Init /\ [][Next]_vars

-----------------------------------------------------------------------------
(* Peers and addresses known are those of the network, and so are receipts. *)
TypeOK ==
    /\ DOMAIN subscribed_peers \subseteq Peers
    /\ DOMAIN subscriptions \subseteq Addresses
    /\ \A p \in DOMAIN subscribed_peers :
          subscribed_peers[p] \subseteq Addresses
    /\ \A a \in DOMAIN subscriptions : subscriptions[a] # {}

(* The two maps of the dispatcher always say the same, whatever requests and *)
(* disconnects interleave: a notification goes to exactly the peers that     *)
(* subscribed, and no address is kept without a peer.                        *)
MapsAgree ==
    \A p \in Peers, a \in Addresses : a \in AddressesOf(p) <=> p \in get_peers(a)

(* Neither limit is exceeded by requests handled in any order. *)
WithinLimits ==
    /\ Cardinality(DOMAIN subscribed_peers) <= MAX_SUBSCRIBED_PEERS
    /\ \A p \in DOMAIN subscribed_peers :
          Cardinality(subscribed_peers[p]) <= MAX_SUBSCRIBED_PEERS_ADDRESSES

(* The loop only panics on a block that was replaced and whose batch became  *)
(* final before its event was handled; a block of the main chain, and one    *)
(* replaced in the current batch, is found.                                  *)
PanicsOnFinalizedOnly ==
    panicked # NoBlock =>
        /\ panicked \notin ToSet(chain)
        /\ \E b \in ToSet(chain) \cap MacroBlocks : b > panicked

(* poll: "Head block not found" never happens.  Not so in the code: see      *)
(* PanicsOnFinalizedOnly.                                                    *)
HeadsAreFound == panicked = NoBlock

(* Blocks stored on an inferior fork are not reported: they were never part  *)
(* of the main chain.                                                        *)
NoReceiptOfFork == \A r \in receipts : r[2] \notin forks

Concerns(tx, a) == a \in {tx.sender, tx.recipient, tx.add_stake}

(* An event that was handled has been reported. *)
ReportStep ==
    \A b \in Blocks, p \in Peers, a \in Addresses :
       /\ blockchain_events # << >> /\ blockchain_events' = Tail(blockchain_events)
       /\ Head(blockchain_events).type # "Stored"
       /\ b \in ToSet(Head(blockchain_events).blocks)
       /\ a \in AddressesOf(p)
       /\ \E tx \in ToSet(BlockTxs[b]) : Concerns(tx, a)
       => <<p, b, a>> \in receipts'

(* A staker is told of the stake added for it, like sender and recipient: at *)
(* the step that reports a block every peer subscribed to an account of one  *)
(* of its transactions gets a receipt.                                       *)
ReportsToSubscribers == [][ReportStep]_vars
=============================================================================
