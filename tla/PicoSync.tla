------------------------------ MODULE PicoSync ------------------------------
(* PicoMacroSync: a light client takes the latest election block of the      *)
(* first peer that answers and only follows peers that agree with it; any    *)
(* other peer is conflicting, and the syncer then falls back to light sync.  *)
(*                                                                           *)
(* A block is its number, counted in macro blocks from the genesis block,    *)
(* and the chain it is on; every B-th block is an election block.            *)
EXTENDS Integers, Sequences, FiniteSets, SequencesExt, TLC

CONSTANTS Peers, Chains, B, None,
          Start,      \* where each peer is at first: sets of peer states
          MaxHeight, MaxJoins, MaxFaults

VARIABLES at,        \* the macro head of each peer
          connected, events, \* the network, and its events not yet polled
          macro_head, election_head, \* our chain
          syncing,   \* syncing_peers
          asked,     \* head requests under way: a sequence of peers
          headers,   \* block requests under way: [peer, block, lost]
          requests,  \* peer_requests: peer -> sequence of [block, got]
          out, banned, joins, faults
vars == <<at, connected, events, macro_head, election_head, syncing, asked, headers, requests,
          out, banned, joins, faults>>

Block(n, c) == [number |-> n, chain |-> IF n = 0 THEN None ELSE c]
Genesis == Block(0, None)
IsElection(b) == b.number % B = 0
Epoch(n) == (n + B - 1) \div B
ElectionOf(b) == Block((b.number \div B) * B, b.chain)
ParentElection(b) == Block(((b.number - 1) \div B) * B, b.chain)

(* After a conflict the syncer stops this sync and falls back to another. *)
Fallback == \E p \in Peers : out[p] = "conflicting"

Without(f, x) == [y \in DOMAIN f \ {x} |-> f[y]]

-----------------------------------------------------------------------------
(* Bookkeeping. *)
remove_peer_requests(p) == requests' = Without(requests, p) /\ syncing' = syncing \ {p}

(* The requests of a connection that closes fail, before it is open again. *)
Gone(hs, p) == [i \in DOMAIN hs |-> IF hs[i].peer = p THEN [hs[i] EXCEPT !.lost = TRUE] ELSE hs[i]]
Disconnect(p) ==
    /\ connected' = connected \ {p}
    /\ events' = IF p \in connected THEN Append(events, [kind |-> "left", peer |-> p]) ELSE events

Join(p) ==
    /\ ~Fallback
    /\ p \notin connected /\ joins > 0
    /\ [kind |-> "left", peer |-> p] \notin ToSet(events)
    /\ p \notin ToSet(asked) /\ \A i \in 1 .. Len(headers) : headers[i].peer # p
    /\ joins' = joins - 1
    /\ connected' = connected \cup {p}
    /\ events' = Append(events, [kind |-> "joined", peer |-> p])
    /\ out' = [out EXCEPT ![p] = None]
    /\ UNCHANGED <<at, macro_head, election_head, syncing, asked, headers, requests, banned, faults>>
Leave(p) ==
    /\ ~Fallback
    /\ p \in connected /\ faults > 0
    /\ faults' = faults - 1
    /\ Disconnect(p)
    /\ headers' = Gone(headers, p)
    /\ UNCHANGED <<at, macro_head, election_head, syncing, asked, requests, out, banned, joins>>
Grow(p) ==
    /\ ~Fallback
    /\ at[p].number < MaxHeight /\ faults > 0
    /\ faults' = faults - 1
    /\ \E c \in (IF at[p].number = 0 THEN Chains ELSE {at[p].chain}) :
          at' = [at EXCEPT ![p] = Block(@.number + 1, c)]
    /\ UNCHANGED <<connected, events, macro_head, election_head, syncing, asked, headers, requests,
                   out, banned, joins>>

PollNetworkEvents ==
    /\ ~Fallback
    /\ events # <<>>
    /\ events' = Tail(events)
    /\ LET e == Head(events) IN
       \/ e.kind = "left" /\ remove_peer_requests(e.peer) /\ UNCHANGED <<asked, out>>
       \/ /\ e.kind = "joined"
          /\ syncing' = syncing \cup {e.peer}
          /\ asked' = Append(asked, e.peer)
          /\ UNCHANGED <<requests, out>>
       \/ /\ e.kind = "joined"   \* a peer without the services
          /\ syncing' = syncing \ {e.peer}
          /\ out' = [out EXCEPT ![e.peer] = "incompatible"]
          /\ UNCHANGED <<asked, requests>>
    /\ UNCHANGED <<at, connected, macro_head, election_head, headers, banned, joins, faults>>

-----------------------------------------------------------------------------
(* request_macro_headers: the peer's election block, then its checkpoint. *)
Wanted(p) == IF IsElection(at[p]) THEN <<at[p]>> ELSE <<ElectionOf(at[p]), at[p]>>
request_macro_headers(p) ==
    /\ requests' = (p :> [i \in DOMAIN Wanted(p) |-> [block |-> Wanted(p)[i], got |-> FALSE]])
                      @@ requests
    /\ headers' = headers \o [i \in DOMAIN Wanted(p) |->
                                 [peer |-> p, block |-> Wanted(p)[i], lost |-> FALSE]]

Answered(p) == asked' = RemoveAt(asked, SelectInSeq(asked, LAMBDA x : x = p))
PollHead(p) ==
    /\ ~Fallback
    /\ p \in ToSet(asked)
    /\ Answered(p)
    /\ IF p \notin connected THEN UNCHANGED <<requests, headers, out>>
       ELSE IF macro_head = at[p] /\ election_head = ElectionOf(at[p])
       THEN out' = [out EXCEPT ![p] = "good"] /\ UNCHANGED <<requests, headers>>
       ELSE request_macro_headers(p) /\ UNCHANGED out
    /\ UNCHANGED <<at, connected, events, macro_head, election_head, syncing, banned, joins, faults>>
HeadFails(p) ==
    /\ ~Fallback
    /\ p \in connected \cap ToSet(asked) /\ faults > 0
    /\ faults' = faults - 1
    /\ Answered(p)
    /\ Disconnect(p)
    /\ headers' = Gone(headers, p)
    /\ UNCHANGED <<at, macro_head, election_head, syncing, requests, out, banned, joins>>

(* What one block of a ready peer does to our chain; None if it conflicts.   *)
Applied(c, b) ==
    IF IsElection(b)
    THEN IF b = c.election THEN c
         ELSE IF c.macro = Genesis THEN [macro |-> b, election |-> b]
         ELSE None
    ELSE IF b = c.macro THEN c
         ELSE IF Epoch(c.macro.number) + 1 # Epoch(b.number) THEN None
         ELSE IF b.number <= c.macro.number THEN c
         ELSE IF ParentElection(b) = c.election THEN [c EXCEPT !.macro = b]
         ELSE None

(* The blocks up to the first that conflicts are applied. *)
ApplyAll(blocks) ==
    FoldLeft(LAMBDA acc, b :
                IF acc.conflict THEN acc
                ELSE LET c == Applied(acc.c, b)
                     IN IF c = None THEN [acc EXCEPT !.conflict = TRUE] ELSE [acc EXCEPT !.c = c],
             [c |-> [macro |-> macro_head, election |-> election_head], conflict |-> FALSE], blocks)

Updated(reqs, b) == [i \in DOMAIN reqs |-> IF reqs[i].block = b THEN [reqs[i] EXCEPT !.got = TRUE]
                                           ELSE reqs[i]]
is_ready(reqs) == \A i \in DOMAIN reqs : reqs[i].got

(* A block that belongs to no request of the peer bans it. *)
PollMacroBlock(p) ==
    \E i \in {k \in 1 .. Len(headers) : headers[k].peer = p} :
        LET b == headers[i].block
            reqs == IF p \in DOMAIN requests THEN Updated(requests[p], b) ELSE <<>>
            done == ApplyAll([k \in DOMAIN reqs |-> reqs[k].block])
        IN /\ ~Fallback
           /\ ~headers[i].lost
           /\ headers' = RemoveAt(headers, i)
           /\ IF p \notin DOMAIN requests
              THEN /\ asked' = Append(asked, p)
                   /\ UNCHANGED <<requests, syncing, macro_head, election_head, out, banned,
                                  connected, events>>
              ELSE IF \A k \in DOMAIN reqs : reqs[k].block # b
              THEN /\ remove_peer_requests(p) /\ Disconnect(p)
                   /\ banned' = banned \cup {p}
                   /\ UNCHANGED <<asked, macro_head, election_head, out>>
              ELSE IF ~is_ready(reqs)
              THEN /\ requests' = [requests EXCEPT ![p] = reqs]
                   /\ UNCHANGED <<asked, syncing, macro_head, election_head, out, banned,
                                  connected, events>>
              ELSE /\ macro_head' = done.c.macro
                   /\ election_head' = done.c.election
                   /\ IF done.conflict
                      THEN /\ syncing' = syncing \ {p}
                           /\ requests' = [requests EXCEPT ![p] = <<>>]
                           /\ out' = [out EXCEPT ![p] = "conflicting"]
                           /\ UNCHANGED asked
                      ELSE /\ requests' = Without(requests, p)
                           /\ asked' = Append(asked, p)
                           /\ UNCHANGED <<syncing, out>>
                   /\ UNCHANGED <<banned, connected, events>>
           /\ UNCHANGED <<at, joins, faults>>
MacroBlockFails(p) ==
    \E i \in {k \in 1 .. Len(headers) : headers[k].peer = p} :
        /\ ~Fallback
        /\ \/ headers[i].lost /\ UNCHANGED faults
           \/ ~headers[i].lost /\ faults > 0 /\ faults' = faults - 1
        /\ remove_peer_requests(p)
        /\ Disconnect(p)
        /\ headers' = Gone(RemoveAt(headers, i), p)
        /\ UNCHANGED <<at, macro_head, election_head, asked, out, banned, joins>>

-----------------------------------------------------------------------------
Init ==
    /\ at \in Start
    /\ connected = {} /\ events = <<>>
    /\ macro_head = Genesis /\ election_head = Genesis
    /\ syncing = {} /\ asked = <<>> /\ headers = <<>> /\ requests = <<>>
    /\ out = [p \in Peers |-> None]
    /\ banned = {}
    /\ joins = MaxJoins /\ faults = MaxFaults

Next ==
    \/ PollNetworkEvents
    \/ \E p \in Peers : \/ Join(p) \/ Leave(p) \/ Grow(p)
                        \/ PollHead(p) \/ HeadFails(p)
                        \/ PollMacroBlock(p) \/ MacroBlockFails(p)

Spec == Init /\ [][Next]_vars

Sources == {"events"} \cup Peers

Due(l) ==
    /\ ~Fallback
    /\ IF l = "events" THEN events # <<>>
       ELSE l \in ToSet(asked) \/ \E i \in 1 .. Len(headers) : headers[i].peer = l

Handles(l) ==
    \/ l = "events" /\ PollNetworkEvents
    \/ /\ l \in Peers
       /\ PollHead(l) \/ HeadFails(l) \/ PollMacroBlock(l) \/ MacroBlockFails(l)

(* The syncer polls the stream, and a request to a peer is answered or fails. *)
Fairness == \A l \in Sources : []<>(~Due(l)) \/ []<><<Handles(l)>>_vars

FairSpec == Spec /\ Fairness

-----------------------------------------------------------------------------
(* peer_requests only has peers that are being synced with, and at most one  *)
(* block request per block and peer is under way.                            *)
TypeOK ==
    /\ Fallback \/ DOMAIN requests \subseteq syncing
    /\ \A i, k \in 1 .. Len(headers) : headers[i] = headers[k] => i = k

(* Our macro head follows our election head, whichever peers the blocks came *)
(* from and in whatever order they came.                                     *)
HeadsFit == macro_head = election_head \/ ParentElection(macro_head) = election_head

(* A connected peer that was not emitted has a request under way. *)
NoPeerLost ==
    \A p \in connected :
        \/ out[p] # None \/ Fallback
        \/ \E i \in 1 .. Len(events) : events[i] = [kind |-> "joined", peer |-> p]
        \/ \E i \in 1 .. Len(asked) : asked[i] = p
        \/ \E i \in 1 .. Len(headers) : headers[i].peer = p

(* A peer that answers what it was asked is never banned. *)
HonestNotBanned == banned = {}

Behind(p) == at[p] = election_head /\ macro_head # election_head

AllEmitted == Fallback \/ \A p \in connected : out[p] # None \/ Behind(p)

(* Every connected peer is eventually emitted, or the sync falls back; a     *)
(* peer that stays at our election block while we are past it is asked for   *)
(* its head again and again.                                                 *)
SyncCompletes == <>[]AllEmitted

(* "emitting peers either as Outdated, Good or Conflicting": no peer is left *)
(* in the sync for ever.  Not so in the code: a peer at our election block   *)
(* is neither Good nor Outdated when our macro head is past it, and is asked *)
(* for its head again.                                                       *)
EveryPeerIsEmitted == <>[](Fallback \/ \A p \in connected : out[p] # None)
=============================================================================
