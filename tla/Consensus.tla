------------------------------ MODULE Consensus ------------------------------
(***************************************************************************)
(* The consensus task (consensus/src/consensus/mod.rs, head_requests.rs)   *)
(* with its syncer (consensus/src/sync/syncer.rs, syncer_proxy.rs).        *)
(*                                                                         *)
(* One task polls, in this order: the network events, the macro sync, the  *)
(* live sync, the peer checks, then whether consensus is established, the  *)
(* head requests, and whether to send new ones.  The variable phase is the *)
(* point the poll has reached; peers, their answers, the clock and pushes  *)
(* interleave anywhere.  A separate task removes peers that left from the  *)
(* live sync.  The macro sync and the live sync appear with what they hand *)
(* to the syncer; there is one chain and a peer's head is a height on it.  *)
(***************************************************************************)
EXTENDS Integers, Sequences, FiniteSets, FiniteSetsExt

CONSTANTS
    Peers,
    BlocksPerBatch,
    AcceptanceWindow,       \* live_sync.acceptance_window_size()
    MinBlocksEstablished,   \* Consensus::MIN_BLOCKS_ESTABLISHED
    Configurations          \* node kind, min_peers, heads of the peers, limits

VARIABLES
    config, phase,
    connected, joins,
    left, live_left,        \* PeerLeft events not processed yet: syncer, live task
    macro, live,            \* peers in macro sync and in live sync
    fallen_back,            \* EitherSyncer::Fallback
    outdated_peers, incompatible_peers, pending_checks,
    accepted_announcements,
    height, can_enforce, state_complete, queued,
    established, last_batch_number, synced_validity_window,
    head_requests, head_requests_time,
    sent                    \* the last ConsensusEvent

peers == <<connected, joins, left, live_left, macro, live, fallen_back,
           outdated_peers, incompatible_peers, pending_checks>>
node == <<accepted_announcements, height, can_enforce, state_complete, queued>>
flags == <<established, last_batch_number, synced_validity_window, sent>>
heads == <<head_requests, head_requests_time>>
vars == <<config, phase, peers, node, flags, heads>>

Batch(n) == n \div BlocksPerBatch
Established(flag) == [type |-> "Established", synced_validity_window |-> flag]
Lost == [type |-> "Lost", synced_validity_window |-> FALSE]
NoRequests == [active |-> FALSE, hashes |-> {}, blocks |-> {}, requested |-> {},
               known |-> 0, unknown |-> 0, found |-> {}]

num_agents == Cardinality(live)

Init ==
    /\ config \in Configurations
    /\ phase = "events"
    /\ connected = {} /\ joins = [p \in Peers |-> 0]
    /\ left = {} /\ live_left = {} /\ macro = {} /\ live = {} /\ fallen_back = FALSE
    /\ outdated_peers = {} /\ incompatible_peers = {}
    /\ pending_checks = {}
    /\ accepted_announcements = 0
    /\ height = config.height
    /\ can_enforce = TRUE
    /\ state_complete = TRUE
    /\ queued = {}
    /\ established = FALSE /\ last_batch_number = 0
    /\ synced_validity_window = can_enforce
    /\ head_requests = NoRequests /\ head_requests_time = "none"
    /\ sent = Lost

-----------------------------------------------------------------------------
(* The network and the blockchain.                                         *)

Join(p) ==
    /\ p \in config.peers /\ p \notin connected \cup left \cup live_left
    /\ joins[p] < config.max_joins[p]
    /\ joins' = [joins EXCEPT ![p] = @ + 1]
    /\ connected' = connected \cup {p}
    /\ macro' = macro \cup {p}
    /\ UNCHANGED <<config, phase, left, live_left, live, fallen_back, outdated_peers,
                   incompatible_peers, pending_checks, node, flags, heads>>

(* The peer is gone: the syncer and the live task will hear of it. *)
Disconnect(set) ==
    /\ connected' = connected \ set
    /\ left' = left \cup set
    /\ live_left' = live_left \cup set

Leave(p) ==
    /\ p \in connected /\ config.leave
    /\ Disconnect({p})
    /\ UNCHANGED <<config, phase, joins, macro, live, fallen_back, outdated_peers,
                   incompatible_peers, pending_checks, node, flags, heads>>

(* The task that keeps the peer list of the live sync. *)
LiveForgets(p) ==
    /\ p \in live_left
    /\ live_left' = live_left \ {p}
    /\ live' = live \ {p}
    /\ UNCHANGED <<config, phase, connected, joins, left, macro, fallen_back, outdated_peers,
                   incompatible_peers, pending_checks, node, flags, heads>>

(***************************************************************************)
(* push_macro of the light macro sync drops the history and, on a full     *)
(* node, the state; the validity sync and the state sync bring them back.  *)
(***************************************************************************)
PushMacro ==
    /\ phase = "macro" /\ config.node = "full" /\ macro # {}
    /\ (Batch(height) + 1) * BlocksPerBatch <= config.max_height
    /\ height' = (Batch(height) + 1) * BlocksPerBatch
    /\ can_enforce' = FALSE /\ state_complete' = FALSE
    /\ UNCHANGED <<config, phase, peers, accepted_announcements, queued, flags, heads>>

SyncValidityWindow ==
    /\ ~can_enforce
    /\ can_enforce' = TRUE
    /\ UNCHANGED <<config, phase, peers, accepted_announcements, height, state_complete, queued,
                   flags, heads>>

SyncState ==
    /\ ~state_complete
    /\ state_complete' = TRUE
    /\ UNCHANGED <<config, phase, peers, accepted_announcements, height, can_enforce, queued,
                   flags, heads>>

(* HEAD_REQUESTS_TIMEOUT passes. *)
Timeout ==
    /\ head_requests_time = "running"
    /\ head_requests_time' = "elapsed"
    /\ UNCHANGED <<config, phase, peers, node, flags, head_requests>>

-----------------------------------------------------------------------------
(* The syncer.                                                             *)

Step(from, to) == phase = from /\ phase' = to

(* poll_next, network events: remove_peer. *)
PollEvents ==
    /\ Step("events", "macro")
    /\ outdated_peers' = outdated_peers \ left
    /\ incompatible_peers' = incompatible_peers \ left
    /\ left' = {}
    /\ macro' = macro \cap connected
    /\ UNCHANGED <<config, connected, joins, live_left, live, fallen_back, pending_checks, node,
                   flags, heads>>

(* check_incompatible_peer: a head request to the peer. *)
StartChecks(set) == pending_checks \cup [peer : set, result : {"pending"}]

(* What the macro sync makes of a peer. *)
PollMacro(p) ==
    /\ phase = "macro" /\ p \in macro
    /\ macro' = macro \ {p}
    /\ \/ /\ config.heads[p] >= height
          /\ live' = live \cup {p}
          /\ UNCHANGED <<outdated_peers, pending_checks>>
       \/ /\ config.heads[p] < height
          /\ outdated_peers' = outdated_peers \cup {p}
          /\ UNCHANGED <<live, pending_checks>>
       \/ /\ config.incompatible
          /\ pending_checks' = StartChecks({p})
          /\ UNCHANGED <<live, outdated_peers>>
    /\ UNCHANGED <<config, phase, connected, joins, left, live_left, fallen_back,
                   incompatible_peers, node, flags, heads>>

(* A conflicting peer: the pico sync is given up for the light sync, which *)
(* starts with all peers that sync.                                        *)
Conflicting(p) ==
    /\ phase = "macro" /\ p \in macro
    /\ config.node = "pico" /\ ~fallen_back
    /\ fallen_back' = TRUE
    /\ macro' = macro \cup live
    /\ height' = 0
    /\ UNCHANGED <<config, phase, connected, joins, left, live_left, live, outdated_peers,
                   incompatible_peers, pending_checks, accepted_announcements, can_enforce,
                   state_complete, queued, flags, heads>>

MacroPending ==
    /\ Step("macro", "live")
    /\ UNCHANGED <<config, peers, node, flags, heads>>

(***************************************************************************)
(* Push events of the live sync, which consensus takes before it polls     *)
(* again from the start.                                                   *)
(***************************************************************************)
BlockAccepted(n, announced, time) ==
    /\ Step("live", "events")
    /\ height' = n
    /\ accepted_announcements' = IF announced /\ accepted_announcements < MinBlocksEstablished
                                 THEN accepted_announcements + 1 ELSE accepted_announcements
    /\ head_requests_time' = time
    /\ UNCHANGED <<config, peers, can_enforce, state_complete, flags, head_requests>>

AcceptedAnnouncedBlock ==
    /\ live # {} /\ height < config.max_height
    /\ BlockAccepted(height + 1, TRUE, "running")
    /\ UNCHANGED queued

(* Blocks of the head requests, with those that were missing or buffered:  *)
(* heads are requested again at once, except after a buffered block with   *)
(* more to come.                                                           *)
Catches(established_now) == IF established_now THEN head_requests_time ELSE "none"

AcceptedQueuedBlocks ==
    /\ live # {}
    /\ \E n \in queued :
         /\ queued' = queued \ {n}
         /\ \E time \in {Catches(established), head_requests_time} :
              BlockAccepted(IF n > height THEN n ELSE height, FALSE, time)

(* Peer events of the live sync. *)
LivePeer(p) ==
    /\ phase = "live" /\ p \in live /\ config.live_events
    /\ \/ /\ config.heads[p] > height + AcceptanceWindow
          /\ live' = live \ {p}
          /\ macro' = macro \cup {p}
          /\ UNCHANGED outdated_peers
       \/ /\ config.heads[p] < height
          /\ live' = live \ {p}
          /\ outdated_peers' = outdated_peers \cup {p}
          /\ UNCHANGED macro
       \/ /\ ~state_complete /\ p \notin outdated_peers   \* PeerIncompleteState
          /\ outdated_peers' = outdated_peers \cup {p}
          /\ UNCHANGED <<live, macro>>
    /\ UNCHANGED <<config, phase, connected, joins, left, live_left, fallen_back,
                   incompatible_peers, pending_checks, node, flags, heads>>

(* The check interval: outdated peers go back to the macro sync, and       *)
(* incompatible ones are asked for their head.                             *)
CheckPeers ==
    /\ phase = "live" /\ outdated_peers \cup incompatible_peers # {}
    /\ macro' = macro \cup outdated_peers
    /\ pending_checks' = StartChecks(incompatible_peers)
    /\ outdated_peers' = {} /\ incompatible_peers' = {}
    /\ phase' = "checks"
    /\ UNCHANGED <<config, connected, joins, left, live_left, live, fallen_back, node, flags,
                   heads>>

LivePending ==
    /\ Step("live", "checks")
    /\ UNCHANGED <<config, peers, node, flags, heads>>

(* is_peer_synced, by the heights when the answer arrives; a peer that     *)
(* does not answer is disconnected.                                        *)
is_peer_synced(n) ==
    /\ Batch(n) >= Batch(height) - 1
    /\ n <= height + AcceptanceWindow

CheckAnswered(p) ==
    /\ [peer |-> p, result |-> "pending"] \in pending_checks
    /\ \/ /\ p \in connected
          /\ \E n \in {config.heads[p]} :
               pending_checks' =
                   (pending_checks \ {[peer |-> p, result |-> "pending"]})
                       \cup {[peer |-> p, result |-> IF is_peer_synced(n) THEN "synced" ELSE "not"]}
          /\ UNCHANGED <<connected, left, live_left>>
       \/ /\ config.faults \/ p \notin connected
          /\ pending_checks' = (pending_checks \ {[peer |-> p, result |-> "pending"]})
                                   \cup {[peer |-> p, result |-> "not"]}
          /\ Disconnect({p} \cap connected)
    /\ UNCHANGED <<config, phase, joins, macro, live, fallen_back, outdated_peers,
                   incompatible_peers, node, flags, heads>>

(* A peer that is not in sync yet waits for the next check. *)
StillIncompatible(c) == {c.peer}

PollChecks ==
    /\ phase = "checks"
    /\ \E c \in pending_checks :
         /\ c.result # "pending"
         /\ pending_checks' = pending_checks \ {c}
         /\ IF c.result = "synced" /\ can_enforce
            THEN live' = live \cup {c.peer} /\ UNCHANGED incompatible_peers
            ELSE incompatible_peers' = incompatible_peers \cup StillIncompatible(c) /\ UNCHANGED live
    /\ UNCHANGED <<config, phase, connected, joins, left, live_left, macro, fallen_back,
                   outdated_peers, node, flags, heads>>

ChecksPending ==
    /\ Step("checks", "check_established")
    /\ \A c \in pending_checks : c.result = "pending"
    /\ UNCHANGED <<config, peers, node, flags, heads>>

-----------------------------------------------------------------------------
(* Consensus.                                                              *)

(* check_validity_window: the flag, looked at once per batch. *)
InNewBatch_late == config.node = "full" /\ Batch(height) > last_batch_number + 1
InNewBatch == config.node = "full" /\ Batch(height) > last_batch_number

CheckValidityWindow ==
    IF InNewBatch
    THEN last_batch_number' = Batch(height) /\ synced_validity_window' = can_enforce
    ELSE UNCHANGED <<last_batch_number, synced_validity_window>>
WindowResult == InNewBatch => can_enforce

should_request_heads(requests, time) ==
    /\ ~requests.active
    /\ ~(num_agents = 0 /\ config.min_peers > 0)
    /\ time # "running"

RequestHeads ==
    /\ head_requests' = [NoRequests EXCEPT !.active = TRUE, !.hashes = live]
    /\ head_requests_time' = "running"

(* 2/3 of the heads are known, and somebody answered. *)
head_request_established_failed(known, unknown) == known >= 2 * unknown
head_request_established(known, unknown) ==
    /\ known + unknown > 0 \/ num_agents = 0
    /\ known >= 2 * unknown

SetEstablished ==
    /\ established' = TRUE
    /\ CheckValidityWindow
    /\ sent' = Established(WindowResult)

EnoughPeers == num_agents >= config.min_peers /\ state_complete

(* check_established while established. *)
StayEstablished ==
    IF num_agents < config.min_peers
    THEN established' = FALSE /\ sent' = Lost
         /\ UNCHANGED <<last_batch_number, synced_validity_window>>
    ELSE /\ CheckValidityWindow
         /\ sent' = IF InNewBatch /\ synced_validity_window # can_enforce
                    THEN Established(can_enforce) ELSE sent
         /\ UNCHANGED established

(***************************************************************************)
(* check_established(finished_head_request); requests is what is left of   *)
(* the head requests, result a finished one or NoRequests.                 *)
(***************************************************************************)
check_established(requests, result) ==
    \/ /\ established
       /\ StayEstablished
       /\ head_requests' = requests /\ UNCHANGED head_requests_time
    \/ /\ ~established /\ EnoughPeers
       /\ accepted_announcements >= MinBlocksEstablished
       /\ SetEstablished
       /\ head_requests' = NoRequests /\ head_requests_time' = "none"
    \/ /\ ~established /\ EnoughPeers
       /\ accepted_announcements < MinBlocksEstablished
       /\ result.active /\ head_request_established(result.known, result.unknown)
       /\ SetEstablished
       /\ head_requests' = requests /\ UNCHANGED head_requests_time
    \/ /\ ~established /\ EnoughPeers
       /\ accepted_announcements < MinBlocksEstablished
       /\ ~(result.active /\ head_request_established(result.known, result.unknown))
       /\ UNCHANGED flags
       /\ IF should_request_heads(requests, head_requests_time)
          THEN RequestHeads
          ELSE head_requests' = requests /\ UNCHANGED head_requests_time
    \/ /\ ~established /\ ~EnoughPeers
       /\ head_requests' = requests
       /\ UNCHANGED <<flags, head_requests_time>>

CheckEstablished ==
    /\ Step("check_established", "heads")
    /\ check_established(head_requests, NoRequests)
    /\ UNCHANGED <<config, peers, node>>

(***************************************************************************)
(* HeadRequests::poll, the hash of a peer's head: unknown blocks are       *)
(* requested, each once.                                                   *)
(***************************************************************************)
Answered(p) == [head_requests EXCEPT !.hashes = @ \ {p}]

HeadAnswered(p) ==
    /\ phase = "heads" /\ head_requests.active /\ p \in head_requests.hashes
    /\ LET rest == Answered(p)
           n == config.heads[p]
       IN \/ /\ config.faults \/ p \notin connected
             /\ head_requests' = rest
          \/ /\ p \in connected /\ n <= height
             /\ head_requests' = [rest EXCEPT !.known = @ + 1]
          \/ /\ p \in connected /\ n > height
             /\ head_requests' =
                    [rest EXCEPT !.unknown = @ + 1,
                                 !.requested = @ \cup {n},
                                 !.blocks = IF n \in head_requests.requested THEN @
                                            ELSE @ \cup {[peer |-> p, number |-> n]}]
    /\ UNCHANGED <<config, phase, peers, node, flags, head_requests_time>>

(* The block of a head: one that a peer answers with another block is not  *)
(* taken and the peer is disconnected, a failed request has no effect.     *)
HeadBlockAnswered ==
    /\ phase = "heads" /\ head_requests.active
    /\ \E b \in head_requests.blocks :
         LET rest == [head_requests EXCEPT !.blocks = @ \ {b}]
         IN \/ /\ b.peer \in connected
               /\ head_requests' = [rest EXCEPT !.found = @ \cup {b.number}]
               /\ UNCHANGED <<connected, left, live_left>>
            \/ /\ config.faults /\ b.peer \in connected
               /\ head_requests' = rest
               /\ Disconnect({b.peer})
            \/ /\ config.faults \/ b.peer \notin connected
               /\ head_requests' = rest
               /\ UNCHANGED <<connected, left, live_left>>
    /\ UNCHANGED <<config, phase, joins, macro, live, fallen_back, outdated_peers,
                   incompatible_peers, pending_checks, node, flags, head_requests_time>>

HeadsFinished ==
    /\ Step("heads", "request")
    /\ head_requests.active /\ head_requests.hashes = {} /\ head_requests.blocks = {}
    /\ queued' = queued \cup head_requests.found
    /\ check_established(NoRequests, head_requests)
    /\ UNCHANGED <<config, peers, accepted_announcements, height, can_enforce, state_complete>>

HeadsPending ==
    /\ Step("heads", "request")
    /\ head_requests.active => (head_requests.hashes # {} \/ head_requests.blocks # {})
    /\ UNCHANGED <<config, peers, node, flags, heads>>

(* The end of poll. *)
PollRequestHeads ==
    /\ Step("request", "events")
    /\ IF should_request_heads(head_requests, head_requests_time)
       THEN RequestHeads
       ELSE UNCHANGED heads
    /\ UNCHANGED <<config, peers, node, flags>>

-----------------------------------------------------------------------------
Poll ==
    \/ PollEvents \/ MacroPending \/ AcceptedAnnouncedBlock \/ AcceptedQueuedBlocks
    \/ CheckPeers \/ LivePending \/ PollChecks \/ ChecksPending
    \/ CheckEstablished \/ HeadBlockAnswered \/ HeadsFinished \/ HeadsPending
    \/ PollRequestHeads

Next ==
    \/ Poll \/ PushMacro \/ SyncValidityWindow \/ SyncState \/ Timeout
    \/ \E p \in Peers :
         \/ Join(p) \/ Leave(p) \/ LiveForgets(p) \/ PollMacro(p) \/ Conflicting(p)
         \/ LivePeer(p) \/ CheckAnswered(p) \/ HeadAnswered(p)

Spec == Init /\ [][Next]_vars

(***************************************************************************)
(* The runtime polls the task again whenever it is woken, peers that are   *)
(* there answer, the state sync ends and time passes.  A poll drains what  *)
(* is ready, so the macro sync, the queued blocks and the answers are not  *)
(* passed over forever: strong fairness of those.                          *)
(***************************************************************************)
Fairness ==
    /\ WF_vars(Poll) /\ WF_vars(SyncState) /\ WF_vars(Timeout)
    /\ SF_vars(AcceptedQueuedBlocks) /\ SF_vars(HeadBlockAnswered) /\ SF_vars(HeadsFinished)
    /\ \A p \in Peers :
         WF_vars(Join(p)) /\ SF_vars(PollMacro(p)) /\ SF_vars(HeadAnswered(p))

FairSpec == Spec /\ Fairness

-----------------------------------------------------------------------------
(* Every field of the consensus task and of its syncer has its type.       *)
TypeOK ==
    /\ config \in Configurations
    /\ phase \in {"events", "macro", "live", "checks", "check_established", "heads", "request"}
    /\ UNION {connected, left, live_left, macro, live, outdated_peers, incompatible_peers}
          \subseteq Peers
    /\ pending_checks \subseteq [peer : Peers, result : {"pending", "synced", "not"}]
    /\ accepted_announcements \in 0 .. MinBlocksEstablished
    /\ height \in 0 .. config.max_height /\ last_batch_number <= Batch(config.max_height)
    /\ head_requests_time \in {"none", "running", "elapsed"}
    /\ head_requests.known + head_requests.unknown <= Cardinality(Peers)

(***************************************************************************)
(* Syncer: a peer moves between the macro sync, the live sync, the two     *)
(* waiting lists and the pending checks, and is never dropped on the way:  *)
(* while it stays connected it is in one of them.                          *)
(***************************************************************************)
NoPeerLost ==
    connected \subseteq macro \cup live \cup outdated_peers \cup incompatible_peers
                        \cup {c.peer : c \in pending_checks}

(***************************************************************************)
(* check_established: what the last event told the subscribers is the      *)
(* state of the established flag that the proxies read.                    *)
(***************************************************************************)
EventsFollowFlag == established <=> (sent.type = "Established")

(***************************************************************************)
(* check_validity_window: the flag is looked at once per batch, and yet at *)
(* the end of a poll it never claims a validity window that a macro block  *)
(* pushed in the meantime has taken away.                                  *)
(***************************************************************************)
WindowIsThere ==
    phase = "request" /\ established /\ config.node = "full" /\ synced_validity_window
        => can_enforce

(***************************************************************************)
(* check_established, check_validity_window: an event that tells that the  *)
(* validity window is not there is never out of date, the flag the proxies *)
(* read says the same.                                                     *)
(***************************************************************************)
MissingWindowIsTold ==
    sent.type = "Established" /\ ~sent.synced_validity_window => ~synced_validity_window

(* A step that establishes consensus has evidence for it. *)
EvidenceStep ==
    (~established /\ established' /\ ~fallen_back) =>
      /\ state_complete
      /\ \/ accepted_announcements >= MinBlocksEstablished
         \/ config.min_peers = 0
         \/ \E p \in config.peers : config.heads[p] <= height

(***************************************************************************)
(* check_established, head_requests.rs: consensus is only established when *)
(* the node has followed announced blocks, has caught up with the head     *)
(* some peer reported, or is a seed that needs no peers; and never while   *)
(* the state is incomplete.  The pico fallback resets the chain while head *)
(* requests run and is left out.                                           *)
(***************************************************************************)
EstablishedOnEvidence == [][EvidenceStep]_vars

EstablishedIfLive == config.live => established

(***************************************************************************)
(* Head requests, the block queue and the repeated checks together: a node *)
(* whose peers stay and answer establishes consensus, also when the chain  *)
(* has stopped and nothing is announced.                                   *)
(***************************************************************************)
EventuallyEstablished == <>[]EstablishedIfLive

(***************************************************************************)
(* ConsensusEvent::Established, "Also includes a flag that indicates if we *)
(* are ready for transaction verification": the flag in the event is the   *)
(* one the proxies read.  Not so in the code: when consensus is lost and   *)
(* established again within a batch, check_validity_window returns true    *)
(* and the event claims a window that the flag denies.                     *)
(***************************************************************************)
EventTellsWindow ==
    sent.type = "Established" /\ config.node = "full"
        => (sent.synced_validity_window <=> synced_validity_window)

(***************************************************************************)
(* check_established: "Once consensus is established, we can only lose it  *)
(* if we lose all our peers."  Not so in the code: it is lost as soon as   *)
(* there are fewer than min_peers.                                         *)
(***************************************************************************)
LostOnlyWithoutPeers == [][(established /\ ~established') => live = {}]_vars
=============================================================================
