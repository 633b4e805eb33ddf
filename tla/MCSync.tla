------------------------------- MODULE MCSync -------------------------------
(***************************************************************************)
(* Instances of the parts that bring a node up to the macro head of its    *)
(* peers: the sync queue all of them download with, and the history, light *)
(* and pico sync.                                                          *)
(***************************************************************************)
EXTENDS SyncQueue, TLC

CONSTANTS
    None, p1, p2, Parts    \* the parts that a run is about

VARIABLES part,
    config, conn, height, events, budget, head, micro, futures, sync, emitted,
    badpush, connected, closing, tip, chain, out, panicked, blamed, dropped,
    at, macro_head, election_head, syncing, asked, headers, requests, banned,
    joins, faults

-----------------------------------------------------------------------------
(***************************************************************************)
(* Model of SyncQueue for TLC.  The peers are interchangeable: the order   *)
(* in which they join is part of the state.                                *)
(***************************************************************************)
SyncQueueSymmetry == Permutations(Peers)

-----------------------------------------------------------------------------
(* The histories that TLC checks HistorySync on.  B is 2; fork 9 means that *)
(* a peer never leaves the finalized chain.                                *)
HistorySyncBudget(j, f, l, g) == [joins |-> j, faults |-> f, live |-> l, grow |-> g]

HistorySyncKept(f) == [x \in {"p", "q", "r"} |-> f]

\* Three epochs with one batch set each; two peers, one of them shorter.
Three ==
    [height |-> ("p" :> 6 @@ "q" :> 3 @@ "r" :> 0), fork |-> ("p" :> 9 @@ "q" :> 9 @@ "r" :> 9),
     kept |-> HistorySyncKept({}), sizes |-> <<1, 2, 2, 3, 1, 2>>, services |-> {"p", "q"},
     head |-> 0, top |-> 6, budget |-> HistorySyncBudget(2, 0, 1, 0)]

\* Two epochs with two batch sets each, an empty first one; a third block
\* of the second peer comes later, and a request may fail.
Sets ==
    [Three EXCEPT !.height = ("p" :> 4 @@ "q" :> 3 @@ "r" :> 0), !.kept = HistorySyncKept({1, 3}),
                  !.sizes = <<0, 3, 2, 5>>, !.top = 4, !.budget = HistorySyncBudget(2, 1, 0, 1)]

\* One peer makes up the second epoch, another is on the finalized chain.
Forked ==
    [Three EXCEPT !.height = ("p" :> 5 @@ "q" :> 6 @@ "r" :> 2), !.fork = ("p" :> 9 @@ "q" :> 3 @@ "r" :> 9),
                  !.services = {"p", "q", "r"}, !.budget = HistorySyncBudget(3, 0, 0, 0)]

\* We are at a checkpoint, or in the first batch of an epoch, and live sync
\* goes on meanwhile.
Midway ==
    [Three EXCEPT !.height = ("p" :> 4 @@ "q" :> 3 @@ "r" :> 0), !.kept = HistorySyncKept({3}),
                  !.sizes = <<1, 3, 2, 5>>, !.head = 1, !.top = 4,
                  !.budget = HistorySyncBudget(2, 0, 2, 0)]

\* Peers leave and come back.
Churn ==
    [Three EXCEPT !.height = ("p" :> 2 @@ "q" :> 5 @@ "r" :> 0), !.services = {"p", "q"},
                  !.budget = HistorySyncBudget(3, 1, 0, 0)]

\* A third peer, without the services.
Services == [Three EXCEPT !.services = {"p"}, !.height = ("p" :> 2 @@ "q" :> 2 @@ "r" :> 2)]

\* Three epochs with two batch sets each, in one cluster; a second peer is
\* a while behind.
HistorySyncConfigurations == {Three, Sets, Forked, Midway, Churn, Services}

HistorySyncPeers == {"p", "q", "r"}

H == INSTANCE HistorySync WITH
    Peers <- HistorySyncPeers, B <- 2, CHUNK_SIZE <- 2,
    MAX_REQUEST_EPOCHS <- 2, MAX_CLUSTERS <- 2, MAX_QUEUED_JOBS <- 2,
    NUM_PENDING_BATCH_SETS <- 2, Configurations <- HistorySyncConfigurations

-----------------------------------------------------------------------------
LightSyncBudget(j, l, f, g) == [joins |-> j, leaves |-> l, faults |-> f, grow |-> g]

\* A full node at the genesis block; one peer two epochs ahead, one behind it.
Fresh ==
    [kind |-> "full", peers |-> {"p", "q"}, services |-> {"p", "q"}, faulty |-> {},
     tip |-> ("p" :> 5 @@ "q" :> 5), items |-> <<1, 2, 1, 2, 3, 1>>,
     head |-> 0, slots |-> TRUE, stored |-> <<>>, checkpoint |-> None,
     budget |-> LightSyncBudget(2, 1, 0, 0)]

\* The chain grows while the window is downloaded.
Growing ==
    [Fresh EXCEPT !.peers = {"p"}, !.tip = ("p" :> 4 @@ "q" :> 0), !.items = <<1, 2, 1, 2, 1, 3, 2>>,
                  !.budget = LightSyncBudget(1, 0, 0, 3)]

\* A node that was off for a while, without its previous slots.
Restarted ==
    [Fresh EXCEPT !.tip = ("p" :> 3 @@ "q" :> 3), !.head = 3, !.slots = FALSE, !.stored = <<3, 1>>,
                  !.budget = LightSyncBudget(2, 0, 0, 1)]
Late ==
    [Fresh EXCEPT !.tip = ("p" :> 5 @@ "q" :> 4), !.head = 3, !.stored = <<3, 1>>,
                  !.budget = LightSyncBudget(2, 0, 0, 1)]

\* Requests fail, a peer answers with wrong blocks, another has no services.
Failing == [Fresh EXCEPT !.tip = ("p" :> 3 @@ "q" :> 4), !.budget = LightSyncBudget(2, 1, 1, 0)]
Faulty == [Fresh EXCEPT !.faulty = {"q"}, !.budget = LightSyncBudget(3, 0, 0, 0)]

\* A light node, from the genesis block or from a checkpoint.
Light == [Fresh EXCEPT !.kind = "light", !.budget = LightSyncBudget(2, 0, 0, 1)]
Flaky == [Light EXCEPT !.tip = ("p" :> 4 @@ "q" :> 5), !.budget = LightSyncBudget(2, 1, 1, 0)]
Seeding == [Light EXCEPT !.checkpoint = 4, !.services = {"p"}, !.budget = LightSyncBudget(2, 1, 1, 1)]

LightSyncConfigurations == {Fresh, Growing, Restarted, Late, Failing, Faulty, Light, Flaky, Seeding}

LightSyncPeers == {"p", "q"}

L == INSTANCE LightSync WITH
    Peers <- LightSyncPeers, B <- 2, CHUNK_SIZE <- 2, WINDOW <- 2,
    THRESHOLD <- 1, MAX_EPOCHS_STORED <- 2,
    Configurations <- LightSyncConfigurations

-----------------------------------------------------------------------------
Block(n, c) == [number |-> n, chain |-> IF n = 0 THEN None ELSE c]
Chains == {0, 1}

\* Two peers on the same chain or not, anywhere in the first three epochs.
PicoSyncStart ==
    {"p" :> Block(n, 0) @@ "q" :> Block(k, c) : n \in {0, 4, 5}, k \in {2, 4, 5}, c \in Chains}

PicoSyncPeers == {"p", "q"}

I == INSTANCE PicoSync WITH
    Peers <- PicoSyncPeers, B <- 3, Start <- PicoSyncStart, MaxHeight <- 7,
    MaxJoins <- 3, MaxFaults <- 2

-----------------------------------------------------------------------------
(* In each behaviour one part takes steps; the variables of the others are idle. *)
SyncInit ==
    \/ /\ part = "queue" /\ part \in Parts
       /\ Init
       /\ config = None /\ conn = None /\ height = None /\ events = None /\
          budget = None /\ head = None /\ micro = None /\ futures = None /\
          sync = None /\ emitted = None /\ badpush = None /\
          connected = None /\ closing = None /\ tip = None /\
          chain = None /\ out = None /\ panicked = None /\ blamed = None /\
          dropped = None /\ at = None /\ macro_head = None /\
          election_head = None /\ syncing = None /\ asked = None /\
          headers = None /\ requests = None /\ banned = None /\
          joins = None /\ faults = None
    \/ /\ part = "history" /\ part \in Parts
       /\ H!Init
       /\ Init
       /\ connected = None /\ closing = None /\ tip = None /\
          chain = None /\ out = None /\ panicked = None /\ blamed = None /\
          dropped = None /\ at = None /\ macro_head = None /\
          election_head = None /\ syncing = None /\ asked = None /\
          headers = None /\ requests = None /\ banned = None /\
          joins = None /\ faults = None
    \/ /\ part = "light" /\ part \in Parts
       /\ L!Init
       /\ Init
       /\ conn = None /\ height = None /\ head = None /\ micro = None /\
          futures = None /\ emitted = None /\ badpush = None /\
          at = None /\ macro_head = None /\ election_head = None /\
          syncing = None /\ asked = None /\ headers = None /\
          requests = None /\ banned = None /\ joins = None /\ faults = None
    \/ /\ part = "pico" /\ part \in Parts
       /\ I!Init
       /\ Init
       /\ config = None /\ conn = None /\ height = None /\ budget = None /\
          head = None /\ micro = None /\ futures = None /\ sync = None /\
          emitted = None /\ badpush = None /\ closing = None /\
          tip = None /\ chain = None /\ panicked = None /\ blamed = None /\
          dropped = None

SyncNext ==
    \/ /\ part = "queue" /\ Next
       /\ UNCHANGED <<part, config, conn, height, events, budget, head, micro, futures,
          sync, emitted, badpush, connected, closing, tip, chain, out,
          panicked, blamed, dropped, at, macro_head, election_head, syncing,
          asked, headers, requests, banned, joins, faults>>
    \/ /\ part = "history" /\ H!Next
       /\ UNCHANGED <<part, peers, ids_to_request, pending_futures, queued_outputs,
          next_incoming_index, next_outgoing_index, current_peer_index, waker,
          scheduled, polling, next_id, truncated, yielded, churned, connected,
          closing, tip, chain, out, panicked, blamed, dropped, at, macro_head,
          election_head, syncing, asked, headers, requests, banned, joins,
          faults>>
    \/ /\ part = "light" /\ L!Next
       /\ UNCHANGED <<part, peers, ids_to_request, pending_futures, queued_outputs,
          next_incoming_index, next_outgoing_index, current_peer_index, waker,
          scheduled, polling, next_id, truncated, yielded, churned, conn,
          height, head, micro, futures, emitted, badpush, at, macro_head,
          election_head, syncing, asked, headers, requests, banned, joins,
          faults>>
    \/ /\ part = "pico" /\ I!Next
       /\ UNCHANGED <<part, peers, ids_to_request, pending_futures, queued_outputs,
          next_incoming_index, next_outgoing_index, current_peer_index, waker,
          scheduled, polling, next_id, truncated, yielded, churned, config,
          conn, height, budget, head, micro, futures, sync, emitted, badpush,
          closing, tip, chain, panicked, blamed, dropped>>

all_vars ==
    <<part, peers, ids_to_request, pending_futures, queued_outputs,
      next_incoming_index, next_outgoing_index, current_peer_index, waker,
      scheduled, polling, next_id, truncated, yielded, churned, config, conn,
      height, events, budget, head, micro, futures, sync, emitted, badpush,
      connected, closing, tip, chain, out, panicked, blamed, dropped, at,
      macro_head, election_head, syncing, asked, headers, requests, banned,
      joins, faults>>

SyncSpec == SyncInit /\ [][SyncNext]_all_vars

-----------------------------------------------------------------------------
(* The clusters of the history sync count every peer once, the ids of a    *)
(* cluster and of its peers stay aligned while clusters are split and      *)
(* shortened, downloaded history fits its epoch, and no assertion fails.   *)
ClustersAgree ==
    part = "history" =>
       H!TypeOK /\ H!NoPanic /\ H!CountsAgree /\ H!IdsStayAligned /\
       H!HistoryFits


(* A full node that calls a peer good has the history of its whole         *)
(* validity window: of the current epoch, and of the previous one where    *)
(* the window reaches back into it.                                        *)
WindowIsHeld == [][part = "light" => L!HeldStep]_all_vars
=============================================================================
