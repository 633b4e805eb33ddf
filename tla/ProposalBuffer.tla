--------------------------- MODULE ProposalBuffer ---------------------------
(***************************************************************************)
(* The buffer between the gossiped proposals and Tendermint:               *)
(* validator/src/proposal_buffer.rs, with verify_signer_matches_producer.  *)
(*                                                                         *)
(* The ProposalSender and the ProposalReceiver share the buffer behind a   *)
(* mutex.  poll_next holds the mutex, but takes the lock of the blockchain *)
(* anew for every proposal, so the chain may grow within a poll.  Nobody   *)
(* polls the receiver while no macro block is being produced.              *)
(***************************************************************************)
EXTENDS Integers, Sequences, FiniteSets, SequencesExt

CONSTANTS None, Configurations

VARIABLES
    config,      \* messages, blocks, the validators of two epochs, how the chain grows
    head,        \* how many blocks of config.growth the chain has adopted
    buffer,      \* one message per peer, the oldest first
    resolving,   \* resolve_block_futures: message, answer ("block" or "error"), polled before
    peers,       \* peers_with_resolving_blocks
    disconnects, \* unresolved_disconnect_futures: peers
    wakers,      \* the collections that wake the task when something is added
    woken,       \* the task will poll the receiver
    live,        \* a macro block producer holds a receiver
    phase,       \* where poll_next is: "idle", "buffer" or "resolve"
    verdict      \* by message: None before it arrives, "Pending", then the verdict of
                 \* validate_message or "Returned" to Tendermint

vars == <<config, head, buffer, resolving, peers, disconnects, wakers, woken, live, phase, verdict>>

Messages == config.messages
known == config.known \cup {config.growth[i] : i \in 1 .. head}
block_number == config.blocks[config.growth[head]].number

(* What a network is like: the chain grows upwards, and the slots of an      *)
(* epoch that propose belong to its validators, which are all different.     *)
IsNetwork(c) ==
    /\ c.growth \in Seq(DOMAIN c.blocks) /\ c.growth # << >>
    /\ c.election \in Nat
    /\ \A b \in DOMAIN c.blocks : c.blocks[b].number \in Nat
    /\ \A i \in 1 .. Len(c.growth) - 1 :
          c.blocks[c.growth[i]].number < c.blocks[c.growth[i + 1]].number
    /\ \A m \in c.messages : m.number \in Nat /\ m.parent \in DOMAIN c.blocks
    /\ \A i, j \in DOMAIN c.validators[1] : c.validators[1][i] = c.validators[1][j] => i = j
    /\ \A b \in DOMAIN c.blocks : c.blocks[b].number < c.election =>
          c.blocks[b].slot \in DOMAIN c.validators[1]

AreNetworks ==
    /\ \A c \in Configurations : IsNetwork(c)
    /\ None \notin {"Pending", "Ignore", "Reject", "Returned", "block", "error"}

-----------------------------------------------------------------------------
(* The epoch of a block, and the validators the chain gives for an epoch:    *)
(* its current ones change with the election block, the last of its epoch.   *)
Epoch(n) == IF n <= config.election THEN 1 ELSE 2
current_validators == config.validators[IF block_number < config.election THEN 1 ELSE 2]
get_validators_for_epoch(e) == IF e = Epoch(block_number) THEN current_validators ELSE config.validators[e]

verify_signer_matches_producer(m, p) ==
    /\ p.number + 1 = m.number
    /\ m.signer \in DOMAIN current_validators
    /\ current_validators[m.signer] = get_validators_for_epoch(Epoch(m.number))[p.slot]

(* The predecessor is known: it must be a micro block. *)
Verifies(m) ==
    LET p == config.blocks[m.parent] IN p.kind = "Micro" /\ verify_signer_matches_producer(m, p)

-----------------------------------------------------------------------------
Init ==
    /\ config \in Configurations
    /\ head = 1
    /\ buffer = << >> /\ resolving = {} /\ peers = {} /\ disconnects = {}
    /\ wakers = {} /\ woken = FALSE /\ live = FALSE /\ phase = "idle"
    /\ verdict = [m \in Messages |-> None]

Validate(m, acceptance) == verdict' = [verdict EXCEPT ![m] = acceptance]

(* A collection was added to: the task is woken if it left its waker there. *)
Wake(collection) ==
    /\ woken' = (woken \/ collection \in wakers)
    /\ wakers' = wakers \ {collection}

disconnect_and_reject(m) ==
    /\ Validate(m, "Reject")
    /\ disconnects' = disconnects \cup {m.source}

(* LinkedHashMap::insert moves the entry of the peer to the end. *)
Replaced(m) == {x \in Range(buffer) : x.source = m.source}
Others(m) ==
    IF Replaced(m) = {} THEN buffer
    ELSE RemoveAt(buffer, CHOOSE i \in DOMAIN buffer : buffer[i].source = m.source)

(* A message arrives once.  The peer is not punished for a signer that does  *)
(* not exist.                                                                *)
send(m) ==
    /\ phase = "idle" /\ verdict[m] = None
    /\ IF block_number >= m.number \/ Epoch(block_number + 1) # Epoch(m.number)
       THEN Validate(m, "Ignore") /\ UNCHANGED <<buffer, disconnects, wakers, woken>>
       ELSE IF m.signer \notin DOMAIN current_validators
       THEN Validate(m, "Reject") /\ UNCHANGED <<buffer, disconnects, wakers, woken>>
       ELSE IF ~m.signed
       THEN disconnect_and_reject(m) /\ Wake("disconnect") /\ UNCHANGED buffer
       ELSE /\ buffer' = Append(Others(m), m)
            /\ verdict' = [x \in Messages |->
                  IF x = m THEN "Pending" ELSE IF x \in Replaced(m) THEN "Ignore" ELSE verdict[x]]
            /\ Wake("buffer")
            /\ UNCHANGED disconnects
    /\ UNCHANGED <<config, head, resolving, peers, live, phase>>

-----------------------------------------------------------------------------
(* poll_next of the receiver. *)
StartPoll ==
    /\ live /\ woken /\ phase = "idle"
    /\ phase' = "buffer" /\ woken' = FALSE
    /\ UNCHANGED <<config, head, buffer, resolving, peers, disconnects, wakers, live, verdict>>

(* A proposal for Tendermint, which polls again. *)
Return(m) == Validate(m, "Returned") /\ phase' = "idle"

(* A request for the predecessor, unless the peer has one already. *)
Request(m) ==
    IF m.source \in peers
    THEN UNCHANGED <<resolving, peers, wakers, woken>>
    ELSE /\ resolving' = resolving \cup {[message |-> m, answer |-> None, polled |-> FALSE]}
         /\ peers' = peers \cup {m.source}
         /\ Wake("resolve")

(* One proposal of the buffer. *)
poll_proposal ==
    /\ phase = "buffer" /\ buffer # << >>
    /\ buffer' = Tail(buffer)
    /\ LET m == Head(buffer) IN
       IF block_number >= m.number
       THEN Validate(m, "Ignore") /\ UNCHANGED <<resolving, peers, disconnects, wakers, woken, phase>>
       ELSE IF m.parent \notin known
       THEN Request(m) /\ UNCHANGED <<disconnects, phase, verdict>>
       ELSE IF Verifies(m)
       THEN Return(m) /\ woken' = TRUE /\ UNCHANGED <<resolving, peers, disconnects, wakers>>
       ELSE disconnect_and_reject(m) /\ Wake("disconnect") /\ UNCHANGED <<resolving, peers, phase>>
    /\ UNCHANGED <<config, head, live>>

BufferIsEmpty ==
    /\ phase = "buffer" /\ buffer = << >>
    /\ phase' = "resolve"
    /\ wakers' = wakers \cup {"resolve"}
    /\ UNCHANGED <<config, head, buffer, resolving, peers, disconnects, woken, live, verdict>>

(* One future that is ready.  Its answer is judged by the chain of now. *)
poll_resolve_block_futures_retrying(e) ==
    /\ phase = "resolve" /\ e.answer # None
    /\ IF e.answer = "error"
       THEN /\ Validate(e.message, "Ignore")
            /\ resolving' = (resolving \ {e}) \cup {[e EXCEPT !.answer = None]}
            /\ UNCHANGED <<peers, disconnects, wakers, woken, phase>>
       ELSE /\ resolving' = resolving \ {e}
            /\ peers' = peers \ {e.message.source}
            /\ IF Verifies(e.message)
               THEN Return(e.message) /\ woken' = TRUE /\ UNCHANGED <<disconnects, wakers>>
               ELSE disconnect_and_reject(e.message) /\ Wake("disconnect") /\ UNCHANGED phase
    /\ UNCHANGED <<config, head, buffer, live>>
poll_resolve_block_futures(e) ==
    /\ phase = "resolve" /\ e.answer # None
    /\ resolving' = resolving \ {e}
    /\ peers' = peers \ {e.message.source}
    /\ IF e.answer = "error"
       THEN Validate(e.message, "Ignore") /\ UNCHANGED <<disconnects, wakers, woken, phase>>
       ELSE IF Verifies(e.message)
       THEN Return(e.message) /\ woken' = TRUE /\ UNCHANGED <<disconnects, wakers>>
       ELSE disconnect_and_reject(e.message) /\ Wake("disconnect") /\ UNCHANGED phase
    /\ UNCHANGED <<config, head, buffer, live>>

(* Nothing is ready: the disconnects go out and the task waits. *)
PollPending_unwatched ==
    /\ phase = "resolve" /\ \A e \in resolving : e.answer = None
    /\ phase' = "idle"
    /\ disconnects' = {}
    /\ wakers' = wakers \cup {"disconnect"}
    /\ resolving' = {[e EXCEPT !.polled = TRUE] : e \in resolving}
    /\ UNCHANGED <<config, head, buffer, peers, woken, live, verdict>>
PollPending ==
    /\ phase = "resolve" /\ \A e \in resolving : e.answer = None
    /\ phase' = "idle"
    /\ disconnects' = {}
    /\ wakers' = wakers \cup {"buffer", "disconnect"}
    /\ resolving' = {[e EXCEPT !.polled = TRUE] : e \in resolving}
    /\ UNCHANGED <<config, head, buffer, peers, woken, live, verdict>>

-----------------------------------------------------------------------------
(* The consensus resolves a block that the chain has adopted, or drops the   *)
(* request.                                                                  *)
resolve_block(e, answer) ==
    /\ e.answer = None
    /\ answer = "block" => e.message.parent \in known
    /\ resolving' = (resolving \ {e}) \cup {[e EXCEPT !.answer = answer]}
    /\ woken' = (woken \/ e.polled)
    /\ UNCHANGED <<config, head, buffer, peers, disconnects, wakers, live, phase, verdict>>

Grow ==
    /\ head < Len(config.growth)
    /\ head' = head + 1
    /\ UNCHANGED <<config, buffer, resolving, peers, disconnects, wakers, woken, live, phase, verdict>>

(* init_block_producer: a producer for the next macro block, or none. *)
StartProducer ==
    /\ phase = "idle" /\ ~live /\ block_number + 1 \in config.macros
    /\ live' = TRUE /\ woken' = TRUE
    /\ UNCHANGED <<config, head, buffer, resolving, peers, disconnects, wakers, phase, verdict>>
StopProducer ==
    /\ phase = "idle" /\ live
    /\ live' = FALSE
    /\ UNCHANGED <<config, head, buffer, resolving, peers, disconnects, wakers, woken, phase, verdict>>

Next ==
    \/ \E m \in Messages : send(m)
    \/ StartPoll \/ poll_proposal \/ BufferIsEmpty \/ PollPending
    \/ \E e \in resolving : poll_resolve_block_futures(e)
    \/ \E e \in resolving : \E answer \in {"error", "block"} : resolve_block(e, answer)
    \/ Grow \/ StartProducer \/ StopProducer

Spec == Init /\ [][Next]_vars

-----------------------------------------------------------------------------
(* The state has its type: held messages are messages of the network. *)
TypeOK ==
    /\ head \in 1 .. Len(config.growth)
    /\ buffer \in Seq(Messages)
    /\ resolving \subseteq [message : Messages, answer : {None, "block", "error"}, polled : BOOLEAN]
    /\ wakers \subseteq {"buffer", "resolve", "disconnect"}
    /\ woken \in BOOLEAN /\ live \in BOOLEAN /\ phase \in {"idle", "buffer", "resolve"}
    /\ verdict \in [Messages -> {None, "Pending", "Ignore", "Reject", "Returned"}]

(* "Any peer can at most have one proposal in this buffer", and              *)
(* peers_with_resolving_blocks is "meant to maintain that any given peer can *)
(* only have a single such request": it tells exactly the peers with one.    *)
OnePerPeer ==
    /\ \A i, j \in DOMAIN buffer : buffer[i].source = buffer[j].source => i = j
    /\ \A e, f \in resolving : e.message.source = f.message.source => e = f
    /\ peers = {e.message.source : e \in resolving}

(* No wakeup is lost between the sender, the consensus and the receiver: a   *)
(* task that waits has nothing to do.  The assertion of poll_next that the   *)
(* buffer is empty holds.                                                    *)
NothingWaits ==
    /\ phase = "resolve" => buffer = << >>
    /\ live /\ ~woken /\ phase = "idle" =>
          /\ buffer = << >> /\ disconnects = {}
          /\ \A e \in resolving : e.answer = None

(* What the doc of ProposalBuffer promises its peers and its reader: one     *)
(* proposal and one request per peer, and a reader that sleeps only when     *)
(* there is nothing to read or to send.                                      *)
ProposalsAreServed == OnePerPeer /\ NothingWaits

Verdicts == {"Ignore", "Reject", "Returned"}

(* One step of the verdicts: a proposal that is held by the buffer or waits  *)
(* for its predecessor has none yet, and a verdict is never taken back.      *)
VerdictStep ==
    /\ \A m \in Messages : verdict[m] \in Verdicts => verdict'[m] = verdict[m]
    /\ \A m \in Messages : verdict'[m] \in Verdicts =>
          m \notin Range(buffer') /\ \A e \in resolving' : e.message # m

(* Every gossiped proposal gets one verdict at most, whatever replaces it,   *)
(* resolves it or makes it obsolete in the meantime.                         *)
OneVerdict == [][VerdictStep]_vars

(* What the proposer of the epoch of the proposal signed on a micro block. *)
Right(m) ==
    LET p == config.blocks[m.parent] IN
    /\ m.signed /\ p.kind = "Micro" /\ p.number + 1 = m.number
    /\ m.signer = p.slot

JudgedStep ==
    \A m \in Messages : verdict[m] \notin Verdicts /\ block_number < config.election =>
        /\ verdict'[m] = "Returned" => Right(m)
        /\ verdict'[m] = "Reject" => ~Right(m)

(* Within the epoch only proposals of their rightful proposer reach          *)
(* Tendermint, and no peer is disconnected for relaying one of these.        *)
JudgedRightly == [][JudgedStep]_vars

(* What leaves the buffer has a verdict or waits for its predecessor.  The   *)
(* one proposal that is dropped without either has an unknown predecessor    *)
(* and a relayer for which another predecessor is being resolved.            *)
SettledStep ==
    \A m \in Messages : m \in Range(buffer) /\ m \notin Range(buffer') =>
        \/ verdict'[m] \in Verdicts
        \/ \E e \in resolving' : e.message = m
        \/ m.parent \notin known /\ \E e \in resolving : e.message # m /\ e.message.source = m.source

(* poll_proposal: "Proposals which cannot be returned are either invalid and *)
(* thus rejected/ignored", or a future to resolve their predecessor is       *)
(* created.  Not so in the code: a second proposal of a peer whose           *)
(* predecessor is unknown is dropped without either.                         *)
EveryProposalIsSettled ==
    [][\A m \in Messages : m \in Range(buffer) /\ m \notin Range(buffer') =>
          verdict'[m] \in Verdicts \/ \E e \in resolving' : e.message = m]_vars

(* The relayer of a rightful proposal is not disconnected, even when its     *)
(* predecessor is resolved only in the next epoch, whose validators are then *)
(* compared with those of the last one.  Not so in the code: the comparison  *)
(* takes the validators at the time of the answer and fails.                 *)
RelayersStay == \A m \in Messages : verdict[m] = "Reject" => ~Right(m)

(* An outdated proposal is dropped, as in poll_proposal, also when its       *)
(* predecessor was resolved late.  Not so in the code:                       *)
(* poll_resolve_block_futures does not look at the height again.             *)
OutdatedAreDropped ==
    [][\A m \in Messages : verdict[m] # "Returned" /\ verdict'[m] = "Returned" => block_number < m.number]_vars
=============================================================================
