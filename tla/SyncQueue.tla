------------------------------ MODULE SyncQueue ------------------------------
(***************************************************************************)
(* The SyncQueue of the consensus crate (consensus/src/sync/sync_queue.rs, *)
(* with the peer list of consensus/src/sync/peer_list.rs): it requests a   *)
(* list of ids from a changing set of peers, a few at a time, retries what *)
(* fails with the next peer and is a stream of the results in the order of *)
(* the ids.  Every part of the sync (missing blocks, macro blocks, epochs, *)
(* history chunks, validity window) downloads through it.                  *)
(*                                                                         *)
(* One call of poll_next is a step Poll followed by one step PollPending   *)
(* per turn of its loop, so that answers arrive and peers come and go      *)
(* between the turns.  The task that owns the queue may poll it at any     *)
(* time, and has to once it was woken: then scheduled is TRUE.             *)
(***************************************************************************)
EXTENDS Integers, Sequences, FiniteSets, Functions

CONSTANTS Peers,          \* the peers that may join the sync
          MaxIds,         \* bound: ids 1 .. MaxIds are added, in this order
          Desired,        \* desired_pending_size
          MIN_ATTEMPTS,
          MAX_ATTEMPTS,
          NoPeer          \* an id without the peer that announced it

ASSUME AttemptsAssumption ==
    /\ MIN_ATTEMPTS \in Nat \ {0}
    /\ MAX_ATTEMPTS \in Nat
    /\ MIN_ATTEMPTS <= MAX_ATTEMPTS

ASSUME QueueAssumption ==
    /\ MaxIds \in Nat
    /\ Desired \in Nat \ {0}
    /\ IsFiniteSet(Peers)
    /\ NoPeer \notin Peers

VARIABLES
    peers,                \* PeerList: the peers in order
    ids_to_request,       \* ids not requested yet, with their peer hint
    pending_futures,      \* the requests that are not resolved
    queued_outputs,       \* results that wait for those before them
    next_incoming_index,
    next_outgoing_index,
    current_peer_index,
    waker,                \* the queue holds the waker of the task
    scheduled,            \* the task was woken, or must poll again
    polling,              \* poll_next is in its loop
    next_id,              \* the id that is added next
    truncated,            \* ids that truncate_ids dropped
    yielded,              \* what the stream returned so far
    churned               \* peers came or went since the first id was added

queue == <<ids_to_request, pending_futures, queued_outputs,
           next_incoming_index, next_outgoing_index, current_peer_index>>
task == <<waker, scheduled, polling>>
history == <<next_id, truncated, yielded, churned>>
vars == <<peers, queue, task, history>>

-----------------------------------------------------------------------------
(* PeerList and PeerListIndex.  usize::MAX, whose successor wraps to 0, is *)
(* -1.                                                                     *)

NoIndex == -1
Indices == NoIndex .. Cardinality(Peers) - 1

increment_and_get(index) == (index + 1) % Len(peers)

PeerAt(index) == peers[index + 1]

\* The list holds a peer once, by its peers_set.
index_of(p) == (CHOOSE i \in DOMAIN peers : peers[i] = p) - 1

-----------------------------------------------------------------------------
(* OrderWrapper.  data is the state of the future: Waiting for the answer, *)
(* an Error, an Output that is still to be verified, or None: there was    *)
(* nobody to ask, or (in queued_outputs) the id could not be resolved.     *)
(* sent is TRUE once the future was polled: only then the request is sent. *)
(* asked is the set of peers the id was requested from so far.             *)

Answers == {"Output", "Error"}

RequestTo(id, index, peer, asked, num_tries) ==
    [id |-> id, index |-> index, peer |-> peer, asked |-> asked \union {PeerAt(peer)},
     num_tries |-> num_tries, data |-> "Waiting", sent |-> FALSE]

NobodyToAsk(id, index) ==
    [id |-> id, index |-> index, peer |-> NoIndex, asked |-> {},
     num_tries |-> 1, data |-> "None", sent |-> FALSE]

(* A new id is requested from the peer that announced it if that one is in *)
(* the list, and else from the next one of the round robin.                *)
IsKnown(hint) == hint \in Range(peers)

NewRequest(entry, index, current) ==
    IF peers = <<>> THEN NobodyToAsk(entry.id, index)
    ELSE RequestTo(entry.id, index,
                   IF IsKnown(entry.hint) THEN index_of(entry.hint) ELSE current, {}, 1)

-----------------------------------------------------------------------------
(* try_push_futures: the first ids move to pending_futures while less than *)
(* Desired results are outstanding.  CurrentAfter(k) is the round robin    *)
(* index after the first k of them.                                        *)

Outstanding == Cardinality(pending_futures) + Cardinality(queued_outputs)

Smaller(a, b) == IF a < b THEN a ELSE b

NumToRequest ==
    Smaller(Len(ids_to_request), IF Desired > Outstanding THEN Desired - Outstanding ELSE 0)

Advances(hint) == peers # <<>> /\ ~IsKnown(hint)

CurrentAfter(k) ==
    LET advanced == Cardinality({j \in 1 .. k : Advances(ids_to_request[j].hint)})
    IN IF advanced = 0 THEN current_peer_index
       ELSE (current_peer_index + advanced) % Len(peers)

PushedFutures ==
    {NewRequest(ids_to_request[k], next_incoming_index + k - 1, CurrentAfter(k)) :
        k \in 1 .. NumToRequest}

(* What was pushed is polled in the loop of the same poll_next, so that    *)
(* FuturesUnordered need not wake the task for it.  try_push_futures does, *)
(* with the waker that poll_next stored: it is taken.                      *)
TryPush(retried) ==
    /\ pending_futures' = pending_futures \union PushedFutures \union retried
    /\ ids_to_request' = SubSeq(ids_to_request, NumToRequest + 1, Len(ids_to_request))
    /\ next_incoming_index' = next_incoming_index + NumToRequest
    /\ current_peer_index' = CurrentAfter(NumToRequest)
    /\ waker' = (NumToRequest = 0)

-----------------------------------------------------------------------------
(* retry_request: whether, and how, a failed request is repeated.          *)

max_tries ==
    IF Len(peers) < MIN_ATTEMPTS THEN MIN_ATTEMPTS ELSE Smaller(Len(peers), MAX_ATTEMPTS)

CanRetry(r) == r.num_tries < max_tries /\ peers # <<>>

Retried(r) ==
    RequestTo(r.id, r.index, increment_and_get(r.peer), r.asked, r.num_tries + 1)

-----------------------------------------------------------------------------
(* Poll::Ready(Some(..)): the consumer of a stream polls again.            *)

Result(r, ok) == [id |-> r.id, ok |-> ok, asked |-> r.asked]

Yield(r, ok) ==
    /\ yielded' = Append(yielded, Result(r, ok))
    /\ next_outgoing_index' = next_outgoing_index + 1
    /\ polling' = FALSE
    /\ scheduled' = TRUE

IsNext(r) == r.index = next_outgoing_index

-----------------------------------------------------------------------------
(* poll_next up to its loop.  The queued output that is next in order is   *)
(* verified and returned, or requested again if it does not verify.        *)

ReturnQueued(r) ==
    \E verified \in BOOLEAN :
        /\ r.data = "None" => ~verified
        /\ verified \/ r.data = "None" \/ ~CanRetry(r)
        /\ queued_outputs' = queued_outputs \ {r}
        /\ TryPush({})
        /\ Yield(r, verified)

RetryQueued(r) ==
    /\ r.data = "Output" /\ CanRetry(r)
    /\ queued_outputs' = queued_outputs \ {r}
    /\ TryPush({Retried(r)})
    /\ polling' = TRUE
    /\ scheduled' = TRUE
    /\ UNCHANGED <<next_outgoing_index, yielded>>

NothingQueued ==
    /\ \A r \in queued_outputs : ~IsNext(r)
    /\ TryPush({})
    /\ polling' = TRUE
    /\ scheduled' = (NumToRequest > 0)
    /\ UNCHANGED <<queued_outputs, next_outgoing_index, yielded>>

Poll ==
    /\ ~polling
    /\ \/ \E r \in queued_outputs : IsNext(r) /\ (ReturnQueued(r) \/ RetryQueued(r))
       \/ NothingQueued
    /\ UNCHANGED <<peers, next_id, truncated, churned>>

-----------------------------------------------------------------------------
(* A turn of the loop: one resolved future r is taken.  FuturesUnordered   *)
(* polled some of the new ones before it, which sends their requests.      *)

Sent(futures) == {[q EXCEPT !.sent = TRUE] : q \in futures}
New == {q \in pending_futures : ~q.sent}
IsReady(r) == r.data # "Waiting"

(* The output is next in order and verifies. *)
ReturnOutput(r, rest) ==
    /\ r.data = "Output" /\ IsNext(r)
    /\ pending_futures' = rest
    /\ Yield(r, TRUE)
    /\ UNCHANGED queued_outputs

(* An output that is not next is kept, and verified when it is. *)
QueueOutput(r, rest) ==
    /\ r.data = "Output" /\ ~IsNext(r)
    /\ pending_futures' = rest
    /\ queued_outputs' = queued_outputs \union {r}
    /\ UNCHANGED <<next_outgoing_index, yielded, polling, scheduled>>

(* The request failed, or its output is next and does not verify. *)
CanFail(r) == r.data # "Output" \/ IsNext(r)

RetryRequest(r, rest) ==
    /\ CanFail(r) /\ CanRetry(r)
    /\ pending_futures' = rest \union {Retried(r)}
    /\ scheduled' = TRUE
    /\ UNCHANGED <<queued_outputs, next_outgoing_index, yielded, polling>>

ReturnError(r, rest) ==
    /\ CanFail(r) /\ ~CanRetry(r) /\ IsNext(r)
    /\ pending_futures' = rest
    /\ Yield(r, FALSE)
    /\ UNCHANGED queued_outputs

(* Mutant: the failure of a request that is not next is dropped. *)
ForgetError(r, rest) ==
    /\ CanFail(r) /\ ~CanRetry(r) /\ ~IsNext(r)
    /\ pending_futures' = rest
    /\ UNCHANGED <<queued_outputs, next_outgoing_index, yielded, polling, scheduled>>

QueueError(r, rest) ==
    /\ CanFail(r) /\ ~CanRetry(r) /\ ~IsNext(r)
    /\ pending_futures' = rest
    /\ queued_outputs' = queued_outputs \union {[r EXCEPT !.data = "None"]}
    /\ UNCHANGED <<next_outgoing_index, yielded, polling, scheduled>>

TakeReady(r, rest) ==
    \/ ReturnOutput(r, rest)
    \/ QueueOutput(r, rest)
    \/ RetryRequest(r, rest)
    \/ ReturnError(r, rest)
    \/ QueueError(r, rest)

PollReady ==
    /\ polling
    /\ \E r \in pending_futures :
        /\ IsReady(r)
        /\ \E polled \in SUBSET (New \ {r}) :
            TakeReady(r, (pending_futures \ (polled \union {r})) \union Sent(polled))
    /\ UNCHANGED <<peers, ids_to_request, next_incoming_index, current_peer_index,
                   waker, next_id, truncated, churned>>

(* No future is ready: every new one was polled, and its answer will wake  *)
(* the task.  If there is no future at all (Poll::Ready(None)) the code    *)
(* requests more ids; none are left then, see SleepsOnlyWithoutWork.       *)
PollPending ==
    /\ polling
    /\ \A r \in pending_futures : ~IsReady(r)
    /\ pending_futures' = Sent(pending_futures)
    /\ waker' = (waker \/ ids_to_request = <<>>)
    /\ polling' = FALSE
    /\ UNCHANGED <<peers, ids_to_request, queued_outputs, next_incoming_index,
                   next_outgoing_index, current_peer_index, scheduled, history>>

-----------------------------------------------------------------------------
(* The rest of the interface.  add_ids is one id at a time.                *)

WakeTask == scheduled' = (scheduled \/ waker) /\ waker' = FALSE

add_ids ==
    /\ ~polling
    /\ next_id <= MaxIds
    /\ \E hint \in Peers \union {NoPeer} :
        ids_to_request' = Append(ids_to_request, [id |-> next_id, hint |-> hint])
    /\ next_id' = next_id + 1
    /\ WakeTask
    /\ UNCHANGED <<peers, pending_futures, queued_outputs, next_incoming_index,
                   next_outgoing_index, current_peer_index, polling, truncated, yielded,
                   churned>>

(* truncate_ids(len) keeps the first len ids, counted from the first one.  *)
Kept(len) == IF len > next_incoming_index THEN len - next_incoming_index ELSE 0

truncate_ids(len) ==
    /\ ~polling
    /\ Kept(len) < Len(ids_to_request)
    /\ ids_to_request' = SubSeq(ids_to_request, 1, Kept(len))
    /\ truncated' = truncated \union
         {ids_to_request[k].id : k \in Kept(len) + 1 .. Len(ids_to_request)}
    /\ UNCHANGED <<peers, pending_futures, queued_outputs, next_incoming_index,
                   next_outgoing_index, current_peer_index, task, next_id, yielded,
                   churned>>

add_peer(p) ==
    /\ p \notin Range(peers)
    /\ peers' = Append(peers, p)
    /\ churned' = (churned \/ next_id > 1)
    /\ UNCHANGED <<queue, task, next_id, truncated, yielded>>

remove_peer(p) ==
    /\ p \in Range(peers)
    /\ LET i == index_of(p) + 1
       IN  peers' = SubSeq(peers, 1, i - 1) \o SubSeq(peers, i + 1, Len(peers))
    /\ churned' = (churned \/ next_id > 1)
    /\ UNCHANGED <<queue, task, next_id, truncated, yielded>>

(* The network answers a request, or fails it (timeout, closed connection).*)
Answer(r, data) ==
    /\ r.sent /\ ~IsReady(r)
    /\ pending_futures' = (pending_futures \ {r}) \union {[r EXCEPT !.data = data]}
    /\ scheduled' = TRUE
    /\ UNCHANGED <<peers, ids_to_request, queued_outputs, next_incoming_index,
                   next_outgoing_index, current_peer_index, waker, polling, history>>

-----------------------------------------------------------------------------
Init ==
    /\ peers = <<>>
    /\ ids_to_request = <<>>
    /\ pending_futures = {}
    /\ queued_outputs = {}
    /\ next_incoming_index = 0
    /\ next_outgoing_index = 0
    /\ current_peer_index = NoIndex
    /\ waker = FALSE
    /\ scheduled = TRUE
    /\ polling = FALSE
    /\ next_id = 1
    /\ truncated = {}
    /\ yielded = <<>>
    /\ churned = FALSE

QueueStep == Poll \/ PollReady \/ PollPending
AnswerStep == \E r \in pending_futures, data \in Answers : Answer(r, data)

Next ==
    \/ QueueStep
    \/ add_ids
    \/ \E len \in 0 .. MaxIds : truncate_ids(len)
    \/ \E p \in Peers : add_peer(p) \/ remove_peer(p)
    \/ AnswerStep

Spec == Init /\ [][Next]_vars

(* A poll that began ends, a woken task polls, and every request is        *)
(* answered or times out.  Nothing is assumed of polls without a reason.   *)
Fairness ==
    /\ WF_vars(PollReady \/ PollPending)
    /\ WF_vars(scheduled /\ Poll)
    /\ WF_vars(AnswerStep)

FairSpec == Spec /\ Fairness

-----------------------------------------------------------------------------
Wrappers ==
    [id : 1 .. MaxIds, index : 0 .. MaxIds - 1, peer : Indices, asked : SUBSET Peers,
     num_tries : 1 .. MAX_ATTEMPTS, data : {"Waiting", "None"} \union Answers, sent : BOOLEAN]

(* The fields of the SyncQueue have their types, and no id is requested    *)
(* more than MAX_ATTEMPTS times.                                           *)
TypeOK ==
    /\ peers \in UNION {[1 .. n -> Peers] : n \in 0 .. Cardinality(Peers)}
    /\ ids_to_request \in Seq([id : 1 .. MaxIds, hint : Peers \union {NoPeer}])
    /\ pending_futures \subseteq Wrappers
    /\ queued_outputs \subseteq Wrappers
    /\ next_incoming_index \in 0 .. MaxIds
    /\ next_outgoing_index \in 0 .. MaxIds
    /\ current_peer_index \in Indices
    /\ {waker, scheduled, polling, churned} \subseteq BOOLEAN
    /\ next_id \in 1 .. MaxIds + 1
    /\ truncated \subseteq 1 .. MaxIds
    /\ yielded \in Seq([id : 1 .. MaxIds, ok : BOOLEAN, asked : SUBSET Peers])

(* The order of the stream (poll_next): results are returned in the order  *)
(* in which add_ids was given the ids, whatever the order of the answers   *)
(* and however often each was requested.                                   *)
YieldsInOrder ==
    \A i, j \in 1 .. Len(yielded) : i < j => yielded[i].id < yielded[j].id

InFlight == pending_futures \union queued_outputs

(* Nothing is lost or resolved twice: the requests in flight are exactly   *)
(* one for each index that was given out and not returned, and every id is *)
(* returned, in flight, still to be requested, or was truncated.           *)
NothingIsLost ==
    /\ {r.index : r \in InFlight} = next_outgoing_index .. next_incoming_index - 1
    /\ Outstanding = next_incoming_index - next_outgoing_index
    /\ 1 .. next_id - 1 =
         {yielded[k].id : k \in 1 .. Len(yielded)} \union {r.id : r \in InFlight}
         \union {ids_to_request[k].id : k \in 1 .. Len(ids_to_request)} \union truncated

(* The bound of try_push_futures: retries included, no more than           *)
(* desired_pending_size results are ever outstanding.                      *)
OutstandingIsBounded == Outstanding <= Desired

(* No lost wake-up (poll_next, add_ids): a task that is not scheduled to   *)
(* poll has sent everything it may send and has nothing to return, and the *)
(* loop finds no future at all only when no id is left to request.         *)
SleepsOnlyWithoutWork ==
    /\ ~polling /\ ~scheduled =>
        /\ \A r \in pending_futures : r.sent /\ ~IsReady(r)
        /\ \A r \in queued_outputs : ~IsNext(r)
        /\ ids_to_request # <<>> => Outstanding = Desired
    /\ polling /\ pending_futures = {} => ids_to_request = <<>>

(* The promise in retry_request, "If we tried all peers for this id,       *)
(* return an error": while the peers stay the same, an id fails only after *)
(* every one of them was asked for it, up to MAX_ATTEMPTS of them.         *)
AllPeersTried ==
    ~churned => \A k \in 1 .. Len(yielded) :
        ~yielded[k].ok => Cardinality(yielded[k].asked) >= Smaller(Len(peers), MAX_ATTEMPTS)

(* The queue as its users rely on it: outputs come in order, each id once, *)
(* with a bounded number of requests, no lost wake-up, and an error only   *)
(* after all peers were tried.                                             *)
DownloadIsOrdered ==
    /\ TypeOK /\ YieldsInOrder /\ NothingIsLost
    /\ OutstandingIsBounded /\ SleepsOnlyWithoutWork /\ AllPeersTried

Resolved(id) ==
    id \in truncated \/ \E k \in 1 .. Len(yielded) : yielded[k].id = id

AllResolved == \A id \in 1 .. next_id - 1 : Resolved(id)

(* Every id that is given to add_ids, and not truncated, is returned in    *)
(* the end, as an output or as an error.  At most MaxIds ids are ever      *)
(* given, and what is resolved stays so.                                   *)
EveryIdIsResolved == []<>AllResolved
=============================================================================
