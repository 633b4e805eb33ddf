------------------------------- MODULE Handel -------------------------------
(***************************************************************************)
(* The aggregation of votes by one validator, and what it sends to the     *)
(* others: handel/src with the registry of the validators.                 *)
(*                                                                         *)
(* A contribution is the set of slots that signed it and whether its       *)
(* signature is right.  poll_next drains its inputs, then handles the      *)
(* verification, the intervals, the pending contributions and the network, *)
(* and is polled again after every result.  Each of these is an action: no *)
(* two of them share a local variable other than the result they return.   *)
(***************************************************************************)
EXTENDS Integers, Sequences, FiniteSets, SequencesExt

CONSTANTS
    None,
    Configurations,
    MAX_PARALLEL_SENDS,
    PEER_COUNT                \* Config::peer_count

VARIABLES
    config,          \* the validators, their slots, and the updates that arrive
    store,           \* individual contributors and best contribution by level
    levels,          \* started, complete and next_peer_index of every level
    pending,         \* PendingContributionList
    verification,    \* the contribution being verified, or None
    final_result,
    emitted,         \* the last aggregate returned by the stream, or None
    net,             \* NetworkHelper
    budget           \* updates, ticks and sends left in a run

vars == <<config, store, levels, pending, verification, final_result, emitted, net, budget>>

node == config.node
Validators == 0 .. config.size - 1

-----------------------------------------------------------------------------
(* BinomialPartitioner: level l of a validator is the sibling of its subtree *)
(* with 2^(l-1) ids; identities_on is empty where the code returns an error. *)
NumLevels(n) == IF n = 1 THEN 1 ELSE 1 + CHOOSE k \in 1 .. n : 2 ^ (k - 1) < n /\ n <= 2 ^ k

identities_on(n, id, l) ==
    IF l = 0 THEN {id}
    ELSE LET w == 2 ^ (l - 1)
             b == id \div w
         IN {i \in 0 .. n - 1 : i \div w = b + 1 - 2 * (b % 2)}

num_levels == NumLevels(config.size)
Levels == 0 .. num_levels - 1
PeersOn(l) == identities_on(config.size, node, l)
cumulative_level_size(l) == Cardinality(UNION {PeersOn(k) : k \in 0 .. l})

-----------------------------------------------------------------------------
(* ValidatorRegistry: slots that are not all those of their validators are   *)
(* nobody's.                                                                 *)
SlotsOf(ids) == UNION {config.slots[v] : v \in ids}
signers_identity(c) ==
    LET ids == {v \in Validators : config.slots[v] \cap c.signers # {}}
    IN IF SlotsOf(ids) = c.signers THEN ids ELSE {}

signature_weight(c) == Cardinality(c.signers)
is_complete(c) == signature_weight(c) >= config.threshold

OwnContribution == [signers |-> config.slots[node], valid |-> TRUE]
Combined(cs) == [signers |-> UNION {c.signers : c \in cs}, valid |-> \A c \in cs : c.valid]

-----------------------------------------------------------------------------
(* ReplaceStore.  The individual contribution of a validator is made of its  *)
(* slots and was verified.                                                   *)
Best(s, l) == s.best[l]
Individual(v) == [signers |-> config.slots[v], valid |-> TRUE]

check_merge_plain(s, c, l) ==
    LET best == s.best[l] IN
    IF best = None THEN c
    ELSE IF c.signers \cap best.signers = {} THEN Combined({c, best})
    ELSE IF Cardinality(signers_identity(c)) > Cardinality(signers_identity(best)) THEN c
    ELSE best
check_merge(s, c, l) ==
    LET best == s.best[l]
        ids == signers_identity(c)
        complement == s.individual[l] \ ids
    IN IF best = None THEN c
       ELSE IF c.signers \cap best.signers = {} THEN Combined({c, best})
       ELSE IF signers_identity(best) \subseteq ids THEN c
       ELSE IF Cardinality(complement) + Cardinality(ids) <= Cardinality(signers_identity(best)) THEN best
       ELSE Combined({c} \cup {Individual(v) : v \in complement})

put(s, c, l) ==
    LET ids == signers_identity(c)
        known == IF Cardinality(ids) = 1 THEN [s.individual EXCEPT ![l] = @ \cup ids] ELSE s.individual
        s1 == [s EXCEPT !.individual = known]
    IN IF ids = {} THEN s ELSE [s1 EXCEPT !.best[l] = check_merge(s1, c, l)]

combined(s, l) ==
    LET bests == {s.best[k] : k \in 0 .. l} \ {None}
    IN IF bests = {} THEN None ELSE Combined(bests)

-----------------------------------------------------------------------------
(* WeightedVote *)
evaluate(s, c, l) ==
    LET ids == signers_identity(c)
        best == s.best[l]
        best_ids == IF best = None THEN {} ELSE signers_identity(best)
        total == ids \cup s.individual[l] \cup (IF ids \cap best_ids = {} THEN best_ids ELSE {})
        added == Cardinality(total) - Cardinality(best_ids)
        merged == Cardinality(total \ (ids \cup (IF ids \cap best_ids = {} THEN best_ids ELSE {})))
    IN IF l = num_levels THEN 10000000
       ELSE IF \/ ids = {}
               \/ Cardinality(ids) = 1 /\ ids \subseteq s.individual[l]
               \/ best # None /\ Cardinality(PeersOn(l)) = Cardinality(best_ids)
               \/ best # None /\ ids \subseteq best_ids
            THEN 0
       ELSE IF added <= 0 THEN (IF Cardinality(ids) = 1 THEN signature_weight(c) ELSE 0)
       ELSE IF Cardinality(total) = Cardinality(PeersOn(l)) THEN 1000000 - l * 10 - merged
       ELSE 100000 - l * 100 + added * 10 - merged

(* Whether validator id accepts the update u. *)
verify(id, u) ==
    IF u.level = num_levels THEN is_complete(u.aggregate)
    ELSE LET allowed == identities_on(config.size, id, u.level)
         IN /\ u.level \in 1 .. num_levels - 1
            /\ u.origin \in allowed
            /\ u.individual # None => signers_identity(u.individual) = {u.origin}
            /\ signers_identity(u.aggregate) \subseteq allowed

-----------------------------------------------------------------------------
(* NetworkHelper::send: one message per recipient, in the order in which the *)
(* recipients came; the same signers are not repeated too soon.              *)
Buffered(n, p) == {i \in DOMAIN n.buffer : n.buffer[i].to = p}
send(n, p, u) ==
    IF n.last[p].recent /\ n.last[p].signers = u.aggregate.signers THEN n
    ELSE IF Buffered(n, p) = {} THEN [n EXCEPT !.buffer = Append(@, [to |-> p, update |-> u])]
    ELSE [n EXCEPT !.buffer = [i \in DOMAIN @ |-> IF @[i].to = p THEN [to |-> p, update |-> u] ELSE @[i]]]

Ascending(S) == SetToSortSeq(S, LAMBDA a, b : a < b)

send_contribution(n, c, l, ids) ==
    LET individual == IF Cardinality(signers_identity(c)) < cumulative_level_size(l - 1) THEN OwnContribution ELSE None
        update == [aggregate |-> c, individual |-> individual, level |-> l, origin |-> node]
    IN FoldLeft(LAMBDA m, p : send(m, p, update), n, Ascending(ids))

send_update(n, s, l, ids) ==
    LET n1 == IF final_result = None THEN n ELSE send_contribution(n, final_result, num_levels, ids)
        best == combined(s, l - 1)
    IN IF ids = {} THEN n ELSE IF best = None THEN n1 ELSE send_contribution(n1, best, l, ids)

(* Level::select_next_peers: PEER_COUNT peers from next_peer_index on. *)
Selected(l) == LET k == Cardinality(PeersOn(l)) IN IF l = 0 THEN 0 ELSE IF k < PEER_COUNT THEN k ELSE PEER_COUNT
select_next_peers(l) ==
    LET peers == Ascending(PeersOn(l))
    IN {peers[((levels[l].next + i) % Len(peers)) + 1] : i \in 0 .. Selected(l) - 1}
next_peer_index(l) ==
    IF Selected(l) = 0 THEN levels[l].next
    ELSE (levels[l].next + Selected(l)) % Cardinality(PeersOn(l))

(* Updates for the levels L, lowest first, to the next peers of each. *)
SendOn(s, L) == FoldLeft(LAMBDA n, l : send_update(n, s, l, select_next_peers(l)), net, Ascending(L \ {0}))

-----------------------------------------------------------------------------
(* check_completed_level marks the level and those after it that are full. *)
Full(s, l) ==
    \/ PeersOn(l) = {}
    \/ s.best[l] # None /\ Cardinality(signers_identity(s.best[l])) >= Cardinality(PeersOn(l))

Completed(s, l) == {i \in l .. num_levels - 1 : \A j \in l .. i : ~levels[j].complete /\ Full(s, j)}

(* The levels started, or sent an improved contribution, when a contribution *)
(* for level l is in the store.                                              *)
Advanced(s, l) ==
    {i \in 0 .. l : ~levels[i].started} \cup {i \in l + 1 .. num_levels - 1 : i - 1 \in Completed(s, l)}

Emitted_again(c) == emitted' = c
Emitted(c) == emitted' = IF final_result = None THEN c ELSE emitted

(* The end of poll_next: a complete aggregate is the final result. *)
Returns(c) ==
    /\ Emitted(c)
    /\ final_result' = IF final_result = None /\ is_complete(c) THEN c ELSE final_result

Finishes(c) == final_result = None /\ is_complete(c)

apply_contribution(p) ==
    IF p.level = num_levels
    THEN /\ Returns(p.contribution)
         /\ levels' = [l \in Levels |-> [levels[l] EXCEPT !.complete = @ \/ Finishes(p.contribution)]]
         /\ UNCHANGED <<store, net>>
    ELSE LET s == put(store, p.contribution, p.level)
             best == combined(s, num_levels - 1)
         IN /\ store' = s
            /\ net' = SendOn(s, Advanced(s, p.level))
            /\ levels' = [l \in Levels |->
                   [started |-> levels[l].started \/ l \in Advanced(s, p.level),
                    complete |-> levels[l].complete \/ l \in Completed(s, p.level) \/ Finishes(best),
                    next |-> IF l \in Advanced(s, p.level) THEN next_peer_index(l) ELSE levels[l].next]]
            /\ Returns(best)

-----------------------------------------------------------------------------
(* Aggregation::new: the own contribution is pending and trusted. *)
Position(l) ==
    LET below == UNION {PeersOn(k) : k \in 0 .. l - 1} IN Cardinality({i \in below : i < node})

Entry(c, l, origin, kind, trusted) ==
    [contribution |-> c, level |-> l, origin |-> origin, kind |-> kind, trusted |-> trusted]

Init ==
    /\ config \in Configurations
    /\ store = [individual |-> [l \in Levels |-> {}], best |-> [l \in Levels |-> None]]
    /\ levels = [l \in Levels |->
           [started |-> l = 0, complete |-> FALSE,
            next |-> IF l = 0 \/ PeersOn(l) = {} THEN 0 ELSE Position(l) % Cardinality(PeersOn(l))]]
    /\ pending = {Entry(OwnContribution, 0, node, "Aggregate", TRUE)}
    /\ verification = None /\ final_result = None /\ emitted = None
    /\ net = [buffer |-> << >>, sending |-> {}, last |-> [p \in Validators |-> [signers |-> {}, recent |-> FALSE]]]
    /\ budget = config.budget

(* At most one entry per level, origin and kind: the last one. *)
add_contribution(list, e) ==
    {f \in list : <<f.level, f.origin, f.kind>> # <<e.level, e.origin, e.kind>>} \cup {e}

(* An update from the input stream is answered, then its contributions wait. *)
respond_to_update(u) ==
    IF u.level = num_levels THEN net ELSE send_update(net, store, u.level, {u.origin})

Receive(u) ==
    /\ budget.updates > 0
    /\ budget' = [budget EXCEPT !.updates = @ - 1]
    /\ IF verify(node, u)
       THEN LET list == add_contribution(pending, Entry(u.aggregate, u.level, u.origin, "Aggregate", FALSE))
            IN /\ net' = respond_to_update(u)
               /\ pending' = IF u.individual = None THEN list
                             ELSE add_contribution(list, Entry(u.individual, u.level, u.origin, "Individual", FALSE))
       ELSE UNCHANGED <<net, pending>>
    /\ UNCHANGED <<config, store, levels, verification, final_result, emitted>>

(* PendingContributionList::poll_next: entries without a score go, the best  *)
(* one is taken.  A verification is started for it unless it is trusted.     *)
Score(e) == evaluate(store, e.contribution, e.level)
Useful == {e \in pending : Score(e) > 0}

StartVerification ==
    /\ verification = None /\ pending # {}
    /\ IF Useful = {}
       THEN /\ pending' = {}
            /\ UNCHANGED <<store, levels, verification, final_result, emitted, net>>
       ELSE \E e \in Useful :
            /\ \A f \in Useful : Score(f) <= Score(e)
            /\ pending' = Useful \ {e}
            /\ IF e.trusted
               THEN apply_contribution(e) /\ UNCHANGED verification
               ELSE /\ verification' = e
                    /\ UNCHANGED <<store, levels, final_result, emitted, net>>
    /\ UNCHANGED <<config, budget>>

(* The verification is done; the sender of a forged contribution is banned.  *)
Verified ==
    /\ verification # None
    /\ verification' = None
    /\ IF verification.contribution.valid
       THEN apply_contribution(verification)
       ELSE UNCHANGED <<store, levels, final_result, emitted, net>>
    /\ UNCHANGED <<config, pending, budget>>

Sends(L) ==
    /\ net' = SendOn(store, L)
    /\ levels' = [l \in Levels |->
           [levels[l] EXCEPT !.started = @ \/ l \in L,
                             !.next = IF l \in L \ {0} THEN next_peer_index(l) ELSE @]]

Ticks ==
    /\ budget.ticks > 0
    /\ budget' = [budget EXCEPT !.ticks = @ - 1]
    /\ UNCHANGED <<config, store, pending, verification, final_result, emitted>>

(* The update interval and the interval for the next level. *)
automatic_update == Ticks /\ Sends({l \in Levels : \A k \in 0 .. l : levels[k].started})
activate_next_level ==
    /\ Ticks
    /\ Sends({l \in Levels : ~levels[l].started /\ \A k \in 0 .. l - 1 : levels[k].started})

-----------------------------------------------------------------------------
(* NetworkHelper::poll, and the network: sends succeed or fail in any order. *)
StartSend ==
    /\ Cardinality(net.sending) < MAX_PARALLEL_SENDS /\ net.buffer # << >> /\ budget.sends > 0
    /\ net' = [net EXCEPT !.buffer = Tail(@), !.sending = @ \cup {Head(net.buffer)}]
    /\ budget' = [budget EXCEPT !.sends = @ - 1]
    /\ UNCHANGED <<config, store, levels, pending, verification, final_result, emitted>>

Sent(m, ok) ==
    /\ m \in net.sending
    /\ net' = [net EXCEPT !.sending = @ \ {m},
                          !.last[m.to] = IF ok THEN [signers |-> m.update.aggregate.signers, recent |-> TRUE] ELSE @]
    /\ UNCHANGED <<config, store, levels, pending, verification, final_result, emitted, budget>>

(* ALLOW_RESEND_AFTER has passed. *)
Elapsed(p) ==
    /\ net.last[p].recent
    /\ net' = [net EXCEPT !.last[p].recent = FALSE]
    /\ UNCHANGED <<config, store, levels, pending, verification, final_result, emitted, budget>>

Next ==
    \/ \E u \in config.updates : Receive(u)
    \/ StartVerification \/ Verified
    \/ automatic_update \/ activate_next_level
    \/ StartSend
    \/ \E m \in net.sending, ok \in BOOLEAN : Sent(m, ok)
    \/ \E p \in Validators : Elapsed(p)

Spec == Init /\ [][Next]_vars

-----------------------------------------------------------------------------
Contributions == {store.best[l] : l \in Levels} \ {None}

(* Levels point at one of their peers; the store holds signatures of peers. *)
TypeOK ==
    /\ \A l \in Levels : PeersOn(l) # {} => levels[l].next \in 0 .. Cardinality(PeersOn(l)) - 1
    /\ \A l \in Levels : store.individual[l] \subseteq PeersOn(l)
    /\ \A i, j \in DOMAIN net.buffer : net.buffer[i].to = net.buffer[j].to => i = j

(* The best contributions of different levels have no signer in common:      *)
(* BinomialPartitioner::combine panics otherwise.  The contribution that is  *)
(* being verified is still new when it comes to the store, where a second    *)
(* individual contribution of a validator fails an assertion.                *)
NoPanic ==
    /\ \A k, l \in Levels :
          k # l /\ store.best[k] # None /\ store.best[l] # None
             => store.best[k].signers \cap store.best[l].signers = {}
    /\ verification # None /\ verification.level < num_levels
          => /\ combined(store, num_levels - 1) # None
             /\ LET ids == signers_identity(verification.contribution)
                IN Cardinality(ids) = 1 => ids \cap store.individual[verification.level] = {}

(* Every individual contribution that was verified is part of the best one   *)
(* of its level: check_merge does not add them to disjoint contributions     *)
(* "since individuals should already have been present in the previous       *)
(* best".                                                                    *)
IndividualsAreInBest ==
    \A l \in Levels : store.individual[l] # {} =>
        store.best[l] # None /\ store.individual[l] \subseteq signers_identity(store.best[l])

(* Nothing forged is in the store, returned to the caller or sent on. *)
OnlyVerifiedIsUsed ==
    /\ \A c \in Contributions : c.valid
    /\ emitted # None => emitted.valid
    /\ \A i \in DOMAIN net.buffer : net.buffer[i].update.aggregate.valid

(* What the node sends on any level, with the final result or without, is    *)
(* accepted by the validator it is sent to, whose levels are others.         *)
UpdatesAreAccepted ==
    /\ \A i \in DOMAIN net.buffer : verify(net.buffer[i].to, net.buffer[i].update)
    /\ \A m \in net.sending : verify(m.to, m.update)

(* A level is given up for complete only with the contributions of all its   *)
(* peers, and then the next one has been started.                            *)
CompleteIsFull ==
    final_result = None =>
        \A l \in Levels : levels[l].complete =>
            /\ PeersOn(l) = {} \/ (store.best[l] # None /\ PeersOn(l) \subseteq signers_identity(store.best[l]))
            /\ l + 1 \in Levels => levels[l + 1].started

(* One step of the store and of the result. *)
ImprovesStep ==
    /\ \A l \in Levels : store.best[l] # None =>
          /\ store'.best[l] # None
          /\ Cardinality(signers_identity(store.best[l])) <= Cardinality(signers_identity(store'.best[l]))
    /\ final_result # None => final_result' = final_result /\ emitted' = emitted

(* The best contribution of a level never loses contributors on balance,     *)
(* whatever overlaps with it arrives, and after the final result the stream  *)
(* returns nothing any more.                                                 *)
OnlyImproves == [][ImprovesStep]_vars

(* The levels of a validator are a partition of all validators, and two      *)
(* validators see each other on the same level: an update for a level is     *)
(* read on the same level by its recipient.                                  *)
LevelsAgree ==
    /\ UNION {PeersOn(l) : l \in Levels} = Validators
    /\ \A l \in Levels :
           /\ \A p \in PeersOn(l) : node \in identities_on(config.size, p, l)
           /\ \A k \in 0 .. l - 1 : PeersOn(k) \cap PeersOn(l) = {}

(* The stream returns aggregates that only get better: apply_contribution    *)
(* says of its result that it is the new best aggregate.  Not so in the      *)
(* code: a full update of another validator comes with its individual        *)
(* contribution, which is returned like the aggregate.                       *)
BestIsReturned ==
    [][emitted # None /\ emitted' # emitted =>
          Cardinality(emitted.signers) <= Cardinality(emitted'.signers)]_vars

(* respond_to_update: "If we already have a final result, we send that       *)
(* result instead": an answer given after the end is the final result.  Not  *)
(* so in the code: the answer is the best aggregate of the level.            *)
FinalResultIsSent ==
    [][final_result # None => 
          \A i \in DOMAIN net'.buffer :
             (i \notin DOMAIN net.buffer) => net'.buffer[i].update.aggregate = final_result]_vars
=============================================================================
