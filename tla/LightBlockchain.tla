--------------------------- MODULE LightBlockchain ---------------------------
(***************************************************************************)
(* The light client's chain (light-blockchain/src/{push,sync,blockchain,   *)
(* abstract_blockchain,chain_store}.rs): headers only, kept in memory for  *)
(* about a batch, extended block by block (push) or by jumps from macro    *)
(* block to macro block (push_macro, push_pico_election).                  *)
(*                                                                         *)
(* Blocks, calendar and the fork choice are those of module Blockchain,    *)
(* which is instantiated a second time as a full node: in lockstep mode    *)
(* every block reaches both nodes, one after the other.  The light client  *)
(* executes nothing, so that all of a block it can check is its place in   *)
(* the chain.  The blocks are numbered along their chains, as              *)
(* verify_immediate_successor demands; what push does with others before   *)
(* it gets there is outside the model.                                     *)
(***************************************************************************)
EXTENDS Integers, Sequences, FiniteSets, FiniteSetsExt

CONSTANTS Hashes, Genesis, Chain, Skip, Unprunable,
          BlocksPerBatch, BatchesPerEpoch, MaxEpochsStored, None,
          Modes           \* subset of {"lockstep", "sync"}

VARIABLES
    mode,
    store,                \* ChainStore: chain, height_idx and election_db
    light,                \* head, macro_head and election_head
    panicked,             \* an expect, an assert or an underflow was hit
    event,                \* the BlockchainEvent that was sent last
    told,                 \* the chain a subscriber of the events knows
    detected,             \* the pairs of blocks sent as ForkEvent::Detected
    full_db, full_state   \* the full node

vars == <<mode, store, light, panicked, event, told, detected, full_db, full_state>>

Invalid == {}

L == INSTANCE Blockchain WITH db <- store, state <- light
F == INSTANCE Blockchain WITH db <- full_db, state <- full_state

Number == L!Number
At(h, n) == L!At(h, n)
Parent(h) == L!Parent(h)
IsMacro(h) == L!is_macro_block_at(Number[h])
IsElection(h) == L!is_election_block_at(Number[h])
ElectionBefore(h) == L!ParentElection(h)

(***************************************************************************)
(* The VRF seed of a block: a producer signs the seed before it, a skip    *)
(* block carries it over.  The blocks of one number and seed have one      *)
(* producer.                                                               *)
(***************************************************************************)
SeedOf(h) == <<Number[h] - 1, [n \in 1 .. Number[h] - 1 |-> At(h, n) \in Skip]>>

-----------------------------------------------------------------------------
(* ChainStore.                                                             *)

OnMain(link) == [on_main_chain |-> TRUE, main_chain_successor |-> link]

put_chain_info(d, h, info) ==
    [d EXCEPT !.chain[h] = info, !.height_idx = @ \cup {h}]

put_election(d, h) == [d EXCEPT !.election_db[L!epoch_at(Number[h])] = h]

should_retain_block(n, k) ==
    n - k <= IF L!is_election_block_at(k) THEN L!BlocksPerEpoch ELSE BlocksPerBatch

clear_old_blocks(d, n) ==
    LET gone == {h \in d.height_idx : ~should_retain_block(n, Number[h])}
    IN  [chain |-> [h \in Hashes |-> IF h \in gone THEN None ELSE d.chain[h]],
         height_idx |-> d.height_idx \ gone,
         election_db |-> [e \in DOMAIN d.election_db |->
            IF d.election_db[e] # None /\ ~should_retain_block(n, Number[d.election_db[e]])
            THEN None ELSE d.election_db[e]]]

(* current_block - block_number, in u32 *)
ClearUnderflows(d, n) == \E h \in d.height_idx : Number[h] > n

EmptyStore ==
    put_chain_info([chain |-> [h \in Hashes |-> None], height_idx |-> {},
                    election_db |-> [e \in {L!epoch_at(Number[h]) : h \in Hashes} |-> None]],
                   Genesis, OnMain(None))

(***************************************************************************)
(* get_blocks and get_macro_blocks: what the node answers to requests for  *)
(* count blocks after or before a block.                                   *)
(***************************************************************************)
get_blocks_forward(d, start, count) ==
    LET next(h) == d.chain[h].main_chain_successor
        walk[k \in 0 .. count] ==
            IF k = 0 THEN <<>>
            ELSE LET last == IF walk[k - 1] = <<>> THEN start
                             ELSE walk[k - 1][Len(walk[k - 1])]
                 IN  IF Len(walk[k - 1]) < k - 1 \/ next(last) = None
                     THEN walk[k - 1]
                     ELSE IF L!Known(d, next(last))
                          THEN Append(walk[k - 1], next(last)) ELSE walk[k - 1]
    IN walk[count]

get_blocks_backward(d, start, count) ==
    LET known(k) == \A j \in 1 .. k : L!Known(d, At(start, Number[start] - j))
        length == Max({k \in 0 .. Min({count, Number[start]}) : known(k)})
    IN [k \in 1 .. length |-> At(start, Number[start] - k)]

get_macro_blocks_forward(d, start, count, election_only) ==
    LET step == IF election_only THEN L!BlocksPerEpoch ELSE BlocksPerBatch
        found(k) == L!InfoAt(d, (Number[start] \div step + k) * step)
        length == Max({k \in 0 .. count : \A j \in 1 .. k : found(j) # {}})
    IN  [k \in 1 .. length |-> CHOOSE h \in found(k) : TRUE]

(* Without election_only the walk follows parent_hash, which is no macro block. *)
get_macro_blocks_backward(d, start, count, election_only) ==
    IF ~election_only THEN <<>>
    ELSE LET elections == {n \in 0 .. Number[start] - 1 : L!is_election_block_at(n)}
             nth(k) == Max({n \in elections : Cardinality({m \in elections : m >= n}) = k})
             known(k) == \A j \in 1 .. k : L!Known(d, At(start, nth(j)))
             length == Max({k \in 0 .. Min({count, Cardinality(elections)}) : known(k)})
         IN  [k \in 1 .. length |-> At(start, nth(k))]

-----------------------------------------------------------------------------
(* Verification against the state of the client.                           *)

verify_macro_successor(h, m) ==
    /\ ElectionBefore(h) = (IF IsElection(m) THEN m ELSE ElectionBefore(m))
    /\ Number[h] > Number[m]
    /\ Number[h] <= L!last_election_block(Number[m]) + L!BlocksPerEpoch

(* The signers of h were elected by the block the client has as election head. *)
verify_validators(h) == ElectionBefore(h) = light.election

get_validators_for_epoch(e) ==
    IF e = L!epoch_at(Number[light.head]) THEN {light.election}
    ELSE IF e = 0 THEN {} ELSE L!InfoAt(store, L!election_block_of(e - 1))

get_proposer(h) ==
    /\ L!InfoAt(store, L!last_macro_block(Number[h] - 1)) # {}
    /\ get_validators_for_epoch(L!epoch_at(Number[h])) # {}

(* push up to the chain ordering, which comes before the verification *)
Considered(h) ==
    /\ Number[h] > L!last_macro_block(Number[light.head])
    /\ ~L!Known(store, h)
    /\ L!Known(store, Parent(h))

(* verify_immediate_successor holds of all blocks of the tree. *)
Verified(h) ==
    /\ IsMacro(h) => verify_macro_successor(h, light.macro)
    /\ get_proposer(h)
    /\ verify_validators(h)

(* detect_forks: the blocks of h's number with h's seed *)
detect_forks(h) ==
    {{h, i} : i \in {j \in store.height_idx :
                        /\ Number[j] = Number[h] /\ ~IsMacro(j) /\ j \notin Skip
                        /\ SeedOf(j) = SeedOf(h)}}

Detected(h) == IF IsMacro(h) \/ h \in Skip THEN {} ELSE detect_forks(h)

-----------------------------------------------------------------------------
(* BlockchainEvent: Extended, Stored and Rebranched with its two vectors.  *)

Event(type, first, second) == [type |-> type, first |-> first, second |-> second]

(* What a subscriber that follows the events knows after the event. *)
Follow(e) ==
    CASE e.type = "Extended" -> IF Parent(e.first[1]) = told[Len(told)]
                                THEN told \o e.first ELSE e.first
      [] e.type = "Rebranched" -> SubSeq(told, 1, Len(told) - Len(e.first)) \o e.second
      [] OTHER -> told

Notify(e) == event' = e /\ told' = Follow(e)

added_hashes(e) ==
    CASE e.type = "Extended" -> e.first
      [] e.type = "Rebranched" -> e.first
      [] e.type = "Stored" -> e.first
      [] OTHER -> <<>>

-----------------------------------------------------------------------------
(* push.                                                                   *)

WithHead(h) ==
    [head |-> h,
     macro |-> IF IsMacro(h) THEN h ELSE light.macro,
     election |-> IF IsElection(h) THEN h ELSE light.election]

Cleared(d, h) == IF IsMacro(h) THEN clear_old_blocks(d, Number[h]) ELSE d

WithElection(d, h) == IF IsElection(h) THEN put_election(d, h) ELSE d

extend(h) ==
    LET linked == put_chain_info(store, Parent(h),
                     [store.chain[Parent(h)] EXCEPT !.main_chain_successor = h])
    IN  /\ panicked' = (IsMacro(h) /\ ClearUnderflows(store, Number[h]))
        /\ store' = put_chain_info(WithElection(Cleared(linked, h), h), h, OnMain(None))
        /\ light' = WithHead(h)
        /\ Notify(Event("Extended", <<h>>, <<>>))

(***************************************************************************)
(* rebranch: the fork becomes the main chain from the common ancestor on.  *)
(* In contrast to extend, the store is cleared after the fork's blocks     *)
(* were put.                                                               *)
(***************************************************************************)
RebranchPanics(h, a) ==
    \/ L!WalkFails(store, h)
    \/ \E n \in a + 1 .. Number[light.head] :
          L!is_macro_block_at(n) \/ ~L!Known(store, At(light.head, n - 1))
    \/ IsMacro(h) /\ ClearUnderflows(store, Number[h])

Relinked(h, a) == L!Relinked(store.chain, light, h, a)

AdoptedBlocks(h, a) == [n \in 1 .. Number[h] - a |-> At(h, a + n)]

rebranch(h) ==
    LET a == L!WalkEnd(store, h)
        linked == [store EXCEPT !.chain = Relinked(h, a), !.height_idx = @ \cup {h}]
        reverted == [n \in 1 .. Number[light.head] - a |-> At(light.head, a + n)]
    IN  IF RebranchPanics(h, a)
        THEN panicked' = TRUE /\ UNCHANGED <<store, light, event, told>>
        ELSE /\ a >= Number[light.macro]
             /\ store' = WithElection(Cleared(linked, h), h)
             /\ light' = WithHead(h)
             /\ Notify(Event("Rebranched", reverted, AdoptedBlocks(h, a)))
             /\ UNCHANGED panicked

(* Mutant: the light client keeps the main chain only. *)
StoreFork_drops(h) == UNCHANGED <<store, light, panicked, event, told>>
StoreFork(h) ==
    /\ store' = put_chain_info(store, h, L!OffMain)
    /\ Notify(Event("Stored", <<h>>, <<>>))
    /\ UNCHANGED <<light, panicked>>

push(h) ==
    /\ Considered(h)
    /\ IF L!OrderingPanics(store, light, h)
       THEN panicked' = TRUE /\ UNCHANGED <<store, light, event, told, detected>>
       ELSE /\ Verified(h)
            /\ detected' = detected \cup Detected(h)
            /\ LET order == L!order_chains(store, light, h)
               IN  \/ order = "Extend" /\ extend(h)
                   \/ order = "Superior" /\ rebranch(h)
                   \/ order \in {"Inferior", "Unknown"} /\ StoreFork(h)

(* push returns before it changes anything. *)
Refused(h) ==
    Considered(h) => ~L!OrderingPanics(store, light, h) /\ ~Verified(h)

-----------------------------------------------------------------------------
(* push_macro and push_pico_election: the block becomes the head, without  *)
(* a link to the blocks before it.                                         *)

Jump(h) ==
    /\ panicked' = ClearUnderflows(store, Number[h])
    /\ store' = WithElection(
                   put_chain_info(clear_old_blocks(store, Number[h]), h, OnMain(None)), h)
    /\ light' = WithHead(h)
    /\ Notify(Event("Extended", <<h>>, <<>>))

push_macro(h) ==
    /\ IsMacro(h)
    /\ ~L!Known(store, h)
    /\ Number[h] > Number[light.macro]
    /\ verify_macro_successor(h, light.macro)
    /\ verify_validators(h)
    /\ Jump(h)
    /\ UNCHANGED detected

push_pico_election(h) ==
    /\ IsElection(h)
    /\ ~L!Known(store, h)
    /\ Number[h] > Number[light.macro]
    /\ Jump(h)
    /\ UNCHANGED detected

(* No event is sent: the subscribers start over with the syncer. *)
reset_blockchain ==
    /\ light.head # Genesis
    /\ store' = EmptyStore
    /\ light' = [head |-> Genesis, macro |-> Genesis, election |-> Genesis]
    /\ event' = Event("None", <<>>, <<>>)
    /\ told' = <<Genesis>>
    /\ UNCHANGED <<panicked, detected>>

-----------------------------------------------------------------------------
Init ==
    /\ mode \in Modes
    /\ store = EmptyStore
    /\ light = [head |-> Genesis, macro |-> Genesis, election |-> Genesis]
    /\ panicked = FALSE
    /\ event = Event("None", <<>>, <<>>)
    /\ told = <<Genesis>>
    /\ detected = {}
    /\ F!Init

(* The full node is pushed the same block. *)
FullPush(h) ==
    \/ F!Store(h) \/ F!Extend(h) \/ F!Rebranch(h)
    \/ (~F!Acceptable(h) /\ UNCHANGED <<full_db, full_state>>)

PushToBoth(h) ==
    /\ mode = "lockstep" /\ ~panicked
    /\ push(h) \/ (Refused(h) /\ UNCHANGED <<store, light, panicked, event, told, detected>>)
    /\ FullPush(h)
    /\ UNCHANGED mode

Sync ==
    /\ mode = "sync" /\ ~panicked
    /\ \/ \E h \in Hashes : push(h) \/ push_macro(h)
       \/ \E h \in Hashes : light.head = Genesis /\ push_pico_election(h)
       \/ reset_blockchain
    /\ UNCHANGED <<mode, full_db, full_state>>

Next == (\E h \in Hashes : PushToBoth(h)) \/ Sync

Spec == Init /\ [][Next]_vars

-----------------------------------------------------------------------------
(* Properties.                                                             *)

(* The stored heads are blocks of their kinds and the tables have their shapes. *)
TypeOK ==
    /\ store.chain \in [Hashes -> L!ChainInfo \cup {None}]
    /\ store.height_idx = {h \in Hashes : L!Known(store, h)}
    /\ \A e \in DOMAIN store.election_db :
          store.election_db[e] # None => L!epoch_at(Number[store.election_db[e]]) = e
    /\ light.head \in Hashes /\ IsMacro(light.macro) /\ IsElection(light.election)

(***************************************************************************)
(* Whatever was pushed, jumped over and cleared, no push finds the store   *)
(* corrupted, rebranches across a macro block or clears with a number      *)
(* below that of a stored block.                                           *)
(***************************************************************************)
NoPanic == ~panicked

(***************************************************************************)
(* The election block whose validators verify the next blocks is the last  *)
(* one of the head's chain, the macro head is the head's last macro block, *)
(* and from the macro head on the blocks flagged on_main_chain are the     *)
(* ancestors of the head, each linked to the next.                         *)
(***************************************************************************)
HeadsAreConsistent ==
    LET n == Number[light.head]
        m == Number[light.macro]
    IN  /\ light.macro = At(light.head, L!last_macro_block(n))
        /\ light.election = At(light.head, L!last_election_block(n))
        /\ \A h \in Hashes : Number[h] >= m =>
              (L!OnMain(store, h) <=> h \in L!Segment(light.head, m, n))
        /\ \A k \in m .. n : store.chain[At(light.head, k)].main_chain_successor =
                                IF k = n THEN None ELSE At(light.head, k + 1)

(***************************************************************************)
(* A subscriber that follows the Extended and Rebranched events has the    *)
(* client's chain from the macro head on, in order.                        *)
(***************************************************************************)
EventsTellChain ==
    \A n \in Number[light.macro] .. Number[light.head] :
        LET back == Number[light.head] - n
        IN  back < Len(told) /\ told[Len(told) - back] = At(light.head, n)

(***************************************************************************)
(* A light client that was pushed the same blocks as a full node, in the   *)
(* same order, has the same head, although it executes nothing and forgets *)
(* blocks much earlier.                                                    *)
(***************************************************************************)
FollowsFullNode ==
    mode = "lockstep" => light.head = full_state.head /\ light.macro = full_state.macro

(***************************************************************************)
(* The next block on top of the head is always acceptable: what its        *)
(* verification needs (the macro block before it for the punished slots,   *)
(* the election block for the validators) has not been cleared.            *)
(***************************************************************************)
SuccessorsVerify ==
    \A h \in Hashes \ {Genesis} :
        Parent(h) = light.head => L!Known(store, h) \/ (Considered(h) /\ Verified(h))

(***************************************************************************)
(* Two blocks that one producer signed for one number never both sit in    *)
(* the store without the pair having been sent as fork proof.              *)
(***************************************************************************)
EquivocationIsDetected ==
    \A h, i \in store.height_idx :
        /\ h # i /\ Number[h] = Number[i]
        /\ h \notin Skip /\ i \notin Skip /\ SeedOf(h) = SeedOf(i)
        => {h, i} \in detected

(***************************************************************************)
(* Whatever the store still holds, blocks that are served as the           *)
(* successors of one of the current batch are a chain, and so are the      *)
(* election blocks before and after one.                                   *)
(***************************************************************************)
ServedAreConnected ==
    /\ \A h \in store.height_idx :
          /\ \A k \in 1 .. Len(get_blocks_forward(store, h, BlocksPerBatch)) :
                LET served == <<h>> \o get_blocks_forward(store, h, BlocksPerBatch)
                IN  Parent(served[k + 1]) = served[k]
          /\ \A k \in 1 .. Len(get_blocks_backward(store, h, 2)) :
                LET served == <<h>> \o get_blocks_backward(store, h, 2)
                IN  Parent(served[k]) = served[k + 1]
          /\ IsMacro(h) =>
                /\ \A k \in 1 .. Len(get_macro_blocks_forward(store, h, 2, TRUE)) :
                      LET served == <<h>> \o get_macro_blocks_forward(store, h, 2, TRUE)
                      IN  ElectionBefore(served[k + 1]) =
                            IF IsElection(served[k]) THEN served[k] ELSE ElectionBefore(served[k])
                /\ \A k \in 1 .. Len(get_macro_blocks_backward(store, h, 2, TRUE)) :
                      LET served == <<h>> \o get_macro_blocks_backward(store, h, 2, TRUE)
                      IN  ElectionBefore(served[k]) = served[k + 1]

(***************************************************************************)
(* added_hashes "Returns all added block hashes by this event": after a    *)
(* rebranch these are the blocks that joined the main chain, so that who   *)
(* waits for one of them (RemoteDataStore::get_or_await_block) is woken.   *)
(* Not so in the code: of a Rebranched event it returns the first vector,  *)
(* the blocks that left the main chain.                                    *)
(***************************************************************************)
AddedWereAdopted ==
    event.type = "Rebranched" =>
        \A k \in 1 .. Len(added_hashes(event)) :
            At(light.head, Number[added_hashes(event)[k]]) = added_hashes(event)[k]

(***************************************************************************)
(* get_chain_info_at finds "the block that is on the main chain" for any   *)
(* stored height: every block it may return is an ancestor of the head.    *)
(* Not so in the code: before the macro head, blocks that a jump or a      *)
(* rebranch left behind keep their flag.                                   *)
(***************************************************************************)
LookupsAreOnMainChain ==
    \A h \in store.height_idx :
        L!OnMain(store, h) /\ Number[h] <= Number[light.head]
            => At(light.head, Number[h]) = h
=============================================================================
