------------------------------ MODULE Validator ------------------------------
(***************************************************************************)
(* One validator (crate validator): the task that follows consensus and    *)
(* the chain and sets up block producers, the producer of micro and skip   *)
(* blocks, the persistence of the Tendermint state, and the pool of        *)
(* equivocation proofs. The chain moves concurrently: other threads push   *)
(* blocks, and the notifications of a push are sent one by one while the   *)
(* pusher still keeps the chain from changing.                             *)
(*                                                                         *)
(* A seed is the sequence of the numbers of the blocks that renewed it: a  *)
(* skip block carries the seed over, and a renewed seed is determined by   *)
(* the previous seed and the proposer. A body tells apart the headers that *)
(* one proposer may sign for the same number.                              *)
(***************************************************************************)
EXTENDS Policy, FiniteSets, Sequences, SequencesExt

CONSTANTS
    Bands,               \* the slot bands, in the order in which they propose
    SlotBand,            \* epoch -> our slot band, or None when we are not elected
    Proofs,              \* equivocation proofs that may come up
    LastReportable,      \* proof -> the last block that may include it
    Values,              \* what Tendermint may vote for
    MaxSteps,            \* bound: the Tendermint steps of a height
    Configurations,      \* bounds: a set of records
                         \*   start (the length of the chain to begin with), height,
                         \*   events (the validator may lag behind), outages (of
                         \*   consensus), restarts, attempts (pushes of own blocks that
                         \*   may fail), rebranches, proofs
    None

VARIABLES
    config, budget,      \* bounds, and what is left of them
    chain,               \* the blocks since genesis
    notifications,       \* what the pusher, holding its lock, has yet to send
    events,              \* blockchain events for the validator
    ready,               \* consensus is established with the validity window synced
    consensus_events,    \* consensus events for the validator
    pc,                  \* where Validator::poll is: "consensus", "blockchain",
                         \* "produce", or "panicked"
    slot_band,
    pool,                \* EquivocationProofPool
    micro_producer,
    macro_producer,
    macro_state,         \* the Tendermint state on disk
    published,           \* own micro blocks sent to the network
    votes,               \* Tendermint messages sent to the network
    lost_updates,        \* heights for which an update was not persisted
    missed               \* proofs adopted with history, or reported again once included

vars == <<config, budget, chain, notifications, events, ready, consensus_events, pc, slot_band,
          pool, micro_producer, macro_producer, macro_state, published, votes, lost_updates, missed>>

chainVars == <<config, chain, notifications>>
consensusVars == <<ready, consensus_events>>
producers == <<micro_producer, macro_producer>>
sent == <<published, votes, lost_updates, missed>>

-----------------------------------------------------------------------------
(* The chain. *)

block_number == genesis_block_number + Len(chain)
next_block_number == block_number + 1

Seed(blocks) == IF blocks = <<>> THEN <<>> ELSE Last(blocks).seed

(* The slot band that proposes: drawn from the block number and the seed of *)
(* the block before, so the same for every node that has that block.        *)
ProposerBand(n, seed) == Bands[1 + ((n + Len(seed)) % Len(Bands))]

Block(blocks, kind, body, proofs) ==
    LET n == genesis_block_number + Len(blocks) + 1
    IN  [kind |-> kind, body |-> body, proofs |-> proofs,
         seed |-> IF kind = "skip" THEN Seed(blocks) ELSE Append(Seed(blocks), n)]

Included(p) == \E i \in DOMAIN chain : p \in chain[i].proofs

(* The event of a proof is stored under a hash that includes the network   *)
(* and a namespace, and looked up by the hash of the event alone.          *)
tx_hash(p) == <<"namespace", "network", p>>
event_hash(p) == <<p>>

has_equivocation_proof(p) ==
    \E i \in DOMAIN chain : \E q \in chain[i].proofs : tx_hash(q) = event_hash(p)

is_valid_at(p, n) == n <= LastReportable[p]

Event(kind, reverted, adopted, head) ==
    [kind |-> kind, reverted |-> reverted, adopted |-> adopted, head |-> head]

(* The notifications of a push that extends the chain to `blocks`. *)
Notifications(blocks) ==
    LET n == genesis_block_number + Len(blocks)
        event(kind) == Event(kind, <<>>, <<Last(blocks)>>, blocks)
    IN  IF is_election_block_at(n) THEN <<event("Extended"), event("EpochFinalized")>>
        ELSE IF is_macro_block_at(n) THEN <<event("Extended"), event("Finalized")>>
        ELSE <<event("Extended")>>

RoomFor(blocks) ==
    Len(blocks) <= config.height /\ Len(events) + Len(Notifications(blocks)) <= config.events

(* Somebody else's block. Our own slots are ours to propose in. *)
Extend ==
    /\ notifications = <<>>
    /\ LET ours == ~is_macro_block_at(next_block_number)
                   /\ ProposerBand(next_block_number, Seed(chain))
                      = SlotBand[epoch_at(next_block_number)]
           kinds == IF is_macro_block_at(next_block_number) THEN {"macro"}
                    ELSE IF ours THEN {"skip"} ELSE {"micro", "skip"}
       IN  \E kind \in kinds : \E proofs \in SUBSET config.proofs :
              /\ kind # "micro" => proofs = {}
              /\ \A p \in proofs : ~has_equivocation_proof(p) /\ is_valid_at(p, next_block_number)
              /\ chain' = Append(chain, Block(chain, kind, 0, proofs))
              /\ RoomFor(chain')
              /\ notifications' = Notifications(chain')
              /\ missed' = missed \cup {p \in proofs : Included(p)}
    /\ UNCHANGED <<config, budget, events, consensusVars, pc, slot_band, pool, producers,
                   macro_state, published, votes, lost_updates>>

(* An inferior chain becomes the better one: by an earlier skip block, so  *)
(* that it may be shorter, possibly behind another block of the same       *)
(* proposer. Blocks up to the last macro block are final.                  *)
Rebranch ==
    /\ notifications = <<>> /\ budget.rebranches > 0
    /\ Len(events) < config.events
    /\ \E n \in 0..Len(chain) - 1 :
       LET kept == SubSeq(chain, 1, n)
           reverted == SubSeq(chain, n + 1, Len(chain))
           skip(blocks) == Append(blocks, Block(blocks, "skip", 0, {}))
           other == Append(kept, Block(kept, "micro", 1, {}))
       IN  /\ \A i \in DOMAIN reverted : reverted[i].kind # "macro"
           /\ reverted[1].kind = "micro"
           /\ \/ chain' = skip(kept)
              \/ /\ reverted[1].body = 0
                 /\ (Len(reverted) > 1 => reverted[2].kind = "micro")
                 /\ ~is_macro_block_at(genesis_block_number + n + 2)
                 /\ Len(kept) + 2 <= config.height
                 /\ chain' = skip(other)
           /\ notifications' = <<Event("Rebranched", reverted,
                                       SubSeq(chain', n + 1, Len(chain')), chain')>>
    /\ budget' = [budget EXCEPT !.rebranches = @ - 1]
    /\ UNCHANGED <<config, events, consensusVars, pc, slot_band, pool, producers,
                   macro_state, sent>>

(* The history of a batch is adopted while we are out of consensus. *)
AdoptHistory ==
    /\ notifications = <<>> /\ ~ready
    /\ LET base == SubSeq(chain, 1, last_macro_block(block_number) - genesis_block_number)
       IN  \E proofs \in SUBSET config.proofs :
           LET first == Append(base, Block(base, "micro", 0, proofs))
               Fill[i \in Nat] ==
                   IF i = 1 THEN first
                   ELSE Append(Fill[i - 1],
                               Block(Fill[i - 1], IF i = blocks_per_batch THEN "macro" ELSE "skip",
                                     0, {}))
           IN  /\ \A p \in proofs : is_valid_at(p, genesis_block_number + Len(base) + 1)
               /\ chain' = Fill[blocks_per_batch]
               /\ Len(chain') <= config.height /\ Len(events) + 2 <= config.events
               /\ LET kind == IF is_election_block_at(genesis_block_number + Len(chain'))
                              THEN "EpochFinalized" ELSE "Finalized"
                  IN  notifications' = <<Event("HistoryAdopted", <<>>, <<>>, chain'),
                                         Event(kind, <<>>, <<Last(chain')>>, chain')>>
               /\ missed' = missed \cup proofs
    /\ UNCHANGED <<config, budget, events, consensusVars, pc, slot_band, pool, producers,
                   macro_state, published, votes, lost_updates>>

Notify ==
    /\ notifications # <<>>
    /\ events' = Append(events, Head(notifications))
    /\ notifications' = Tail(notifications)
    /\ UNCHANGED <<config, budget, chain, consensusVars, pc, slot_band, pool, producers,
                   macro_state, sent>>

LoseConsensus ==
    /\ ready /\ budget.outages > 0
    /\ ready' = FALSE
    /\ consensus_events' = Append(consensus_events, "Lost")
    /\ budget' = [budget EXCEPT !.outages = @ - 1]
    /\ UNCHANGED <<chainVars, events, pc, slot_band, pool, producers, macro_state, sent>>

EstablishConsensus ==
    /\ ~ready
    /\ ready' = TRUE
    /\ consensus_events' = Append(consensus_events, "Established")
    /\ UNCHANGED <<budget, chainVars, events, pc, slot_band, pool, producers, macro_state, sent>>

-----------------------------------------------------------------------------
(* EquivocationProofPool *)

apply_block(proofs, block, n) ==
    IF block.kind = "macro" THEN {p \in proofs : is_valid_at(p, n + 1)}
    ELSE proofs \ block.proofs

revert_block(proofs, block) == proofs \cup block.proofs

get_equivocation_proofs_for_block(proofs, n) == {p \in proofs : is_valid_at(p, n)}

(* on_equivocation_proof, from a fork event or from Tendermint. *)
OnEquivocationProof ==
    /\ pc = "produce" /\ ready
    /\ \E p \in config.proofs \ pool :
           /\ ~has_equivocation_proof(p)
           /\ pool' = pool \cup {p}
           /\ missed' = missed \cup {q \in {p} : Included(q)}
    /\ UNCHANGED <<budget, chainVars, events, consensusVars, pc, slot_band, producers,
                   macro_state, published, votes, lost_updates>>

-----------------------------------------------------------------------------
(* Setting up. *)

SlotBandNow == IF ready THEN SlotBand[epoch_at(next_block_number)] ELSE None

(* ProduceMacroBlock::new takes the persisted state for the same height. *)
NewMacroProducer ==
    [number |-> next_block_number, acted |-> 0,
     votes |-> IF macro_state # None /\ macro_state.number = next_block_number
               THEN macro_state.votes ELSE <<>>]

NewMicroProducer(band, held) ==
    [number |-> next_block_number, prev_seed |-> Seed(chain), band |-> band, stage |-> "turn",
     proofs |-> get_equivocation_proofs_for_block(held, next_block_number)]

(* `head` is the block of the event at hand, None when there is none, and  *)
(* `held` the pool as it is by then.                                       *)
init_block_producer(band, head, held) ==
    LET wanted == ready /\ band # None /\ (head = None \/ head = chain)
    IN  /\ micro_producer' = IF wanted /\ ~is_macro_block_at(next_block_number)
                             THEN NewMicroProducer(band, held) ELSE None
        /\ macro_producer' = IF wanted /\ is_macro_block_at(next_block_number)
                             THEN NewMacroProducer ELSE None

(* Validator::poll: consensus events first. *)
OnConsensusEvent ==
    /\ pc = "consensus" /\ consensus_events # <<>>
    /\ consensus_events' = Tail(consensus_events)
    /\ pool' = pool
    /\ \/ /\ Head(consensus_events) = "Established"
          /\ slot_band' = SlotBandNow
          /\ init_block_producer(SlotBandNow, None, pool)
       \/ /\ Head(consensus_events) = "Lost"
          /\ slot_band' = None /\ micro_producer' = None /\ macro_producer' = None
    /\ UNCHANGED <<budget, chainVars, events, ready, pc, macro_state, sent>>

ConsensusEventsDone ==
    /\ pc = "consensus" /\ consensus_events = <<>>
    /\ pc' = "blockchain"
    /\ UNCHANGED <<budget, chainVars, events, consensusVars, slot_band, pool, producers,
                   macro_state, sent>>

AppliedPool(event) ==
    LET first == genesis_block_number + Len(event.head) - Len(event.adopted)
        reverted == FoldLeft(LAMBDA proofs, b : revert_block(proofs, b), pool, event.reverted)
    IN  FoldLeft(LAMBDA proofs, i : apply_block(proofs, event.adopted[i], first + i),
                 reverted, [i \in DOMAIN event.adopted |-> i])

(* Then the blockchain events. *)
OnBlockchainEvent ==
    /\ pc = "blockchain" /\ events # <<>>
    /\ LET event == Head(events)
       IN  /\ events' = Tail(events)
           /\ \/ /\ event.kind = "HistoryAdopted"
                 /\ UNCHANGED <<slot_band, pool, producers>>
              \/ /\ event.kind = "EpochFinalized"
                 /\ slot_band' = SlotBandNow
                 /\ pool' = AppliedPool(event)
                 /\ init_block_producer(SlotBandNow, event.head, pool')
              \/ /\ event.kind \in {"Extended", "Finalized", "Rebranched"}
                 /\ slot_band' = slot_band
                 /\ pool' = AppliedPool(event)
                 /\ init_block_producer(slot_band, event.head, pool')
    /\ UNCHANGED <<budget, chainVars, consensusVars, pc, macro_state, sent>>

BlockchainEventsDone ==
    /\ pc = "blockchain" /\ events = <<>>
    /\ pc' = "produce"
    /\ UNCHANGED <<budget, chainVars, events, consensusVars, slot_band, pool, producers,
                   macro_state, sent>>

PollDone ==
    /\ pc = "produce"
    /\ pc' = "consensus"
    /\ UNCHANGED <<budget, chainVars, events, consensusVars, slot_band, pool, producers,
                   macro_state, sent>>

-----------------------------------------------------------------------------
(* ProduceMicroBlock::next. It takes the lock that a pusher holds until it *)
(* has sent its notifications.                                             *)

Producing == pc = "produce" /\ ready /\ slot_band # None /\ notifications = <<>>

in_current_state ==
    micro_producer.prev_seed = Seed(chain) /\ micro_producer.number = next_block_number

is_our_turn == ProposerBand(micro_producer.number, micro_producer.prev_seed) = micro_producer.band

MicroDone == micro_producer' = None /\ UNCHANGED macro_producer

Own(body) ==
    [number |-> next_block_number, prev_seed |-> Seed(chain), body |-> body]

OwnBody == config.attempts - budget.attempts + 2

Acceptable(proofs) ==
    \A p \in proofs : ~has_equivocation_proof(p) /\ is_valid_at(p, next_block_number)

LeaveTurn ==
    /\ Producing /\ micro_producer # None /\ micro_producer.stage = "turn"
    /\ \/ ~in_current_state /\ MicroDone
       \/ /\ in_current_state /\ ~is_our_turn
          /\ micro_producer' = [micro_producer EXCEPT !.stage = "timeout"]
          /\ UNCHANGED macro_producer
    /\ UNCHANGED <<budget, chainVars, events, consensusVars, pc, slot_band, pool, macro_state,
                   sent>>

(* Our turn: build, push, and only then publish. A push that fails is      *)
(* tried again with another header.                                        *)
ProduceMicroBlock ==
    /\ Producing /\ micro_producer # None /\ micro_producer.stage = "turn"
    /\ in_current_state /\ is_our_turn
    /\ RoomFor(Append(chain, Block(chain, "micro", OwnBody, {})))
    /\ \/ /\ SlotBand[epoch_at(next_block_number)] # micro_producer.band
          /\ pc' = "panicked"      \* assert_eq!(signing_key, epoch_validator.signing_key)
          /\ UNCHANGED <<chain, events, budget, producers, published, missed>>
       \/ /\ SlotBand[epoch_at(next_block_number)] = micro_producer.band
          /\ \/ /\ Acceptable(micro_producer.proofs)
                /\ chain' = Append(chain, Block(chain, "micro", OwnBody, micro_producer.proofs))
                /\ events' = events \o Notifications(chain')
                /\ published' = published \cup {Own(OwnBody)}
                /\ missed' = missed \cup {p \in micro_producer.proofs : Included(p)}
                /\ MicroDone /\ UNCHANGED budget
             \/ /\ budget.attempts > 0
                /\ budget' = [budget EXCEPT !.attempts = @ - 1]
                /\ UNCHANGED <<chain, events, producers, published, missed>>
          /\ UNCHANGED pc
    /\ UNCHANGED <<config, notifications, consensusVars, slot_band, pool, macro_state, votes,
                   lost_updates>>

(* The timeout for somebody else's block passes. *)
ProducerTimeout ==
    /\ pc = "produce" /\ ready /\ slot_band # None
    /\ micro_producer # None /\ micro_producer.stage = "timeout"
    /\ IF in_current_state
       THEN micro_producer' = [micro_producer EXCEPT !.stage = "aggregating"]
            /\ UNCHANGED macro_producer
       ELSE MicroDone
    /\ UNCHANGED <<budget, chainVars, events, consensusVars, pc, slot_band, pool, macro_state,
                   sent>>

(* Mutant: the state of the chain is not checked again. *)
SkipBlockAggregated_unchecked ==
    /\ Producing /\ micro_producer # None /\ micro_producer.stage = "aggregating"
    /\ MicroDone
    /\ chain' = Append(chain, Block(chain, "skip", 0, {}))
    /\ RoomFor(chain')
    /\ events' = events \o Notifications(chain')
    /\ UNCHANGED <<config, notifications, budget, consensusVars, pc, slot_band, pool, macro_state,
                   sent>>

(* The skip block aggregation completes. *)
SkipBlockAggregated ==
    /\ Producing /\ micro_producer # None /\ micro_producer.stage = "aggregating"
    /\ MicroDone
    /\ \/ ~in_current_state /\ UNCHANGED <<chain, events>>
       \/ /\ in_current_state
          /\ chain' = Append(chain, Block(chain, "skip", 0, {}))
          /\ RoomFor(chain')
          /\ events' = events \o Notifications(chain')
    /\ UNCHANGED <<config, notifications, budget, consensusVars, pc, slot_band, pool, macro_state,
                   sent>>

-----------------------------------------------------------------------------
(* poll_macro. The Tendermint instance yields its state after every change *)
(* and acts on it when polled again.                                       *)

MacroPolled == pc = "produce" /\ ready /\ slot_band # None /\ macro_producer # None

(* Mutant: the state is kept in memory only. *)
TendermintUpdate_volatile ==
    /\ MacroPolled /\ macro_producer.acted = Len(macro_producer.votes)
    /\ macro_producer.acted < MaxSteps
    /\ \E v \in Values :
           macro_producer' = [macro_producer EXCEPT !.votes = Append(@, v)]
    /\ UNCHANGED <<budget, chainVars, events, consensusVars, pc, slot_band, pool, micro_producer,
                   macro_state, sent>>

TendermintUpdate ==
    /\ MacroPolled /\ macro_producer.acted = Len(macro_producer.votes)
    /\ macro_producer.acted < MaxSteps
    /\ \E v \in Values :
           macro_producer' = [macro_producer EXCEPT !.votes = Append(@, v)]
    /\ LET obsolete == next_block_number # macro_producer.number
       IN  /\ macro_state' =
                  IF obsolete THEN macro_state
                  ELSE [number |-> macro_producer.number, votes |-> macro_producer'.votes]
           /\ lost_updates' =
                  IF obsolete THEN lost_updates \cup {macro_producer.number} ELSE lost_updates
    /\ UNCHANGED <<budget, chainVars, events, consensusVars, pc, slot_band, pool, micro_producer,
                   published, votes, missed>>

TendermintAct ==
    /\ MacroPolled /\ macro_producer.acted < Len(macro_producer.votes)
    /\ LET step == macro_producer.acted + 1
       IN  /\ votes' = votes \cup {[number |-> macro_producer.number, step |-> step,
                                    value |-> macro_producer.votes[step]]}
           /\ macro_producer' = [macro_producer EXCEPT !.acted = step]
    /\ UNCHANGED <<budget, chainVars, events, consensusVars, pc, slot_band, pool, micro_producer,
                   macro_state, published, lost_updates, missed>>

(* A decision is published, then pushed, which fails when the chain moved. *)
TendermintDecision ==
    /\ MacroPolled /\ macro_producer.acted = MaxSteps /\ notifications = <<>>
    /\ macro_producer' = None
    /\ \/ /\ next_block_number = macro_producer.number
          /\ chain' = Append(chain, Block(chain, "macro", 0, {}))
          /\ RoomFor(chain')
          /\ events' = events \o Notifications(chain')
       \/ /\ next_block_number # macro_producer.number
          /\ UNCHANGED <<chain, events>>
    /\ UNCHANGED <<config, notifications, budget, consensusVars, pc, slot_band, pool,
                   micro_producer, macro_state, sent>>

(* The process ends and starts again from its databases. *)
Restart ==
    /\ budget.restarts > 0 /\ notifications = <<>>
    /\ budget' = [budget EXCEPT !.restarts = @ - 1]
    /\ events' = <<>> /\ ready' = FALSE /\ consensus_events' = <<>>
    /\ pc' = "consensus" /\ slot_band' = None /\ pool' = {}
    /\ micro_producer' = None /\ macro_producer' = None
    /\ UNCHANGED <<chainVars, macro_state, sent>>

-----------------------------------------------------------------------------
(* The chain begins with blocks of others. *)
StartOf(n) ==
    LET Fill[i \in Nat] ==
            IF i = 0 THEN <<>>
            ELSE Append(Fill[i - 1],
                        Block(Fill[i - 1], IF is_macro_block_at(genesis_block_number + i)
                                           THEN "macro" ELSE "micro", 0, {}))
    IN  Fill[n]

Init ==
    /\ config \in Configurations
    /\ budget = [outages |-> config.outages, restarts |-> config.restarts,
                 attempts |-> config.attempts, rebranches |-> config.rebranches]
    /\ chain = StartOf(config.start) /\ notifications = <<>> /\ events = <<>>
    /\ ready = FALSE /\ consensus_events = <<>>
    /\ pc = "consensus" /\ slot_band = None /\ pool = {}
    /\ micro_producer = None /\ macro_producer = None /\ macro_state = None
    /\ published = {} /\ votes = {} /\ lost_updates = {} /\ missed = {}

Next ==
    \/ Extend \/ Rebranch \/ AdoptHistory \/ Notify
    \/ LoseConsensus \/ EstablishConsensus
    \/ OnConsensusEvent \/ ConsensusEventsDone \/ OnBlockchainEvent \/ BlockchainEventsDone
    \/ OnEquivocationProof \/ PollDone
    \/ LeaveTurn \/ ProduceMicroBlock \/ ProducerTimeout \/ SkipBlockAggregated
    \/ TendermintUpdate \/ TendermintAct \/ TendermintDecision
    \/ Restart

Spec == Init /\ [][Next]_vars

-----------------------------------------------------------------------------
(* The pieces of the validator's state are what they are meant to be.      *)
TypeOK ==
    /\ pc \in {"consensus", "blockchain", "produce", "panicked"}
    /\ slot_band \in {SlotBand[e] : e \in DOMAIN SlotBand} \cup {None}
    /\ pool \subseteq Proofs
    /\ micro_producer = None \/ macro_producer = None
    /\ micro_producer # None =>
           micro_producer.stage \in {"turn", "timeout", "aggregating"}

(* A validator never gives others a fork proof against itself: of the      *)
(* micro blocks it published no two have the same number and entropy,      *)
(* whatever is retried, reverted or restarted (micro.rs: "a published but  *)
(* rejected block would turn that retry into a fork proof against us").    *)
NeverForksItself ==
    \A a, b \in published : a.number = b.number /\ a.prev_seed = b.prev_seed => a = b

(* A skip block is adopted from a turn of the producer for it. *)
SkipStep ==
    micro_producer # None /\ chain' # chain /\ pc = "produce" /\ micro_producer' = None
    /\ notifications' = <<>> /\ notifications = <<>> =>
        micro_producer.number = next_block_number /\ micro_producer.prev_seed = Seed(chain)

(* Blocks are extended by the producer for the state they were made for: a *)
(* skip block of ours stands on the very seed and number it was voted for, *)
(* also when the chain moved during the aggregation.                       *)
SkipsWhatWasVoted == [][SkipStep]_vars

(* An elected validator in consensus that has handled all events has a     *)
(* producer, and it is one for the next block of the chain and the current *)
(* epoch: bypassing an obsolete block, an abandoned turn or an aggregation *)
(* that came too late never leaves it waiting for a block it should make.  *)
ProducerFollowsChain ==
    pc = "produce" /\ events = <<>> /\ notifications = <<>> /\ consensus_events = <<>>
    /\ ready /\ SlotBandNow # None =>
        /\ slot_band = SlotBandNow
        /\ micro_producer # None \/ macro_producer # None
        /\ micro_producer # None => in_current_state /\ micro_producer.band = slot_band
        /\ macro_producer # None => macro_producer.number = next_block_number

(* The Tendermint messages a validator sends for one height and step never *)
(* contradict each other, across restarts and changes of the chain, as     *)
(* long as no update of that height was discarded as obsolete.             *)
NeverVotesTwice ==
    \A a, b \in votes :
        a.number = b.number /\ a.step = b.step /\ a.number \notin lost_updates => a = b

(* "Once a proposal is produced, it will only be acted on once it has      *)
(* already been persisted" (tendermint/src/states/propose.rs), so that no  *)
(* fork makes a validator contradict itself.  Not so in the code: the      *)
(* validator discards an update whose height is not that of the next block *)
(* and polls on, so Tendermint acts on a state that a restart forgets.     *)
ActsOnPersistedOnly ==
    \A a, b \in votes : a.number = b.number /\ a.step = b.step => a = b

(* Once all events are handled, the pool holds only proofs that the chain  *)
(* does not have, and so the own blocks too; one that another block brings *)
(* leaves the pool and one that is reverted returns, but for those that    *)
(* came with adopted history or were reported again after their inclusion. *)
PoolHoldsUnseen ==
    pc = "produce" /\ events = <<>> /\ notifications = <<>> =>
        \A p \in pool \ missed : ~Included(p)

(* "Check whether an equivocation proof at a given equivocation locator has *)
(* already been included" (history_store.rs): the lookup tells what the      *)
(* chain has.  Not so in the code: the lookup takes another hash of the    *)
(* event than the one it is stored under, and finds nothing.               *)
IncludedProofsAreFound == \A p \in Proofs : has_equivocation_proof(p) = Included(p)

(* "The on_blockchain_extended is necessary for the order of events to not *)
(* matter" (validator.rs): the check of the signing key never fails.  Not  *)
(* so in the code: an event of a block can be handled when the chain is    *)
(* already in the next epoch, with the slot band of the one before.        *)
SignsOwnSlotsOnly == pc # "panicked"
=============================================================================
