------------------------------- MODULE MCNode -------------------------------
(***************************************************************************)
(* Instances of the parts that bring transactions into blocks: the         *)
(* transaction builder, the mempool, the validator and the staking         *)
(* contract that the validators are elected from.                          *)
(***************************************************************************)
EXTENDS Integers, Sequences, FiniteSets, TLC

CONSTANTS
    None, Parts    \* the parts that a run is about

VARIABLES part,
    config, chain, complete, events, ready, outages, mempool,
    protocol_version, mempool_active, executors, spawned, tasks,
    producer_head, selection, budget, notifications, consensus_events, pc,
    slot_band, pool, micro_producer, macro_producer, macro_state, published,
    votes, lost_updates, missed, contract, block_number, stage, version,
    elected, previous_elected, guilty, backing, builder, proof, txs, error

-----------------------------------------------------------------------------
(***************************************************************************)
(* Three transactions of one ordinary sender and of the staking contract.  *)
(***************************************************************************)
Tx(sender, signer, value, fee_per_byte, control, start, versions) ==
    [sender |-> sender, signer |-> signer, value |-> value, fee_per_byte |-> fee_per_byte,
     size |-> 1, control |-> control, validity_start_height |-> start, versions |-> versions]

Mempooltx ==
    ("t1" :> Tx("alice", "alice", 1, 2, FALSE, 0, {1, 2}))
    @@ ("t2" :> Tx("alice", "alice", 2, 1, FALSE, 1, {1, 2}))
    @@ ("t3" :> Tx("staking", "bob", 1, 0, TRUE, 2, {1}))

MempoolGenesisBalance == ("alice" :> 2) @@ ("bob" :> 1) @@ ("staking" :> 0)

MempoolConfig(transactions, upgrade_at, height, lag, losses) ==
    [transactions |-> transactions, upgrade_at |-> upgrade_at, height |-> height,
     events |-> lag, outages |-> losses]

MempoolConfigurations ==
    {MempoolConfig({"t1", "t2", "t3"}, 0, 1, 1, 0), MempoolConfig({"t1", "t2"}, 0, 3, 2, 0),
     MempoolConfig({"t1"}, 0, 3, 1, 1), MempoolConfig({"t1", "t3"}, 3, 3, 1, 0)}

MempoolTransactions == {"t1", "t2", "t3"}

MempoolAccounts == {"alice", "bob", "staking"}

MempoolCredited == {"alice"}

MempoolPriorities == {3}

M == INSTANCE Mempool WITH
    blocks_per_batch <- 3, batches_per_epoch <- 1, genesis_block_number <- 0,
    transaction_validity_window <- 1, JAIL_EPOCHS <- 1, U32_MAX <- 100,
    Transactions <- MempoolTransactions, tx <- Mempooltx,
    Accounts <- MempoolAccounts, Credited <- MempoolCredited,
    Priorities <- MempoolPriorities, GenesisBalance <- MempoolGenesisBalance,
    RegularLimit <- 1, ControlLimit <- 1, tx_per_sender_limit <- 2,
    BlockBytes <- 2, CONCURRENT_VERIF_TASKS <- 1,
    Configurations <- MempoolConfigurations

-----------------------------------------------------------------------------
(***************************************************************************)
(* Batches of three blocks, two of them micro blocks; every epoch is one   *)
(* batch, and our slot band changes with the epoch.                        *)
(***************************************************************************)
ValidatorBands == <<0, 1>>

ValidatorSlotBand == (1 :> 0) @@ (2 :> 1) @@ (3 :> 0)

ValidatorLastReportable == ("p1" :> 6)

ValidatorConfig(start, height, lag, losses, restarts, attempts, rebranches, proofs) ==
    [start |-> start, height |-> height, events |-> lag, outages |-> losses,
     restarts |-> restarts, attempts |-> attempts, rebranches |-> rebranches, proofs |-> proofs]

ValidatorConfigurations ==
    {ValidatorConfig(0, 3, 2, 0, 1, 1, 1, {}), ValidatorConfig(2, 4, 1, 1, 0, 0, 1, {}),
     ValidatorConfig(0, 3, 2, 0, 0, 0, 1, {"p1"}), ValidatorConfig(0, 3, 1, 1, 0, 0, 1, {"p1"})}

ValidatorProofs == {"p1"}

ValidatorValues == {0, 1}

V == INSTANCE Validator WITH
    blocks_per_batch <- 3, batches_per_epoch <- 1, genesis_block_number <- 0,
    transaction_validity_window <- 1, JAIL_EPOCHS <- 1, U32_MAX <- 100,
    Bands <- ValidatorBands, SlotBand <- ValidatorSlotBand,
    Proofs <- ValidatorProofs, LastReportable <- ValidatorLastReportable,
    Values <- ValidatorValues, MaxSteps <- 2,
    Configurations <- ValidatorConfigurations

-----------------------------------------------------------------------------
(***************************************************************************)
(* Four genesis configurations of the staking contract.                   *)
(***************************************************************************)
NoEntries == [x \in {} |-> None]

Active == [inactive_from |-> None, jailed_from |-> None, retired |-> FALSE]
Retired == [inactive_from |-> 0, jailed_from |-> None, retired |-> TRUE]

Stakes(delegation) ==
    [value |-> 2, delegation |-> delegation, inactive_balance |-> 0, inactive_from |-> None]

StakerOperations ==
    {"CreateStaker", "AddStake", "UpdateStaker", "SetActiveStake", "RetireStake",
     "RemoveStake", "FailedRemoveStake"}

Burial == {"CreateValidator", "DeleteValidator", "FailedDeleteValidator"}

(* Two validators share the slots and are punished and retire. *)
Committee ==
    [validators |-> ("v1" :> Active) @@ ("v2" :> Active), stakers |-> NoEntries,
     operations |-> Burial \cup {"DeactivateValidator", "ReactivateValidator",
                                 "RetireValidator", "Jail", "Penalize"},
     addresses |-> {"v1", "v2"}, amounts |-> {1, 2}, max_balance |-> 4, max_block |-> 7]

(* Two validators that signal support for an upgrade or do not. *)
Upgrade ==
    [Committee EXCEPT !.operations = {"UpdateValidator", "SetSignalData", "Penalize",
                                      "DeactivateValidator", "ReactivateValidator"}]

(* A staker of a retired validator that is soon deleted, and all it can do. *)
OneStaker ==
    [validators |-> ("v1" :> Active) @@ ("v2" :> Retired), stakers |-> "s1" :> Stakes("v2"),
     operations |-> StakerOperations \cup Burial \cup {"Jail"},
     addresses |-> {"v1", "v2", "s1"}, amounts |-> {1, 2}, max_balance |-> 6, max_block |-> 13]

(* Two stakers, so that a tombstone outlives the first to leave. *)
TwoStakers ==
    [validators |-> ("v1" :> Active) @@ ("v2" :> Retired), stakers |-> "s1" :> Stakes("v2"),
     operations |-> StakerOperations \cup Burial \cup {"Jail"},
     addresses |-> {"v1", "v2", "s1", "s2"}, amounts |-> {2}, max_balance |-> 8, max_block |-> 9]

StakingContractConfigurations == {Committee, Upgrade, OneStaker, TwoStakers}

StakingContractValidators == {"v1", "v2"}

StakingContractStakers == {"s1", "s2"}

StakingContractSlots == {0,1}

StakingContractKeys == {"k1"}

StakingContractAmounts == {1,2}

StakingContractFees == {1,2}

S == INSTANCE StakingContract WITH
    blocks_per_batch <- 2, batches_per_epoch <- 2, genesis_block_number <- 0,
    transaction_validity_window <- 1, JAIL_EPOCHS <- 1, U32_MAX <- 100,
    Validators <- StakingContractValidators,
    Stakers <- StakingContractStakers, Slots <- StakingContractSlots,
    Keys <- StakingContractKeys, VALIDATOR_DEPOSIT <- 2, MINIMUM_STAKE <- 2,
    UPGRADE_MIN_SUPPORT <- 50, Amounts <- StakingContractAmounts,
    Fees <- StakingContractFees,
    Configurations <- StakingContractConfigurations

-----------------------------------------------------------------------------
(* Five kinds of senders against the recipients of every kind, at values    *)
(* around the deposit and the minimum stake; and calls of each convenience  *)
(* function.                                                                *)
T == INSTANCE TransactionBuilder WITH
    VALIDATOR_DEPOSIT <- 4, MINIMUM_STAKE <- 2, TOTAL_SUPPLY <- 10, MAX_TIME_VALUE <- 8,
    MAX_BASIC_TX_RECIPIENT_DATA_SIZE <- 3, WARM_KEY_SIGNALING <- 2, Network <- "unit",
    MaxVersion <- 3, Keys <- {}, Configurations <- {}, Calls <- {}

Addr(k) == T!KeyAddress(k)
Contract == [addr |-> "contract"]

BuilderSenders ==
    {T!SenderBasic(Addr("k1")), T!SenderBasic([addr |-> "k1", path |-> "p"]), T!SenderVesting(Contract),
     T!SenderHtlc(Contract), T!SenderStaking("RemoveStake"), T!SenderStaking("DeleteValidator")}

Schedules == {T!VestingData(Addr("k2"), s, 1, a, t) : s \in {0, 1}, a \in {1, 4}, t \in {2, 4}}

BuilderRecipients ==
    {T!new_basic_with_data_recipient(Addr("k2"), T!Bytes(n)) : n \in {0, 3, 4}}
      \cup {T!RecipientVesting(s) : s \in Schedules}
      \cup {T!new_single_step(Addr("k2"), 5, 4)}
      \cup {T!htlc_generate({Addr("k1")}, {Addr("k2")}, {<<"secret", n>>}, n, {5}).value : n \in {0, 2}}
      \cup {T!RecipientStaking("CreateValidator",
               [signing_key |-> {"k2"}, voting_key |-> {"v"}, reward_address |-> {Addr("k3")},
                signal_data |-> {}]),
            T!RecipientStaking("UpdateValidator",
               [signing_key |-> {}, voting_key |-> {}, reward_address |-> {}, signal_data |-> {}]),
            T!RecipientStaking("UpdateValidator",
               [signing_key |-> {"k3"}, voting_key |-> {}, reward_address |-> {}, signal_data |-> {}]),
            T!RecipientStaking("DeactivateValidator", [validator_address |-> {Addr("k3")}]),
            T!RecipientStaking("RetireValidator", <<>>),
            T!RecipientStaking("CreateStaker", [delegation |-> {Addr("k3")}]),
            T!RecipientStaking("AddStake", [staker_address |-> {Addr("k3")}]),
            T!RecipientStaking("UpdateStaker",
               [delegation |-> {Addr("k3")}, reactivate_all_stake |-> {TRUE}]),
            T!RecipientStaking("RetireStake", [amount |-> {0}]),
            T!RecipientStaking("RetireStake", [amount |-> {2}]),
            T!RecipientStaking("SetSignalData",
               [validator_address |-> {Addr("k3")}, update |-> {[version |-> 3]}])}

BuilderConfigurations ==
    {[sender |-> s, recipient |-> r, value |-> v, fee |-> 1, start |-> 1, network |-> "unit"] :
        s \in BuilderSenders, r \in BuilderRecipients, v \in {0, 2, 4}}

Base(fn) == [fn |-> fn, key |-> "k1", fee |-> 0, start |-> 1, network |-> "unit"]
With1(fn, r) == r @@ Base(fn)

BuilderCalls ==
    {With1("new_basic", [recipient |-> Addr("k2"), value |-> 1]),
     With1("new_basic_with_data", [recipient |-> Addr("k2"), data |-> T!Bytes(3), value |-> 1]),
     With1("new_redeem_vesting", [contract |-> Contract, recipient |-> Addr("k1"), value |-> 1]),
     With1("new_create_htlc", [sender |-> Addr("k1"), recipient |-> Addr("k2"), hash_root |-> <<"s", 2>>,
                               hash_count |-> 2, timeout |-> 3, value |-> 2]),
     With1("new_redeem_htlc_regular", [contract |-> Contract, recipient |-> Addr("k2"),
                               pre_image |-> <<"s", 1>>, hash_root |-> <<"s", 2>>,
                               hash_count |-> 1, value |-> 1]),
     With1("new_redeem_htlc_timeout", [contract |-> Contract, recipient |-> Addr("k1"), value |-> 1]),
     With1("new_redeem_htlc_early", [contract |-> Contract, recipient |-> Addr("k1"), value |-> 1,
                               sender_key |-> "k1", recipient_key |-> "k2"]),
     With1("new_create_staker", [staker_key |-> "k2", delegation |-> {}, value |-> 2]),
     With1("new_add_stake", [staker_address |-> Addr("k2"), value |-> 1]),
     With1("new_remove_stake", [recipient |-> Addr("k2"), value |-> 1]),
     With1("new_create_validator", [cold_key |-> "k2", signing_key |-> "k3", voting_key |-> "v",
                               reward_address |-> Addr("k3"), signal_data |-> {"d"}]),
     With1("new_update_validator", [cold_key |-> "k2", new_signing_key |-> {},
                               new_voting_key |-> {}, new_reward_address |-> {Addr("k3")}, signal_data |-> {}]),
     With1("new_deactivate_validator", [signing_key |-> "k3", validator_address |-> Addr("k2")]),
     With1("new_reactivate_validator", [signing_key |-> "k3", validator_address |-> Addr("k2")]),
     With1("new_set_signal_data", [signing_key |-> "k3", validator_address |-> Addr("k2"),
                               signal_data |-> {}]),
     With1("new_signal_version", [signing_key |-> "k3", validator_address |-> Addr("k2"), version |-> 3]),
     With1("new_retire_validator", [cold_key |-> "k2"]),
     With1("new_delete_validator", [cold_key |-> "k2", recipient |-> Addr("k2"), value |-> 4])}
      \cup {With1("new_create_vesting", [owner |-> Addr("k2"), start_time |-> 0, time_step |-> 2,
                                         num_steps |-> n, value |-> 4]) : n \in {0, 1, 3, 5}}
      \cup {With1(fn, [staker_key |-> "k2", payer |-> p, delegation |-> {Addr("k3")}, reactivate |-> TRUE,
                       amount |-> 1]) :
               fn \in {"new_update_staker", "new_set_active_stake", "new_retire_stake"},
               p \in {{}, {"k1"}}}

BuilderKeys == {"k1", "k2"}

B == INSTANCE TransactionBuilder WITH
    VALIDATOR_DEPOSIT <- 4, MINIMUM_STAKE <- 2, TOTAL_SUPPLY <- 10,
    MAX_TIME_VALUE <- 8, MAX_BASIC_TX_RECIPIENT_DATA_SIZE <- 3,
    WARM_KEY_SIGNALING <- 2, Configurations <- BuilderConfigurations,
    Calls <- BuilderCalls, Keys <- BuilderKeys, Network <- "unit",
    MaxVersion <- 3

-----------------------------------------------------------------------------
(* In each behaviour one part takes steps; the variables of the others are idle. *)
NodeInit ==
    \/ /\ part = "mempool" /\ part \in Parts
       /\ M!Init
       /\ budget = None /\ notifications = None /\
          consensus_events = None /\ pc = None /\ slot_band = None /\
          pool = None /\ micro_producer = None /\ macro_producer = None /\
          macro_state = None /\ published = None /\ votes = None /\
          lost_updates = None /\ missed = None /\ contract = None /\
          block_number = None /\ stage = None /\ version = None /\
          elected = None /\ previous_elected = None /\ guilty = None /\
          backing = None /\ builder = None /\ proof = None /\ txs = None /\
          error = None
    \/ /\ part = "validator" /\ part \in Parts
       /\ V!Init
       /\ complete = None /\ outages = None /\ mempool = None /\
          protocol_version = None /\ mempool_active = None /\
          executors = None /\ spawned = None /\ tasks = None /\
          producer_head = None /\ selection = None /\ contract = None /\
          block_number = None /\ stage = None /\ version = None /\
          elected = None /\ previous_elected = None /\ guilty = None /\
          backing = None /\ builder = None /\ proof = None /\ txs = None /\
          error = None
    \/ /\ part = "staking" /\ part \in Parts
       /\ S!Init
       /\ chain = None /\ complete = None /\ events = None /\
          ready = None /\ outages = None /\ mempool = None /\
          protocol_version = None /\ mempool_active = None /\
          executors = None /\ spawned = None /\ tasks = None /\
          producer_head = None /\ selection = None /\ budget = None /\
          notifications = None /\ consensus_events = None /\ pc = None /\
          slot_band = None /\ pool = None /\ micro_producer = None /\
          macro_producer = None /\ macro_state = None /\
          published = None /\ votes = None /\ lost_updates = None /\
          missed = None /\ builder = None /\ proof = None /\ txs = None /\
          error = None
    \/ /\ part = "builder" /\ part \in Parts
       /\ B!Init
       /\ chain = None /\ complete = None /\ events = None /\
          ready = None /\ outages = None /\ mempool = None /\
          protocol_version = None /\ mempool_active = None /\
          executors = None /\ spawned = None /\ tasks = None /\
          producer_head = None /\ selection = None /\ budget = None /\
          notifications = None /\ consensus_events = None /\ pc = None /\
          slot_band = None /\ pool = None /\ micro_producer = None /\
          macro_producer = None /\ macro_state = None /\
          published = None /\ votes = None /\ lost_updates = None /\
          missed = None /\ contract = None /\ block_number = None /\
          stage = None /\ elected = None /\ previous_elected = None /\
          guilty = None /\ backing = None

NodeNext ==
    \/ /\ part = "mempool" /\ M!Next
       /\ UNCHANGED <<part, budget, notifications, consensus_events, pc, slot_band, pool,
          micro_producer, macro_producer, macro_state, published, votes,
          lost_updates, missed, contract, block_number, stage, version,
          elected, previous_elected, guilty, backing, builder, proof, txs,
          error>>
    \/ /\ part = "validator" /\ V!Next
       /\ UNCHANGED <<part, complete, outages, mempool, protocol_version, mempool_active,
          executors, spawned, tasks, producer_head, selection, contract,
          block_number, stage, version, elected, previous_elected, guilty,
          backing, builder, proof, txs, error>>
    \/ /\ part = "staking" /\ S!Next
       /\ UNCHANGED <<part, chain, complete, events, ready, outages, mempool,
          protocol_version, mempool_active, executors, spawned, tasks,
          producer_head, selection, budget, notifications, consensus_events,
          pc, slot_band, pool, micro_producer, macro_producer, macro_state,
          published, votes, lost_updates, missed, builder, proof, txs, error>>
    \/ /\ part = "builder" /\ B!Next
       /\ UNCHANGED <<part, chain, complete, events, ready, outages, mempool,
          protocol_version, mempool_active, executors, spawned, tasks,
          producer_head, selection, budget, notifications, consensus_events,
          pc, slot_band, pool, micro_producer, macro_producer, macro_state,
          published, votes, lost_updates, missed, contract, block_number,
          stage, elected, previous_elected, guilty, backing>>

all_vars ==
    <<part, config, chain, complete, events, ready, outages, mempool,
      protocol_version, mempool_active, executors, spawned, tasks,
      producer_head, selection, budget, notifications, consensus_events, pc,
      slot_band, pool, micro_producer, macro_producer, macro_state, published,
      votes, lost_updates, missed, contract, block_number, stage, version,
      elected, previous_elected, guilty, backing, builder, proof, txs, error>>

NodeSpec == NodeInit /\ [][NodeNext]_all_vars

-----------------------------------------------------------------------------
(* The containers, orders and reservations of the mempool describe the     *)
(* same transactions at every step of its executors, stay within the       *)
(* limits, and no assertion fails; when all events are handled it holds    *)
(* only what can be applied to the chain. (Under which protocol version    *)
(* the stored transactions were verified is not part of it, nor whether    *)
(* the executors run: see VouchesForVerified and ExecutorsFollowConsensus  *)
(* in Mempool.)                                                            *)
MempoolIsConsistent ==
    part = "mempool" =>
       M!TypeOK /\ M!NoPanic /\ M!IndicesAgree /\ M!WithinLimits /\
       M!HoldsOnlyApplicable

(* A validator never signs two blocks where one is allowed, nor two votes  *)
(* at a height all of whose Tendermint states were persisted, through      *)
(* crashes and rebranches; its producer follows the head of the chain, and *)
(* its pool of equivocation proofs holds those that are not yet on chain.  *)
(* (A state that comes when the chain is at another height is discarded    *)
(* and acted on: ActsOnPersistedOnly in Validator is about that case.)     *)
NeverEquivocates ==
    part = "validator" =>
       V!TypeOK /\ V!NeverForksItself /\ V!NeverVotesTwice /\
       V!ProducerFollowsChain /\ V!PoolHoldsUnseen

(* The staking contract accounts for all stake in every order of           *)
(* transactions, inherents and reverts: documented invariants hold,        *)
(* reverting restores, jailed and only guilty validators lose rewards,     *)
(* elected validators exist and their deposits stay, without a panic.      *)
StakingIsSound ==
    part = "staking" =>
       S!TypeOK /\ S!NoPanic /\ S!StakeIsAccounted /\
       S!DocumentedInvariants /\ S!RevertUndoesCommit /\
       S!JailedLoseRewards /\ S!OnlyGuiltyLoseRewards /\
       S!AccountableValidatorsExist /\ S!BackingStaysLocked /\
       S!UpgradeKeepsValidators

(* What the transaction builder makes verifies, creates the contract that  *)
(* was asked for (though it may lock the whole value where less was        *)
(* asked), mentions only related addresses and costs nothing when it       *)
(* signals; a cached verdict is the one verification gives.                *)
BuiltAsAsked ==
    part = "builder" =>
       B!TypeOK /\ B!BuilderIsWellFormed /\ B!SignalingHasNoValue /\
       B!CallsVerify /\ B!CreatedAsAsked /\ B!MentionedAreRelated /\
       B!CachedVerdictHolds /\ B!RoundTrips

(* Once cleaned up, the mempool hands the producer no transaction that     *)
(* expired or that the chain has already, and enters none after a          *)
(* verification, also when the head moved meanwhile; a skip block of ours  *)
(* stands on the very seed and number it was voted for, also when the      *)
(* chain moved during the aggregation.                                     *)
OwnBlocksAreAcceptable ==
    [][/\ part = "mempool" => M!AcceptableStep
       /\ part = "validator" => V!SkipStep]_all_vars
=============================================================================
