--------------------------- MODULE StakingContract ---------------------------
(***************************************************************************)
(* The staking contract: the account that holds every validator deposit    *)
(* and all stake (primitives/account/src/account/staking_contract).        *)
(*                                                                         *)
(* Every operation of the code is an operator on a contract record that    *)
(* returns an outcome: whether it succeeded, the contract after it and the *)
(* receipt its revert takes. An operation that fails returns the contract  *)
(* it was given. Where the code panics (an `expect`, an `assert!`, an      *)
(* arithmetic underflow) the contract returned is marked panicked.         *)
(*                                                                         *)
(* The actions apply these operators block by block: transactions first,   *)
(* then the punishment inherents of the block; at a macro block the batch  *)
(* is finalized and at an election block the slots of the next epoch are   *)
(* drawn from the active validators. Which validator wins a slot depends   *)
(* on a random seed and is a nondeterministic choice here. Keys and signal *)
(* data are members of small sets; logs are left out.                      *)
(***************************************************************************)
EXTENDS Policy, FiniteSets, FiniteSetsExt

CONSTANTS
    Validators,          \* addresses that may register as a validator
    Stakers,             \* addresses that may stake
    Slots,               \* the slots of an epoch (Policy::SLOTS of them)
    Keys,                \* signing keys
    None,
    VALIDATOR_DEPOSIT,
    MINIMUM_STAKE,
    UPGRADE_MIN_SUPPORT, \* percent
    Amounts,             \* bound: the values transactions move
    Fees,                \* bound: the fees of outgoing transactions
    Configurations       \* genesis configurations and the bounds they run with:
                         \*   validators: address -> [inactive_from, jailed_from, retired]
                         \*   stakers: address -> [value, delegation, inactive_balance,
                         \*                        inactive_from]
                         \*   operations: the kinds of operations issued
                         \*   addresses: who issues them
                         \*   amounts: the values and fees they name
                         \*   max_balance: the coins that may enter the contract
                         \*   max_block: the last block

VARIABLES
    config,              \* the genesis configuration
    contract,            \* the contract and its data store
    block_number,        \* the block being built
    stage,               \* how far it is built: "empty", "body", "inherents"
    version,             \* protocol version of the block (1 or 2)
    elected,             \* Slots -> validator, the current epoch
    previous_elected,    \* the epoch before
    guilty,              \* ghost: validators that were ever punished
    backing              \* ghost: stake behind the validators of both epochs

vars == <<config, contract, block_number, stage, version, elected, previous_elected,
          guilty, backing>>

Put(f, k, v) == [x \in DOMAIN f \cup {k} |-> IF x = k THEN v ELSE f[x]]
Drop(f, k) == [x \in DOMAIN f \ {k} |-> f[x]]

Ok(c, receipt) == [ok |-> TRUE, contract |-> c, receipt |-> receipt]
Err(c) == [ok |-> FALSE, contract |-> c, receipt |-> None]
Panic(c) == [c EXCEPT !.panicked = TRUE]

(* Coin and counter subtractions that would underflow panic. *)
PanicUnless(c, condition) == IF condition THEN c ELSE Panic(c)

PutValidator(c, a, v) == [c EXCEPT !.validators = Put(@, a, v)]
PutStaker(c, a, s) == [c EXCEPT !.stakers = Put(@, a, s)]
PutTombstone(c, a, t) == [c EXCEPT !.tombstones = Put(@, a, t)]

NoEntries == [x \in {} |-> None]

EmptyContract ==
    [balance |-> 0, active |-> NoEntries, validators |-> NoEntries, stakers |-> NoEntries,
     tombstones |-> NoEntries, current |-> NoEntries, previous |-> {}, panicked |-> FALSE]

-----------------------------------------------------------------------------
(* Validators (validator.rs). *)

is_active(v) == v.inactive_from = None

is_jailed(v, n) == v.jailed_from # None /\ n < block_after_jail(v.jailed_from)

enforce_retire_and_release(v, n) ==
    /\ v.retired
    /\ ~is_jailed(v, n)
    /\ n > last_block_of_collateral_lockup(v.inactive_from)

can_delete_validator(v, value, n) ==
    value = v.deposit /\ enforce_retire_and_release(v, n)

create_validator(c, a, key, signal, deposit, status, n) ==
    LET v == [deposit |-> deposit, total_stake |-> deposit, num_stakers |-> 0,
              key |-> key, signal |-> signal,
              inactive_from |-> status.inactive_from,
              jailed_from |-> status.jailed_from, retired |-> status.retired]
    IN  IF \/ a \in DOMAIN c.validators \cup DOMAIN c.tombstones
           \/ is_active(v) /\ (v.retired \/ is_jailed(v, n))
        THEN Err(c)
        ELSE Ok([PutValidator(c, a, v) EXCEPT
                     !.balance = @ + deposit,
                     !.active = IF is_active(v) THEN Put(@, a, deposit) ELSE @],
                None)

revert_create_validator(c, a, deposit) ==
    PanicUnless([c EXCEPT !.balance = @ - deposit,
                          !.active = Drop(@, a),
                          !.validators = Drop(@, a)],
                c.validators[a].deposit = deposit)

update_validator(c, a, key, signal) ==
    IF a \notin DOMAIN c.validators THEN Err(c)
    ELSE Ok([c EXCEPT !.validators[a].key = key, !.validators[a].signal = signal],
            [key |-> c.validators[a].key, signal |-> c.validators[a].signal])

revert_update_validator(c, a, receipt) ==
    [c EXCEPT !.validators[a].key = receipt.key,
              !.validators[a].signal = receipt.signal]

set_signal_data(c, a, signer, signal) ==
    IF a \notin DOMAIN c.validators \/ signer # c.validators[a].key THEN Err(c)
    ELSE Ok([c EXCEPT !.validators[a].signal = signal],
            [signal |-> c.validators[a].signal])

revert_set_signal_data(c, a, receipt) ==
    [c EXCEPT !.validators[a].signal = receipt.signal]

(* An active validator leaves active_validators at once and is inactive    *)
(* from the next election block on.                                        *)
Inactivate(c, a, n) ==
    PanicUnless([c EXCEPT !.validators[a].inactive_from = election_block_after(n),
                          !.active = Drop(@, a)],
                a \in DOMAIN c.active)

Activate(c, a) ==
    [c EXCEPT !.validators[a].inactive_from = None,
              !.active = Put(@, a, c.validators[a].total_stake)]

deactivate_validator(c, a, signer, n) ==
    IF \/ a \notin DOMAIN c.validators
       \/ ~is_active(c.validators[a])
       \/ signer # c.validators[a].key
    THEN Err(c)
    ELSE Ok(Inactivate(c, a, n), None)

revert_deactivate_validator(c, a) ==
    PanicUnless(Activate(c, a), c.validators[a].inactive_from # None)

jail_validator(c, a, n) ==
    IF a \notin DOMAIN c.validators THEN Err(c)
    ELSE LET v == c.validators[a]
             d == IF is_active(v) THEN Inactivate(c, a, n) ELSE c
         IN  Ok([d EXCEPT !.validators[a].jailed_from = n],
                [newly_deactivated |-> is_active(v), old_jailed_from |-> v.jailed_from])

(* Mutant: reverting a second jail releases the validator from the first. *)
revert_jail_validator_frees(c, a, receipt) ==
    LET d == IF receipt.newly_deactivated THEN Activate(c, a) ELSE c
    IN  [d EXCEPT !.validators[a].jailed_from = None]

revert_jail_validator(c, a, receipt) ==
    LET d == IF receipt.newly_deactivated THEN Activate(c, a) ELSE c
    IN  PanicUnless([d EXCEPT !.validators[a].jailed_from = receipt.old_jailed_from],
                    c.validators[a].jailed_from # None)

reactivate_validator(c, a, signer, n) ==
    IF \/ a \notin DOMAIN c.validators
       \/ is_active(c.validators[a])
       \/ c.validators[a].retired
       \/ is_jailed(c.validators[a], n)
       \/ signer # c.validators[a].key
    THEN Err(c)
    ELSE Ok(Activate(c, a), [was_inactive_from |-> c.validators[a].inactive_from])

revert_reactivate_validator(c, a, receipt) ==
    PanicUnless([c EXCEPT !.validators[a].inactive_from = receipt.was_inactive_from,
                          !.active = Drop(@, a)],
                a \in DOMAIN c.active)

retire_validator(c, a, n) ==
    IF a \notin DOMAIN c.validators \/ c.validators[a].retired THEN Err(c)
    ELSE LET was_active == is_active(c.validators[a])
             d == IF was_active THEN Inactivate(c, a, n) ELSE c
         IN  Ok([d EXCEPT !.validators[a].retired = TRUE], [was_active |-> was_active])

revert_retire_validator(c, a, receipt) ==
    LET d == IF receipt.was_active THEN Activate(c, a) ELSE c
    IN  [d EXCEPT !.validators[a].retired = FALSE]

delete_validator(c, a, n, value) ==
    IF a \notin DOMAIN c.validators \/ ~can_delete_validator(c.validators[a], value, n)
    THEN Err(c)
    ELSE LET v == c.validators[a]
             d == [c EXCEPT !.balance = @ - v.deposit, !.validators = Drop(@, a)]
             t == [remaining_stake |-> v.total_stake - v.deposit,
                   num_remaining_stakers |-> v.num_stakers]
         IN  Ok(IF v.num_stakers > 0 THEN PutTombstone(d, a, t) ELSE d,
                [key |-> v.key, signal |-> v.signal,
                 inactive_from |-> v.inactive_from, jailed_from |-> v.jailed_from])

revert_delete_validator(c, a, value, receipt) ==
    LET buried == a \in DOMAIN c.tombstones
        v == [deposit |-> value,
              total_stake |-> value + (IF buried THEN c.tombstones[a].remaining_stake ELSE 0),
              num_stakers |-> IF buried THEN c.tombstones[a].num_remaining_stakers ELSE 0,
              key |-> receipt.key, signal |-> receipt.signal,
              inactive_from |-> receipt.inactive_from,
              jailed_from |-> receipt.jailed_from, retired |-> TRUE]
    IN  [PutValidator(c, a, v) EXCEPT !.balance = @ + value,
                                      !.tombstones = Drop(@, a)]

-----------------------------------------------------------------------------
(* Stakers (staker.rs). A staker delegates to a validator that may have    *)
(* been deleted since; its tombstone then keeps the counts.                *)

register_staker_on_validator(c, a, can_create_tombstone) ==
    CASE a \in DOMAIN c.validators -> [c EXCEPT !.validators[a].num_stakers = @ + 1]
      [] a \in DOMAIN c.tombstones -> [c EXCEPT !.tombstones[a].num_remaining_stakers = @ + 1]
      [] OTHER ->
           IF can_create_tombstone
           THEN PutTombstone(c, a, [remaining_stake |-> 0, num_remaining_stakers |-> 1])
           ELSE Panic(c)

unregister_staker_from_validator(c, a) ==
    CASE a \in DOMAIN c.validators ->
           PanicUnless([c EXCEPT !.validators[a].num_stakers = @ - 1],
                       c.validators[a].num_stakers > 0)
      [] a \in DOMAIN c.tombstones ->
           IF c.tombstones[a].num_remaining_stakers = 1
           THEN [c EXCEPT !.tombstones = Drop(@, a)]
           ELSE [c EXCEPT !.tombstones[a].num_remaining_stakers = @ - 1]
      [] OTHER -> Panic(c)

(* increase_stake_to_validator and decrease_stake_from_validator. *)
change_stake_of_validator(c, a, delta) ==
    CASE a \in DOMAIN c.validators ->
           LET v == [c.validators[a] EXCEPT !.total_stake = @ + delta]
           IN  PanicUnless([PutValidator(c, a, v) EXCEPT
                                !.active = IF is_active(v) THEN Put(@, a, v.total_stake) ELSE @],
                           v.total_stake >= 0)
      [] a \in DOMAIN c.tombstones ->
           PanicUnless([c EXCEPT !.tombstones[a].remaining_stake = @ + delta],
                       c.tombstones[a].remaining_stake + delta >= 0)
      [] OTHER -> Panic(c)

update_stake_for_validator(c, a, old_balance, new_balance) ==
    IF new_balance = old_balance THEN c
    ELSE change_stake_of_validator(c, a, new_balance - old_balance)

non_retired_balance(s) == s.active_balance + s.inactive_balance

enforce_min_stake(active, inactive, retired) ==
    /\ ~ (active + inactive > 0 /\ active + inactive < MINIMUM_STAKE)
    /\ ~ (active + inactive = 0 /\ retired > 0 /\ retired < MINIMUM_STAKE)

is_inactive_stake_released(c, s, n) ==
    \/ s.delegation = None
    \/ /\ s.inactive_from # None => n >= block_after_collateral_lockup(s.inactive_from)
       /\ s.delegation \in DOMAIN c.validators => ~is_jailed(c.validators[s.delegation], n)

create_staker(c, a, value, delegation, inactive_balance, inactive_from) ==
    IF \/ a \in DOMAIN c.stakers
       \/ (inactive_balance = 0) # (inactive_from = None)
       \/ delegation # None /\ delegation \notin DOMAIN c.validators
    THEN Err(c)
    ELSE LET d == IF delegation = None THEN c
                  ELSE change_stake_of_validator(
                           register_staker_on_validator(c, delegation, FALSE),
                           delegation, value)
             s == [active_balance |-> value, inactive_balance |-> inactive_balance,
                   retired_balance |-> 0, inactive_from |-> inactive_from,
                   delegation |-> delegation]
         IN  Ok([PutStaker(d, a, s) EXCEPT !.balance = @ + value + inactive_balance], None)

revert_create_staker(c, a, value) ==
    LET s == c.stakers[a]
        d == IF s.delegation = None THEN c
             ELSE unregister_staker_from_validator(
                      change_stake_of_validator(c, s.delegation, 0 - s.active_balance),
                      s.delegation)
    IN  PanicUnless([d EXCEPT !.balance = @ - (value + s.inactive_balance),
                              !.stakers = Drop(@, a)],
                    value = s.active_balance)

add_stake(c, a, value) ==
    IF a \notin DOMAIN c.stakers THEN Err(c)
    ELSE LET s == c.stakers[a]
         IN  IF \/ ~enforce_min_stake(s.active_balance + value, s.inactive_balance,
                                      s.retired_balance)
                \/ s.delegation # None /\ s.delegation \notin DOMAIN c.validators
             THEN Err(c)
             ELSE LET d == IF s.delegation = None THEN c
                           ELSE change_stake_of_validator(c, s.delegation, value)
                  IN  Ok([d EXCEPT !.stakers[a].active_balance = @ + value,
                                   !.balance = @ + value], None)

revert_add_stake(c, a, value) ==
    LET s == c.stakers[a]
        d == IF s.delegation = None THEN c
             ELSE change_stake_of_validator(c, s.delegation, 0 - value)
    IN  [d EXCEPT !.stakers[a].active_balance = @ - value, !.balance = @ - value]

update_staker(c, a, new_delegation, reactivate_all_stake, n) ==
    IF \/ a \notin DOMAIN c.stakers
       \/ new_delegation # None /\ new_delegation \notin DOMAIN c.validators
    THEN Err(c)
    ELSE LET s == c.stakers[a]
         IN  IF /\ s.delegation # None
                /\ \/ s.active_balance # 0
                   \/ ~is_inactive_stake_released(c, s, n)
             THEN Err(c)
             ELSE LET t == [s EXCEPT !.delegation = new_delegation]
                      u == IF reactivate_all_stake
                           THEN [t EXCEPT !.active_balance = @ + s.inactive_balance,
                                          !.inactive_balance = 0,
                                          !.inactive_from = None]
                           ELSE t
                      left == IF s.delegation = None THEN c
                              ELSE unregister_staker_from_validator(c, s.delegation)
                      joined == IF new_delegation = None THEN left
                                ELSE register_staker_on_validator(left, new_delegation, FALSE)
                      staked == IF new_delegation = None \/ u.active_balance = 0 THEN joined
                                ELSE change_stake_of_validator(joined, new_delegation,
                                                               u.active_balance)
                  IN  Ok(PutStaker(staked, a, u),
                         [delegation |-> s.delegation, active_balance |-> s.active_balance,
                          inactive_from |-> s.inactive_from])

revert_update_staker(c, a, receipt) ==
    LET s == c.stakers[a]
        unstaked == IF s.delegation = None \/ s.active_balance = 0 THEN c
                    ELSE change_stake_of_validator(c, s.delegation, 0 - s.active_balance)
        left == IF s.delegation = None THEN unstaked
                ELSE unregister_staker_from_validator(unstaked, s.delegation)
        joined == IF receipt.delegation = None THEN left
                  ELSE register_staker_on_validator(left, receipt.delegation, TRUE)
    IN  PutStaker(joined, a,
                  [s EXCEPT !.delegation = receipt.delegation,
                            !.active_balance = receipt.active_balance,
                            !.inactive_balance = non_retired_balance(s) - receipt.active_balance,
                            !.inactive_from = receipt.inactive_from])

set_active_stake(c, a, new_active_balance, n) ==
    IF \/ a \notin DOMAIN c.stakers
       \/ non_retired_balance(c.stakers[a]) < new_active_balance
    THEN Err(c)
    ELSE LET s == c.stakers[a]
             inactive == non_retired_balance(s) - new_active_balance
             t == [s EXCEPT !.active_balance = new_active_balance,
                            !.inactive_balance = inactive,
                            !.inactive_from = IF inactive = 0 THEN None
                                              ELSE election_block_after(n)]
             d == IF s.delegation = None THEN c
                  ELSE update_stake_for_validator(c, s.delegation, s.active_balance,
                                                  new_active_balance)
         IN  Ok(PutStaker(d, a, t), [old_inactive_from |-> s.inactive_from,
                                     old_active_balance |-> s.active_balance])

revert_set_active_stake(c, a, value, receipt) ==
    LET s == c.stakers[a]
        t == [s EXCEPT !.inactive_from = receipt.old_inactive_from,
                       !.active_balance = receipt.old_active_balance,
                       !.inactive_balance = non_retired_balance(s) - receipt.old_active_balance]
        d == IF s.delegation = None THEN c
             ELSE update_stake_for_validator(c, s.delegation, value, t.active_balance)
    IN  PutStaker(d, a, t)

retire_stake(c, a, value, n) ==
    IF a \notin DOMAIN c.stakers THEN Err(c)
    ELSE LET s == c.stakers[a]
         IN  IF \/ s.inactive_balance < value
                \/ ~enforce_min_stake(s.active_balance, s.inactive_balance - value,
                                      s.retired_balance + value)
                \/ ~is_inactive_stake_released(c, s, n)
             THEN Err(c)
             ELSE Ok(PutStaker(c, a,
                         [s EXCEPT !.inactive_balance = @ - value,
                                   !.retired_balance = @ + value,
                                   !.inactive_from = IF s.inactive_balance = value
                                                     THEN None ELSE @]),
                     [old_inactive_from |-> s.inactive_from])

revert_retire_stake(c, a, value, receipt) ==
    [c EXCEPT !.stakers[a].retired_balance = @ - value,
              !.stakers[a].inactive_balance = @ + value,
              !.stakers[a].inactive_from = receipt.old_inactive_from]

can_remove_stake(s, value) == value = s.retired_balance

remove_stake(c, a, value) ==
    IF a \notin DOMAIN c.stakers THEN Err(c)
    ELSE LET s == [c.stakers[a] EXCEPT !.retired_balance = @ - value]
             d == [c EXCEPT !.balance = @ - value]
         IN  IF \/ s.retired_balance < 0
                \/ ~enforce_min_stake(s.active_balance, s.inactive_balance, s.retired_balance)
             THEN Err(c)
             ELSE IF non_retired_balance(s) + s.retired_balance = 0
                  THEN LET e == IF s.delegation = None THEN d
                                ELSE unregister_staker_from_validator(d, s.delegation)
                       IN  Ok([e EXCEPT !.stakers = Drop(@, a)], [delegation |-> s.delegation])
                  ELSE Ok(PutStaker(d, a, s), None)

revert_remove_stake(c, a, value, receipt) ==
    LET d == [c EXCEPT !.balance = @ + value]
    IN  IF receipt = None
        THEN [d EXCEPT !.stakers[a].retired_balance = @ + value]
        ELSE LET e == IF receipt.delegation = None THEN d
                      ELSE register_staker_on_validator(d, receipt.delegation, TRUE)
             IN  PutStaker(e, a, [active_balance |-> 0, inactive_balance |-> 0,
                                  retired_balance |-> value, inactive_from |-> None,
                                  delegation |-> receipt.delegation])

-----------------------------------------------------------------------------
(* Punished slots (punished_slots.rs): `current` maps a validator to the   *)
(* slots that lose the reward of this batch, `previous` is the set for the *)
(* batch before, whose rewards are paid by the next macro block.           *)

PunishedBy(c, a) == IF a \in DOMAIN c.current THEN c.current[a] ELSE {}

(* slots: the validator's in the epoch of the offence; new_slots: its      *)
(* slots in the epoch of the report when that is a later one ({}: none).   *)
register_jail(c, a, offence, slots, new_slots, n) ==
    LET now  == IF epoch_at(offence) = epoch_at(n) THEN slots ELSE new_slots
        then == IF batch_at(offence) >= batch_at(n) THEN {}
                ELSE IF epoch_at(offence) = epoch_at(n - blocks_per_batch) THEN slots
                ELSE new_slots
    IN  PanicUnless([c EXCEPT !.current = IF now = {} THEN @
                                          ELSE Put(@, a, PunishedBy(c, a) \cup now),
                              !.previous = @ \cup then],
                    batch_at(offence) < batch_at(n) => epoch_at(n) - epoch_at(offence) <= 1)

revert_register_jail(c, a, old_previous, old_current) ==
    [c EXCEPT !.previous = old_previous,
              !.current = IF old_current = None THEN Drop(@, a) ELSE Put(@, a, old_current)]

register_penalty(c, a, slot, offence, n) ==
    [c EXCEPT !.previous = IF batch_at(offence) + 1 = batch_at(n) THEN @ \cup {slot} ELSE @,
              !.current = IF epoch_at(offence) = epoch_at(n)
                          THEN Put(@, a, PunishedBy(c, a) \cup {slot}) ELSE @]

revert_register_penalty(c, a, slot, newly_previous, newly_current) ==
    LET left == PunishedBy(c, a) \ {slot}
    IN  PanicUnless([c EXCEPT !.previous = IF newly_previous THEN @ \ {slot} ELSE @,
                              !.current = IF ~newly_current THEN @
                                          ELSE IF left = {} THEN Drop(@, a)
                                          ELSE Put(@, a, left)],
                    newly_current => slot \in PunishedBy(c, a))

current_batch_punished_slots(c) == UNION {c.current[a] : a \in DOMAIN c.current}

finalize_batch(c, n) ==
    [c EXCEPT !.previous = current_batch_punished_slots(c),
              !.current = IF is_election_block_at(n) THEN NoEntries
                          ELSE [a \in DOMAIN c.current \ DOMAIN c.active |-> c.current[a]]]

-----------------------------------------------------------------------------
(* Transactions and inherents (traits.rs). *)

Delegations == Validators \cup {None}

(* What the verification of a transaction lets through: the value of a     *)
(* CreateStaker is at least MINIMUM_STAKE, the one of an AddStake or a     *)
(* RetireStake positive.                                                   *)
IncomingTransactions ==
    [kind : {"CreateValidator", "UpdateValidator"}, address : Validators,
     key : Keys, signal : BOOLEAN]
    \cup [kind : {"DeactivateValidator", "ReactivateValidator"},
          address : Validators, signer : Keys]
    \cup [kind : {"SetSignalData"}, address : Validators, signer : Keys, signal : BOOLEAN]
    \cup [kind : {"RetireValidator"}, address : Validators]
    \cup [kind : {"CreateStaker"}, address : Stakers, delegation : Delegations,
          value : {x \in Amounts : x >= MINIMUM_STAKE}]
    \cup [kind : {"AddStake", "RetireStake"}, address : Stakers, value : Amounts \ {0}]
    \cup [kind : {"SetActiveStake"}, address : Stakers, value : Amounts \cup {0}]
    \cup [kind : {"UpdateStaker"}, address : Stakers, delegation : Delegations,
          reactivate_all_stake : BOOLEAN]

(* `total`: value and fee of an outgoing transaction. *)
OutgoingTransactions ==
    [kind : {"DeleteValidator"}, address : Validators,
     total : Amounts \cup {VALIDATOR_DEPOSIT}]
    \cup [kind : {"RemoveStake"}, address : Stakers, total : Amounts]

(* Outgoing transactions of which only the fee is deducted. *)
FailedTransactions ==
    [kind : {"FailedDeleteValidator"}, address : Validators, fee : Fees]
    \cup [kind : {"FailedRemoveStake"}, address : Stakers, fee : Fees]

Incoming(op) ==
    CASE op.kind = "CreateValidator" -> VALIDATOR_DEPOSIT
      [] op.kind \in {"CreateStaker", "AddStake"} -> op.value
      [] OTHER -> 0

commit_incoming_transaction(c, op, n) ==
    CASE op.kind = "CreateValidator" ->
           create_validator(c, op.address, op.key, op.signal, VALIDATOR_DEPOSIT,
               [inactive_from |-> None, jailed_from |-> None, retired |-> FALSE], n)
      [] op.kind = "UpdateValidator" -> update_validator(c, op.address, op.key, op.signal)
      [] op.kind = "DeactivateValidator" -> deactivate_validator(c, op.address, op.signer, n)
      [] op.kind = "ReactivateValidator" -> reactivate_validator(c, op.address, op.signer, n)
      [] op.kind = "RetireValidator" -> retire_validator(c, op.address, n)
      [] op.kind = "SetSignalData" -> set_signal_data(c, op.address, op.signer, op.signal)
      [] op.kind = "CreateStaker" ->
           create_staker(c, op.address, op.value, op.delegation, 0, None)
      [] op.kind = "AddStake" -> add_stake(c, op.address, op.value)
      [] op.kind = "UpdateStaker" ->
           update_staker(c, op.address, op.delegation, op.reactivate_all_stake, n)
      [] op.kind = "SetActiveStake" -> set_active_stake(c, op.address, op.value, n)
      [] op.kind = "RetireStake" -> retire_stake(c, op.address, op.value, n)

revert_incoming_transaction(c, op, receipt) ==
    CASE op.kind = "CreateValidator" ->
           revert_create_validator(c, op.address, VALIDATOR_DEPOSIT)
      [] op.kind = "UpdateValidator" -> revert_update_validator(c, op.address, receipt)
      [] op.kind = "DeactivateValidator" -> revert_deactivate_validator(c, op.address)
      [] op.kind = "ReactivateValidator" -> revert_reactivate_validator(c, op.address, receipt)
      [] op.kind = "RetireValidator" -> revert_retire_validator(c, op.address, receipt)
      [] op.kind = "SetSignalData" -> revert_set_signal_data(c, op.address, receipt)
      [] op.kind = "CreateStaker" -> revert_create_staker(c, op.address, op.value)
      [] op.kind = "AddStake" -> revert_add_stake(c, op.address, op.value)
      [] op.kind = "UpdateStaker" -> revert_update_staker(c, op.address, receipt)
      [] op.kind = "SetActiveStake" -> revert_set_active_stake(c, op.address, op.value, receipt)
      [] op.kind = "RetireStake" -> revert_retire_stake(c, op.address, op.value, receipt)

commit_outgoing_transaction(c, op, n) ==
    CASE op.kind = "DeleteValidator" -> delete_validator(c, op.address, n, op.total)
      [] op.kind = "RemoveStake" ->
           IF /\ op.address \in DOMAIN c.stakers
              /\ can_remove_stake(c.stakers[op.address], op.total)
           THEN remove_stake(c, op.address, op.total) ELSE Err(c)

revert_outgoing_transaction(c, op, receipt) ==
    CASE op.kind = "DeleteValidator" -> revert_delete_validator(c, op.address, op.total, receipt)
      [] op.kind = "RemoveStake" -> revert_remove_stake(c, op.address, op.total, receipt)

(* A fee that uses up the deposit deletes the validator. *)
commit_failed_transaction(c, op, n) ==
    IF op.kind = "FailedRemoveStake" THEN remove_stake(c, op.address, op.fee)
    ELSE IF op.address \notin DOMAIN c.validators THEN Err(c)
    ELSE LET v == c.validators[op.address]
         IN  IF v.deposit < op.fee \/ ~enforce_retire_and_release(v, n) THEN Err(c)
             ELSE IF v.deposit = op.fee THEN delete_validator(c, op.address, n, op.fee)
             ELSE Ok([c EXCEPT !.validators[op.address].deposit = @ - op.fee,
                               !.validators[op.address].total_stake = @ - op.fee,
                               !.balance = @ - op.fee], None)

revert_failed_transaction(c, op, receipt) ==
    IF op.kind = "FailedRemoveStake" THEN revert_remove_stake(c, op.address, op.fee, receipt)
    ELSE LET d == IF op.address \in DOMAIN c.validators THEN c
                  ELSE revert_delete_validator(c, op.address, 0, receipt)
         IN  [d EXCEPT !.validators[op.address].deposit = @ + op.fee,
                       !.validators[op.address].total_stake = @ + op.fee,
                       !.balance = @ + op.fee]

commit_inherent(c, op, n) ==
    CASE op.kind = "Jail" ->
           LET o == jail_validator(c, op.address, n)
           IN  IF ~o.ok THEN o
               ELSE Ok(register_jail(o.contract, op.address, op.offence, op.slots,
                                     op.new_slots, n),
                       [jail |-> o.receipt, old_previous |-> c.previous,
                        old_current |-> IF op.address \in DOMAIN c.current
                                        THEN c.current[op.address] ELSE None])
      [] op.kind = "Penalize" ->
           IF op.address \notin DOMAIN c.validators THEN Err(c)
           ELSE LET v == c.validators[op.address]
                    d == IF is_active(v)
                         THEN deactivate_validator(c, op.address, v.key, n).contract ELSE c
                    e == register_penalty(d, op.address, op.slot, op.offence, n)
                IN  Ok(e, [newly_deactivated |-> is_active(v),
                           newly_previous |-> e.previous # c.previous,
                           newly_current |-> PunishedBy(e, op.address) # PunishedBy(c, op.address)])

revert_inherent(c, op, receipt) ==
    CASE op.kind = "Jail" ->
           revert_jail_validator(
               revert_register_jail(c, op.address, receipt.old_previous, receipt.old_current),
               op.address, receipt.jail)
      [] op.kind = "Penalize" ->
           LET d == revert_register_penalty(c, op.address, op.slot, receipt.newly_previous,
                                            receipt.newly_current)
           IN  IF receipt.newly_deactivated
               THEN revert_deactivate_validator(d, op.address) ELSE d

(* Version upgrade (mod.rs): what share of the slots and of the active     *)
(* stake signals it, and what happens to the validators that do not.       *)
Supporting(c) == {a \in DOMAIN c.validators : c.validators[a].signal}

supports_version_upgrade(c, e) ==
    LET stake(A) == MapThenSumSet(LAMBDA a : c.active[a], A \cap DOMAIN c.active)
    IN  /\ Cardinality({s \in Slots : e[s] \in Supporting(c)}) * 100
              >= Cardinality(Slots) * UPGRADE_MIN_SUPPORT
        /\ stake(Supporting(c)) * 100 >= stake(Validators) * UPGRADE_MIN_SUPPORT

deactivate_unsupporting_validators(c, n) ==
    FoldSet(LAMBDA a, d : deactivate_validator(d, a, d.validators[a].key, n - 1).contract,
            c, DOMAIN c.active \ Supporting(c))

-----------------------------------------------------------------------------
(* Blocks. *)

GenesisContract ==
    LET key == CHOOSE k \in Keys : TRUE
        validators == FoldSet(LAMBDA a, c : create_validator(c, a, key, FALSE, VALIDATOR_DEPOSIT,
                                  config.validators[a], genesis_block_number).contract,
                              EmptyContract, DOMAIN config.validators)
    IN  FoldSet(LAMBDA a, c : create_staker(c, a, config.stakers[a].value,
                    config.stakers[a].delegation, config.stakers[a].inactive_balance,
                    config.stakers[a].inactive_from).contract,
                validators, DOMAIN config.stakers)

(* select_validators: each slot goes to some active validator. *)
select_validators(c) == [Slots -> DOMAIN c.active]

SlotsOf(e, a) == {s \in DOMAIN e : e[s] = a}

(* Ghost: the active stake behind every validator elected for an epoch. *)
Backers(c, e) ==
    LET behind == {a \in DOMAIN c.stakers : /\ c.stakers[a].active_balance > 0
                                            /\ SlotsOf(e, c.stakers[a].delegation) # {}}
    IN  [a \in behind |-> [validator |-> c.stakers[a].delegation,
                           amount |-> c.stakers[a].active_balance]]

Init ==
    /\ config \in Configurations
    /\ contract = GenesisContract
    /\ block_number = genesis_block_number + 1
    /\ stage = "empty"
    /\ version = 1
    /\ elected \in select_validators(contract)
    /\ previous_elected = NoEntries
    /\ guilty = {}
    /\ backing = [current |-> Backers(contract, elected), previous |-> NoEntries]

UnchangedEpoch == UNCHANGED <<config, version, elected, previous_elected, backing>>

Apply(outcome) ==
    /\ stage # "inherents"
    /\ is_micro_block_at(block_number)
    /\ outcome.ok
    /\ contract' = outcome.contract
    /\ stage' = "body"
    /\ UNCHANGED <<block_number, guilty>>
    /\ UnchangedEpoch

(* Bound: the transactions of this configuration. *)
Issued(op) ==
    /\ op.kind \in config.operations
    /\ op.address \in config.addresses
    /\ "value" \in DOMAIN op => op.value \in config.amounts \cup {0}
    /\ "fee" \in DOMAIN op => op.fee \in config.amounts

Receive ==
    \E op \in IncomingTransactions :
        /\ Issued(op)
        /\ contract.balance + Incoming(op) <= config.max_balance
        /\ op.kind = "SetSignalData" => version >= 2
        /\ Apply(commit_incoming_transaction(contract, op, block_number))

Send ==
    \E op \in OutgoingTransactions :
        /\ Issued(op)
        /\ Apply(commit_outgoing_transaction(contract, op, block_number))

FailToSend ==
    \E op \in FailedTransactions :
        /\ Issued(op)
        /\ Apply(commit_failed_transaction(contract, op, block_number))

(* EquivocationProof::is_valid_at *)
is_valid_at(offence, n, v) ==
    /\ n <= IF v >= 2 THEN last_block_of_equivocation_reporting_window(offence)
            ELSE last_block_of_collateral_lockup(offence)
    /\ batch_at(n) >= batch_at(offence)

ElectedIn(epoch) == IF epoch = epoch_at(block_number) THEN elected ELSE previous_elected

(* inherent_from_equivocation_proof: the offender had slots in the epoch   *)
(* of the offence; a block may report an offence at a macro block that is  *)
(* still to come in its batch.                                             *)
JailInherents ==
    LET reportable == {b \in genesis_block_number + 1 .. macro_block_after(block_number) :
                          is_valid_at(b, block_number, version)}
    IN  UNION {{[kind |-> "Jail", address |-> a, offence |-> b,
                 slots |-> SlotsOf(ElectedIn(epoch_at(b)), a),
                 new_slots |-> IF epoch_at(block_number) > epoch_at(b)
                               THEN SlotsOf(elected, a) ELSE {}]
                   : a \in {e \in Validators : SlotsOf(ElectedIn(epoch_at(b)), e) # {}}}
               : b \in reportable}

(* A micro block reports an equivocation. *)
Jail ==
    /\ "Jail" \in config.operations
    /\ is_micro_block_at(block_number)
    /\ \E op \in JailInherents :
           /\ contract' = commit_inherent(contract, op, block_number).contract
           /\ guilty' = guilty \cup {op.address}
    /\ stage' = "inherents"
    /\ UNCHANGED block_number
    /\ UnchangedEpoch

PenalizeInherents ==
    {[kind |-> "Penalize", address |-> elected[s], slot |-> s, offence |-> block_number]
        : s \in Slots}

(* A skip block holds no transactions and penalizes the slot of the        *)
(* proposer that missed its turn.                                          *)
SkipBlock ==
    /\ "Penalize" \in config.operations
    /\ is_micro_block_at(block_number)
    /\ stage = "empty"
    /\ \E op \in PenalizeInherents :
           /\ contract' = commit_inherent(contract, op, block_number).contract
           /\ guilty' = guilty \cup {op.address}
    /\ block_number < config.max_block
    /\ block_number' = block_number + 1
    /\ UNCHANGED stage
    /\ UnchangedEpoch

MicroBlock ==
    /\ is_micro_block_at(block_number)
    /\ block_number < config.max_block
    /\ block_number' = block_number + 1
    /\ stage' = "empty"
    /\ UNCHANGED <<contract, guilty>>
    /\ UnchangedEpoch

CheckpointBlock ==
    /\ is_macro_block_at(block_number)
    /\ ~is_election_block_at(block_number)
    /\ block_number < config.max_block
    /\ contract' = finalize_batch(contract, block_number)
    /\ block_number' = block_number + 1
    /\ UNCHANGED <<stage, guilty>>
    /\ UnchangedEpoch

(* The chain halts (select_validators asserts) when nobody is active. *)
ElectionBlock ==
    /\ is_election_block_at(block_number)
    /\ block_number < config.max_block
    /\ \E upgrade \in BOOLEAN :
        LET finalized == finalize_batch(contract, block_number)
            c == IF upgrade
                 THEN deactivate_unsupporting_validators(finalized, block_number)
                 ELSE finalized
        IN  /\ upgrade => version = 1 /\ supports_version_upgrade(contract, elected)
            /\ contract' = c
            /\ version' = IF upgrade THEN 2 ELSE version
            /\ elected' \in select_validators(c)
            /\ backing' = [current |-> Backers(c, elected'), previous |-> backing.current]
    /\ previous_elected' = elected
    /\ block_number' = block_number + 1
    /\ UNCHANGED <<config, stage, guilty>>

Next == Receive \/ Send \/ FailToSend \/ Jail \/ SkipBlock \/ MicroBlock
        \/ CheckpointBlock \/ ElectionBlock

Spec == Init /\ [][Next]_vars

-----------------------------------------------------------------------------
(* Properties. *)

Heights == 0 .. U32_MAX \cup {None}

(* Every balance and counter is a natural number, every key of a map an    *)
(* address and every height a block number or None.                        *)
TypeOK ==
    /\ contract.balance \in Nat
    /\ DOMAIN contract.active \subseteq Validators
    /\ DOMAIN contract.validators \subseteq Validators
    /\ \A a \in DOMAIN contract.validators :
           contract.validators[a] \in
               [deposit : Nat, total_stake : Nat, num_stakers : Nat, key : Keys,
                signal : BOOLEAN, inactive_from : Heights, jailed_from : Heights,
                retired : BOOLEAN]
    /\ \A a \in DOMAIN contract.tombstones :
           contract.tombstones[a] \in [remaining_stake : Nat, num_remaining_stakers : Nat]
    /\ DOMAIN contract.stakers \subseteq Stakers
    /\ \A a \in DOMAIN contract.stakers :
           contract.stakers[a] \in
               [active_balance : Nat, inactive_balance : Nat, retired_balance : Nat,
                inactive_from : Heights, delegation : Delegations]
    /\ \A a \in DOMAIN contract.current : contract.current[a] \subseteq Slots
    /\ contract.previous \subseteq Slots
    /\ block_number \in genesis_block_number + 1 .. config.max_block
    /\ stage \in {"empty", "body", "inherents"}
    /\ version \in {1, 2}

Delegators(a) == {s \in DOMAIN contract.stakers : contract.stakers[s].delegation = a}

DelegatedStake(a) ==
    MapThenSumSet(LAMBDA s : contract.stakers[s].active_balance, Delegators(a))

(* The caches agree with what they summarise after any sequence of         *)
(* operations: a validator's (or, once it is deleted, its tombstone's)     *)
(* stake and staker count are those of its delegators, a tombstone exists  *)
(* exactly while a deleted validator has delegators, active_validators is  *)
(* the map of the active ones, and the contract's balance is the sum of    *)
(* all deposits and all stake (staker.rs, validator.rs).                   *)
StakeIsAccounted ==
    LET validators == DOMAIN contract.validators
        tombstones == DOMAIN contract.tombstones
    IN  /\ validators \cap tombstones = {}
        /\ \A a \in validators :
               /\ contract.validators[a].total_stake
                      = contract.validators[a].deposit + DelegatedStake(a)
               /\ contract.validators[a].num_stakers = Cardinality(Delegators(a))
        /\ tombstones = {a \in Validators \ validators : Delegators(a) # {}}
        /\ \A a \in tombstones :
               /\ contract.tombstones[a].remaining_stake = DelegatedStake(a)
               /\ contract.tombstones[a].num_remaining_stakers = Cardinality(Delegators(a))
        /\ contract.active = [a \in {v \in validators : is_active(contract.validators[v])}
                                 |-> contract.validators[a].total_stake]
        /\ contract.balance =
               MapThenSumSet(LAMBDA a : contract.validators[a].deposit, validators)
               + MapThenSumSet(LAMBDA s : non_retired_balance(contract.stakers[s])
                                          + contract.stakers[s].retired_balance,
                               DOMAIN contract.stakers)

(* The invariants numbered in the comments of validator.rs and staker.rs:  *)
(* retired or jailed validators are inactive; the non-retired stake and,   *)
(* without any, the retired stake is zero or at least the minimum; there   *)
(* is an inactivation height exactly when there is inactive stake.         *)
DocumentedInvariants ==
    /\ \A a \in DOMAIN contract.validators :
           LET v == contract.validators[a]
           IN  v.retired \/ is_jailed(v, block_number) => ~is_active(v)
    /\ \A a \in DOMAIN contract.stakers :
           LET s == contract.stakers[a]
           IN  /\ enforce_min_stake(s.active_balance, s.inactive_balance, s.retired_balance)
               /\ (s.inactive_balance = 0) <=> (s.inactive_from = None)

(* No operation runs into one of the `expect`s, asserts or underflows of   *)
(* the contract ("inconsistent contract state").                           *)
NoPanic == ~contract.panicked

Undoes(outcome, reverted) == outcome.ok => reverted = contract

(* A block that is abandoned is reverted: whatever operation is possible,  *)
(* its revert with its receipt gives back the contract as it was, down to  *)
(* tombstones that the operation removed and jail heights it overwrote.    *)
RevertUndoesCommit ==
    /\ \A op \in IncomingTransactions :
           LET o == commit_incoming_transaction(contract, op, block_number)
           IN  Undoes(o, revert_incoming_transaction(o.contract, op, o.receipt))
    /\ \A op \in OutgoingTransactions :
           LET o == commit_outgoing_transaction(contract, op, block_number)
           IN  Undoes(o, revert_outgoing_transaction(o.contract, op, o.receipt))
    /\ \A op \in FailedTransactions :
           LET o == commit_failed_transaction(contract, op, block_number)
           IN  Undoes(o, revert_failed_transaction(o.contract, op, o.receipt))
    /\ \A op \in JailInherents \cup PenalizeInherents :
           LET o == commit_inherent(contract, op, block_number)
           IN  Undoes(o, revert_inherent(o.contract, op, o.receipt))

(* A validator that is jailed while it has slots earns nothing with any of *)
(* them until the epoch ends, across the checkpoints in between and        *)
(* whatever epoch its offence was in (punished_slots.rs).                  *)
JailedLoseRewards ==
    \A a \in DOMAIN contract.validators :
        is_jailed(contract.validators[a], block_number)
            => SlotsOf(elected, a) \subseteq current_batch_punished_slots(contract)

(* The slots the rewards of a macro block are computed over. *)
RewardedSlots == IF first_batch_of_epoch(block_number) THEN previous_elected ELSE elected

(* Nobody loses a reward for the offence of another: slot numbers are      *)
(* handed out anew every epoch, and a report that arrives in the epoch     *)
(* after the offence must not hit whoever owns the number now.             *)
OnlyGuiltyLoseRewards ==
    /\ \A a \in DOMAIN contract.current :
           a \in guilty /\ contract.current[a] \subseteq SlotsOf(elected, a)
    /\ \A s \in contract.previous \cap DOMAIN RewardedSlots : RewardedSlots[s] \in guilty

(* The collateral stays: a validator that is still to be rewarded or can   *)
(* still be reported has not been deleted. create_reward_transactions      *)
(* panics without it, and a jail inherent would find nobody to jail.       *)
AccountableValidatorsExist ==
    /\ \A s \in DOMAIN RewardedSlots : RewardedSlots[s] \in DOMAIN contract.validators
    /\ \A op \in JailInherents : op.address \in DOMAIN contract.validators

(* Stake that elected a validator cannot be retired or moved elsewhere as  *)
(* long as an offence of the epoch it was elected for can be reported.     *)
BackingStaysLocked ==
    LET locked(b) == \A a \in DOMAIN b :
                        /\ a \in DOMAIN contract.stakers
                        /\ contract.stakers[a].delegation = b[a].validator
                        /\ non_retired_balance(contract.stakers[a]) >= b[a].amount
    IN  /\ locked(backing.current)
        /\ is_valid_at(election_block_before(block_number), block_number, version)
               => locked(backing.previous)

(* An upgrade never leaves the next epoch without a validator: those who   *)
(* are deactivated for not supporting it are a minority of the stake.      *)
UpgradeKeepsValidators ==
    supports_version_upgrade(contract, elected) /\ DOMAIN contract.active # {}
        => DOMAIN deactivate_unsupporting_validators(contract, block_number).active # {}
=============================================================================
