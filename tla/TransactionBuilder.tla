------------------------- MODULE TransactionBuilder -------------------------
(***************************************************************************)
(* The transaction builder: a builder that is filled field by field, a     *)
(* proof builder that collects the signatures in the order the transaction *)
(* needs them, and one convenience function per kind of transaction.       *)
(*   src/transaction-builder/src/                                          *)
(*                                                                         *)
(* An optional value is a set with at most one element.  `config' is what  *)
(* the caller wants to build; the caller fills the builder in any order,   *)
(* signs with any key, and may call generate too early.  Or it makes one   *)
(* of the convenience calls.                                               *)
(***************************************************************************)
EXTENDS Transactions, Sequences

CONSTANTS
    Configurations,   \* the sender, recipient, value... of the caller
    Calls,            \* calls of convenience functions, with their arguments
    Keys,             \* the key pairs of the caller
    Network, MaxVersion

VARIABLES
    config,
    builder,   \* the TransactionBuilder
    proof,     \* the TransactionProofBuilder, {} until generate succeeds
    txs,       \* the finished transaction, {} until then
    error,     \* what generate said
    version    \* the protocol version of the verifying node

vars == <<config, builder, proof, txs, error, version>>

The(S) == CHOOSE x \in S : TRUE
Ok(tx) == [ok |-> TRUE, value |-> tx]
Err(e) == [ok |-> FALSE, error |-> e]

-----------------------------------------------------------------------------
(* Senders and recipients *)

Sender(type, address, data) == [type |-> type, address |-> address, data |-> data]
SenderBasic(a) == Sender("Basic", a, "")
SenderHtlc(a) == Sender("HTLC", a, "")
SenderVesting(a) == Sender("Vesting", a, "")
SenderStaking(data) == Sender("Staking", STAKING_CONTRACT_ADDRESS, data)

new_basic_with_data_recipient(a, data) == [type |-> "Basic", address |-> a, data |-> data]
RecipientHtlc(data) == [type |-> "HTLC", data |-> data]
RecipientVesting(schedule) == [type |-> "Vesting", schedule |-> schedule]
RecipientStaking(op, args) == [type |-> "Staking", data |-> StakingData(op, args)]

is_creation(r) == r.type \in {"HTLC", "Vesting"}
recipient_is_signaling(r) == r.type = "Staking" /\ is_signaling(r.data)
address(r) == IF r.type = "Basic" THEN r.address ELSE STAKING_CONTRACT_ADDRESS
data(r) == IF r.type = "Vesting" THEN to_tx_data(r.schedule) ELSE r.data

\* The three ways to fill the builder of a vesting recipient.
new_single_step(owner, start_time, amount) ==
    RecipientVesting(VestingData(owner, 0, start_time, amount, amount))

with_steps(owner, total, start_time, time_step, num_steps) ==
    IF num_steps > 0
    THEN Ok(RecipientVesting(VestingData(owner, start_time, time_step, total \div num_steps, total)))
    ELSE Err("NoStepAmount")

\* hash_count is not optional in the builder: without with_hash it is 0, and
\* the missing root is what generate complains about.
htlc_generate(sender, recipient, root, count, timeout) ==
    CASE sender = {}    -> Err("NoSender")
      [] recipient = {} -> Err("NoRecipient")
      [] root = {}      -> Err("NoHash")
      [] timeout = {}   -> Err("NoTimeout")
      [] OTHER -> Ok(RecipientHtlc(HtlcData(The(sender), The(recipient), The(root), count,
                                            The(timeout))))

-----------------------------------------------------------------------------
(* TransactionBuilder::generate and the proof builders *)

EmptyBuilder == [sender |-> {}, recipient |-> {}, value |-> {}, fee |-> {}, start |-> {},
                 network |-> {}]

without_in_staking(tx) ==
    [kind |-> CASE tx.sender_type = "Basic"   -> "Basic"
                [] tx.sender_type = "Vesting" -> "Vesting"
                [] tx.sender_type = "HTLC"    -> "Htlc"
                [] tx.sender_type = "Staking" -> "OutStaking",
     tx |-> tx, data |-> {}, proof |-> {}]

new_proof_builder(tx) ==
    IF tx.recipient_type = "Staking"
    THEN [kind |-> "InStaking", tx |-> tx, data |-> {}, proof |-> {}]
    ELSE without_in_staking(tx)

generate(b) ==
    CASE b.sender = {}    -> Err("NoSender")
      [] b.recipient = {} -> Err("NoRecipient")
      [] b.value = {}     -> Err("NoValue")
      [] b.start = {}     -> Err("NoValidityStartHeight")
      [] b.network = {}   -> Err("NoNetworkId")
      [] recipient_is_signaling(The(b.recipient)) # (The(b.value) = 0) -> Err("InvalidValue")
      [] OTHER ->
            LET s == The(b.sender)  r == The(b.recipient)
                fee == IF b.fee = {} THEN 0 ELSE The(b.fee)
            IN  Ok(new_proof_builder(
                  CASE is_creation(r) ->
                          new_contract_creation(s.address, s.type, "", r.type, data(r),
                                                The(b.value), fee, The(b.start), The(b.network))
                    [] recipient_is_signaling(r) ->
                          new_signaling(s.address, s.type, address(r), r.type, fee, data(r),
                                        The(b.start), The(b.network))
                    [] OTHER ->
                          new_extended(s.address, s.type, s.data, address(r), r.type, data(r),
                                       The(b.value), fee, The(b.start), The(b.network))))

\* StakingDataBuilder: the signature covers the data with the default proof.
data_sign_with_key_pair(p, key) ==
    LET d == p.tx.recipient_data
        sig == SignatureBy(key, "", serialize_content(p.tx))
    IN  [p EXCEPT !.data = {set_signature(d, sig)}]

data_generate(p) == without_in_staking([p.tx EXCEPT !.recipient_data = The(p.data)])

\* BasicProofBuilder and StakingProofBuilder.
with_signature_proof(p, sig) == [p EXCEPT !.proof = {SignatureProof(sig)}]

sign_with_key_pair(p, key) ==
    with_signature_proof(p, SignatureBy(key, "", serialize_content(p.tx)))

\* HtlcProofBuilder.
signature_with_key_pair(p, key) == SignatureBy(key, "", serialize_content(p.tx))
timeout_resolve(p, sig) == [p EXCEPT !.proof = {TimeoutResolve(sig)}]
early_resolve(p, sender_sig, recipient_sig) ==
    [p EXCEPT !.proof = {EarlyResolve(recipient_sig, sender_sig)}]
regular_transfer(p, pre_image, count, root, sig) ==
    [p EXCEPT !.proof = {RegularTransfer(count, root, pre_image, sig)}]

proof_generate(p) == [p.tx EXCEPT !.proof = The(p.proof)]

-----------------------------------------------------------------------------
(* Convenience functions: c holds the arguments of the call. *)

Filled(sender, recipient, value, c) ==
    [sender |-> {sender}, recipient |-> {recipient}, value |-> {value}, fee |-> {c.fee},
     start |-> {c.start}, network |-> {c.network}]

Signed(b, key) ==
    LET g == generate(b)
    IN  IF g.ok THEN Ok(proof_generate(sign_with_key_pair(g.value, key))) ELSE g

new_basic(c) ==
    Signed(Filled(SenderBasic(KeyAddress(c.key)), new_basic_with_data_recipient(c.recipient, NoData),
                  c.value, c), c.key)

new_basic_with_data(c) ==
    Signed(Filled(SenderBasic(KeyAddress(c.key)), new_basic_with_data_recipient(c.recipient, c.data),
                  c.value, c), c.key)

new_create_vesting(c) ==
    IF c.num_steps = 0 THEN Err("InvalidNumSteps")
    ELSE Signed(Filled(SenderBasic(KeyAddress(c.key)),
                       with_steps(c.owner, c.value, c.start_time, c.time_step, c.num_steps).value,
                       c.value, c), c.key)

new_redeem_vesting(c) ==
    Signed(Filled(SenderVesting(c.contract), new_basic_with_data_recipient(c.recipient, NoData),
                  c.value, c), c.key)

new_create_htlc(c) ==
    Signed(Filled(SenderBasic(KeyAddress(c.key)),
                  htlc_generate({c.sender}, {c.recipient}, {c.hash_root}, c.hash_count,
                                {c.timeout}).value, c.value, c), c.key)

FromHtlc(c) ==
    generate(Filled(SenderHtlc(c.contract), new_basic_with_data_recipient(c.recipient, NoData),
                    c.value, c))

new_redeem_htlc_regular(c) ==
    LET g == FromHtlc(c)
    IN  IF g.ok
        THEN Ok(proof_generate(regular_transfer(g.value, c.pre_image, c.hash_count, c.hash_root,
                                                signature_with_key_pair(g.value, c.key))))
        ELSE g

new_redeem_htlc_timeout(c) ==
    LET g == FromHtlc(c)
    IN  IF g.ok
        THEN Ok(proof_generate(timeout_resolve(g.value, signature_with_key_pair(g.value, c.key))))
        ELSE g

\* Each party signs alone, with its own call.
sign_htlc_early(c, key) ==
    LET g == FromHtlc(c) IN IF g.ok THEN Ok(signature_with_key_pair(g.value, key)) ELSE g

new_redeem_htlc_early(c) ==
    LET g == FromHtlc(c)
        sender_sig == sign_htlc_early(c, c.sender_key)
        recipient_sig == sign_htlc_early(c, c.recipient_key)
    IN  IF g.ok THEN Ok(proof_generate(early_resolve(g.value, sender_sig.value, recipient_sig.value)))
        ELSE g

SignedStaking(b, data_key, key) ==
    LET g == generate(b)
    IN  IF g.ok
        THEN Ok(proof_generate(
                sign_with_key_pair(data_generate(data_sign_with_key_pair(g.value, data_key)), key)))
        ELSE g

ToStaking(key, op, args, value, c) ==
    Filled(SenderBasic(KeyAddress(key)), RecipientStaking(op, args), value, c)

new_create_staker(c) ==
    SignedStaking(ToStaking(c.key, "CreateStaker", [delegation |-> c.delegation], c.value, c),
                  c.staker_key, c.key)

new_add_stake(c) ==
    SignedStaking(ToStaking(c.key, "AddStake", [staker_address |-> {c.staker_address}], c.value, c),
                  DefaultKey, c.key)

\* Without a key pair of its own, the staker's key pays too.
Payer(c) == IF c.payer = {} THEN c.staker_key ELSE The(c.payer)

\* Mutant: the staker signs the transaction although another key pays.
new_update_staker_unpaid(c) ==
    LET args == [delegation |-> c.delegation, reactivate_all_stake |-> {c.reactivate}]
    IN  SignedStaking(ToStaking(Payer(c), "UpdateStaker", args, 0, c), c.staker_key, c.staker_key)

new_update_staker(c) ==
    LET args == [delegation |-> c.delegation, reactivate_all_stake |-> {c.reactivate}]
    IN  SignedStaking(ToStaking(Payer(c), "UpdateStaker", args, 0, c), c.staker_key, Payer(c))

new_set_active_stake(c) ==
    SignedStaking(ToStaking(Payer(c), "SetActiveStake", [amount |-> {c.amount}], 0, c),
                  c.staker_key, Payer(c))

new_retire_stake(c) ==
    SignedStaking(ToStaking(Payer(c), "RetireStake", [amount |-> {c.amount}], 0, c),
                  c.staker_key, Payer(c))

new_remove_stake(c) ==
    Signed(Filled(SenderStaking("RemoveStake"), new_basic_with_data_recipient(c.recipient, NoData),
                  c.value, c), c.key)

new_create_validator(c) ==
    LET args == [signing_key |-> {c.signing_key}, voting_key |-> {c.voting_key},
                 reward_address |-> {c.reward_address}, signal_data |-> c.signal_data]
    IN  SignedStaking(ToStaking(c.key, "CreateValidator", args, VALIDATOR_DEPOSIT, c), c.cold_key,
                      c.key)

new_update_validator(c) ==
    LET args == [signing_key |-> c.new_signing_key, voting_key |-> c.new_voting_key,
                 reward_address |-> c.new_reward_address, signal_data |-> c.signal_data]
    IN  SignedStaking(ToStaking(c.key, "UpdateValidator", args, 0, c), c.cold_key, c.key)

new_deactivate_validator(c) ==
    SignedStaking(ToStaking(c.key, "DeactivateValidator",
                            [validator_address |-> {c.validator_address}], 0, c), c.signing_key, c.key)

new_reactivate_validator(c) ==
    SignedStaking(ToStaking(c.key, "ReactivateValidator",
                            [validator_address |-> {c.validator_address}], 0, c), c.signing_key, c.key)

finalize_signal_data_transaction(c, update) ==
    LET args == [validator_address |-> {c.validator_address}, update |-> {update}]
    IN  SignedStaking(ToStaking(c.key, "SetSignalData", args, 0, c), c.signing_key, c.key)

new_set_signal_data(c) == finalize_signal_data_transaction(c, [full |-> c.signal_data])
new_signal_version(c) == finalize_signal_data_transaction(c, [version |-> c.version])

new_retire_validator(c) ==
    SignedStaking(ToStaking(c.key, "RetireValidator", <<>>, 0, c), c.cold_key, c.key)

new_delete_validator(c) ==
    Signed(Filled(SenderStaking("DeleteValidator"), new_basic_with_data_recipient(c.recipient, NoData),
                  c.value, c), c.cold_key)

call(c) ==
    CASE c.fn = "new_basic" -> new_basic(c)
      [] c.fn = "new_basic_with_data" -> new_basic_with_data(c)
      [] c.fn = "new_create_vesting" -> new_create_vesting(c)
      [] c.fn = "new_redeem_vesting" -> new_redeem_vesting(c)
      [] c.fn = "new_create_htlc" -> new_create_htlc(c)
      [] c.fn = "new_redeem_htlc_regular" -> new_redeem_htlc_regular(c)
      [] c.fn = "new_redeem_htlc_timeout" -> new_redeem_htlc_timeout(c)
      [] c.fn = "new_redeem_htlc_early" -> new_redeem_htlc_early(c)
      [] c.fn = "new_create_staker" -> new_create_staker(c)
      [] c.fn = "new_add_stake" -> new_add_stake(c)
      [] c.fn = "new_update_staker" -> new_update_staker(c)
      [] c.fn = "new_set_active_stake" -> new_set_active_stake(c)
      [] c.fn = "new_retire_stake" -> new_retire_stake(c)
      [] c.fn = "new_remove_stake" -> new_remove_stake(c)
      [] c.fn = "new_create_validator" -> new_create_validator(c)
      [] c.fn = "new_update_validator" -> new_update_validator(c)
      [] c.fn = "new_deactivate_validator" -> new_deactivate_validator(c)
      [] c.fn = "new_reactivate_validator" -> new_reactivate_validator(c)
      [] c.fn = "new_set_signal_data" -> new_set_signal_data(c)
      [] c.fn = "new_signal_version" -> new_signal_version(c)
      [] c.fn = "new_retire_validator" -> new_retire_validator(c)
      [] c.fn = "new_delete_validator" -> new_delete_validator(c)

-----------------------------------------------------------------------------
(* The caller *)

\* The fields of config fill the builder; a config that is a convenience call
\* has the field fn instead.
Fluent == "fn" \notin DOMAIN config

Init ==
    /\ config \in Configurations \cup Calls
    /\ builder = EmptyBuilder
    /\ proof = {}
    /\ txs = {}
    /\ error = ""
    /\ version \in {WARM_KEY_SIGNALING - 1, WARM_KEY_SIGNALING}

Fresh == proof = {} /\ txs = {} /\ error = ""

\* with_sender, with_recipient, with_value...
With(field) ==
    /\ Fluent /\ Fresh
    /\ builder[field] = {}
    /\ builder' = [builder EXCEPT ![field] = {config[field]}]
    /\ UNCHANGED <<config, proof, txs, error, version>>

Generate ==
    /\ Fluent /\ Fresh
    /\ LET g == generate(builder)
       IN  /\ proof' = IF g.ok THEN {g.value} ELSE {}
           /\ error' = IF g.ok THEN "" ELSE g.error
    /\ UNCHANGED <<config, builder, txs, version>>

Pending(kinds) == proof # {} /\ txs = {} /\ The(proof).kind \in kinds

SignData(key) ==
    /\ Pending({"InStaking"})
    /\ proof' = {data_sign_with_key_pair(The(proof), key)}
    /\ UNCHANGED <<config, builder, txs, error, version>>

GenerateData ==
    /\ Pending({"InStaking"})
    /\ The(proof).data # {}
    /\ proof' = {data_generate(The(proof))}
    /\ UNCHANGED <<config, builder, txs, error, version>>

\* A multi-signature sender has its proof put together elsewhere.
Sign(key) ==
    /\ Pending({"Basic", "Vesting", "OutStaking"})
    /\ proof' = {IF "path" \in DOMAIN The(proof).tx.sender
                 THEN with_signature_proof(The(proof), SignatureBy(key, The(proof).tx.sender.path,
                                                                   serialize_content(The(proof).tx)))
                 ELSE sign_with_key_pair(The(proof), key)}
    /\ UNCHANGED <<config, builder, txs, error, version>>

Resolve(key) ==
    /\ Pending({"Htlc"})
    /\ LET p == The(proof)
           sig == signature_with_key_pair(p, key)
       IN  \E p2 \in {timeout_resolve(p, sig), early_resolve(p, sig, sig),
                       regular_transfer(p, <<"secret", 0>>, 2, <<"secret", 2>>, sig)} :
               proof' = {p2}
    /\ UNCHANGED <<config, builder, txs, error, version>>

GenerateTransaction ==
    /\ Pending({"Basic", "Vesting", "OutStaking", "Htlc"})
    /\ The(proof).proof # {}
    /\ txs' = {proof_generate(The(proof))}
    /\ UNCHANGED <<config, builder, proof, error, version>>

Call ==
    /\ ~Fluent /\ Fresh
    /\ LET g == call(config)
       IN  /\ txs' = IF g.ok THEN {g.value} ELSE {}
           /\ error' = IF g.ok THEN "" ELSE g.error
    /\ UNCHANGED <<config, builder, proof, version>>

\* A node verifies the transaction when it comes in, and keeps the verdict.
Verify ==
    /\ txs # {}
    /\ txs' = {verify_mut(The(txs), Network, version)}
    /\ UNCHANGED <<config, builder, proof, error, version>>

\* The chain moves to the next protocol version.
Upgrade ==
    /\ txs # {}
    /\ version < MaxVersion
    /\ version' = version + 1
    /\ UNCHANGED <<config, builder, proof, txs, error>>

Next ==
    \/ \E f \in DOMAIN EmptyBuilder : With(f)
    \/ Generate
    \/ \E k \in Keys : SignData(k) \/ Sign(k) \/ Resolve(k)
    \/ GenerateData \/ GenerateTransaction
    \/ Call \/ Verify \/ Upgrade

Spec == Init /\ [][Next]_vars

-----------------------------------------------------------------------------
(* Properties *)

Done == IF txs = {} THEN {} ELSE {The(txs)}
Anew(tx) == [tx EXCEPT !.valid = FALSE]

\* The proof builder holds at most one proof builder and one transaction, and
\* never both an error and a result.
TypeOK ==
    /\ \A f \in DOMAIN builder : builder[f] # {} => builder[f] = {config[f]}
    /\ Cardinality(proof) <= 1 /\ Cardinality(txs) <= 1
    /\ error # "" => proof = {} /\ txs = {}
    /\ version \in 0..MaxVersion

\* Whatever the order in which the fields are set and the two signatures are
\* made, a transaction that the builder finishes and that its sender signed
\* is well formed: flags, creation address, data, formats and signatures all
\* agree with what verify recomputes.  What may still be wrong with it is an
\* amount, a foreign network, a schedule or a version: things the caller
\* chose.  (The staking contract can neither pay itself nor create
\* contracts.)
BuilderIsWellFormed ==
    Fluent => \A tx \in Done :
        /\ tx.sender_type # "Staking" \/ tx.recipient_type = "Basic"
        /\ tx.sender_type = "Basic" => is_signed_by(tx.proof.sig, tx.sender)
        => verify(Anew(tx), Network, version) \in
              {"Ok", "ForeignNetwork", "Overflow", "InvalidValue", "ZeroValue", "InvalidData",
               "InvalidForVersion", "SenderEqualsRecipient"}

\* A signaling transaction has no value and every other one has some: what
\* the builder refuses with InvalidValue never reaches a node's verify.
SignalingHasNoValue ==
    \A tx \in Done : verify(Anew(tx), tx.network, version) \notin {"ZeroValue"}
                       \/ (tx.recipient_type = "Staking" /\ tx.recipient_data.op = "RetireStake")

\* Each convenience function called with arguments its documentation allows
\* gives a transaction that the node accepts (once the chain has the version
\* that brings it).
CallsVerify ==
    \A tx \in Done : ~Fluent => verify(Anew(tx), config.network, MaxVersion) = "Ok"

\* The vesting contract that the chain creates has the schedule that was
\* asked for when the schedule covers the whole value.  When it covers less,
\* the contract has the asked owner and times and locks what was asked or
\* the whole value, the latter only if it is paid out in one step.
CreatedAsAsked ==
    \A tx \in Done :
        Fluent /\ tx.recipient_type = "Vesting" /\ tx.valid =>
        LET asked   == config.recipient.schedule
            created == parse_data(tx.recipient_data, tx.value)
        IN  /\ asked.total_amount = tx.value => created = asked
            /\ created \in {asked, [asked EXCEPT !.total_amount = tx.value],
                            [asked EXCEPT !.total_amount = tx.value, !.step_amount = tx.value]}
            /\ created # asked => asked.step_amount = asked.total_amount

\* The documentation of with_total_amount: what exceeds the total amount is
\* available with immediate effect.  Not so in the code: the shorter
\* encodings leave the total amount out, and the whole value is locked.
RemainderIsFree ==
    \A tx \in Done :
        Fluent /\ tx.recipient_type = "Vesting" /\ tx.valid
        => parse_data(tx.recipient_data, tx.value).total_amount
             = config.recipient.schedule.total_amount

\* The addresses in the records a transaction is made of.
MentionedIn(r) ==
    LET in(f) == IF f \in DOMAIN r THEN {r[f]} ELSE {}
    IN  in("owner") \cup in("sender") \cup in("recipient")

SignersIn(r) ==
    {compute_signer(r[f]) : f \in DOMAIN r \cap {"sig", "recipient_sig", "sender_sig"}}

ArgumentAddresses(args) ==
    (UNION {args[f] : f \in DOMAIN args \cap {"reward_address", "validator_address", "delegation",
                                             "staker_address"}})
      \cup (IF "signing_key" \in DOMAIN args THEN KeyAddresses(args.signing_key) ELSE {})

\* The history index finds a transaction under every address that occurs
\* anywhere in it: in its proof, in the data of a new contract, and in the
\* data and the inner proof of a staking transaction.
MentionedAreRelated ==
    \A tx \in Done :
        LET d == tx.recipient_data
        IN  tx.valid =>
              /\ SignersIn(tx.proof) \cup MentionedIn(tx) \subseteq related_addresses(tx)
              /\ d.kind # "staking" => MentionedIn(d) \subseteq related_addresses(tx)
              /\ d.kind = "staking" =>
                    ArgumentAddresses(d.args) \subseteq related_addresses(tx)
              /\ d.kind = "staking" /\ d.op # "AddStake" =>
                    compute_signer(d.proof) \in related_addresses(tx)

\* A verified transaction survives the wire, in the format its shape selects;
\* the receiver starts without the sender's verdict and comes to the same.
RoundTrips ==
    \A tx \in Done :
        tx.valid => /\ deserialize(serialize(tx)) = Anew(tx)
                    /\ verify(deserialize(serialize(tx)), Network, version) = "Ok"

\* The cached verdict is sound although protocol versions change under it:
\* what verified once verifies anew.
CachedVerdictHolds ==
    \A tx \in Done : tx.valid => verify(Anew(tx), Network, version) = "Ok"

=============================================================================
