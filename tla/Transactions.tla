---------------------------- MODULE Transactions ----------------------------
(***************************************************************************)
(* Transactions of the Albatross networks: how they are put together,      *)
(* verified without looking at the state, indexed and serialized.          *)
(*   src/primitives/transaction/src/lib.rs and account/                    *)
(*                                                                         *)
(* An address is a record with the field `addr': the address of a key, the *)
(* staking contract, or the address that hashing the content of a contract *)
(* creation gives.  A signature names its key and the content it signs; it *)
(* verifies exactly against that content.  Hashing is injective: a link of *)
(* a hash chain is a secret and the number of times it has been hashed.    *)
(***************************************************************************)
EXTENDS Integers, FiniteSets

CONSTANTS
    VALIDATOR_DEPOSIT, MINIMUM_STAKE, TOTAL_SUPPLY, MAX_TIME_VALUE,
    MAX_BASIC_TX_RECIPIENT_DATA_SIZE,
    WARM_KEY_SIGNALING   \* the protocol version that brings SetSignalData

KeyAddress(k) == [addr |-> k]
ZeroAddress == [addr |-> "zero"]
STAKING_CONTRACT_ADDRESS == [addr |-> "staking"]

\* The all-zero public key, and the default signature proof.
DefaultKey == "default"
NoContent == [kind |-> "none"]
DefaultProof == [key |-> DefaultKey, path |-> "", content |-> NoContent]

\* A signature proof.  The keys of a multi-signature account are the leaves
\* of a Merkle tree: its proofs carry a path, and its address is the root.
SignatureBy(key, path, content) == [key |-> key, path |-> path, content |-> content]

compute_signer(sig) ==
    IF sig.path = "" THEN KeyAddress(sig.key) ELSE [addr |-> sig.key, path |-> sig.path]
is_signed_by(sig, a) == compute_signer(sig) = a
is_default_public_key(sig) == sig.key = DefaultKey
VerifySignature(sig, content) == sig.content = content

-----------------------------------------------------------------------------
(* Data of the recipient *)

NoData == [kind |-> "bytes", len |-> 0]
Bytes(n) == [kind |-> "bytes", len |-> n]

HtlcData(sender, recipient, root, count, timeout) ==
    [kind |-> "htlc", sender |-> sender, recipient |-> recipient, hash_root |-> root,
     hash_count |-> count, timeout |-> timeout]

VestingData(owner, start, step, amount, total) ==
    [owner |-> owner, start_time |-> start, time_step |-> step, step_amount |-> amount,
     total_amount |-> total]

\* The three encodings of a schedule, told apart by their length.
to_tx_data(d) ==
    IF d.step_amount = d.total_amount
    THEN IF d.start_time = 0
         THEN [kind |-> "vesting8", owner |-> d.owner, time_step |-> d.time_step]
         ELSE [kind |-> "vesting24", owner |-> d.owner, start_time |-> d.start_time,
               time_step |-> d.time_step, step_amount |-> d.step_amount]
    ELSE [kind |-> "vesting32", owner |-> d.owner, start_time |-> d.start_time,
          time_step |-> d.time_step, step_amount |-> d.step_amount,
          total_amount |-> d.total_amount]

\* The schedule that the contract will have, given the value it is sent.
parse_data(data, value) ==
    CASE data.kind = "vesting8"  -> VestingData(data.owner, 0, data.time_step, value, value)
      [] data.kind = "vesting24" ->
            VestingData(data.owner, data.start_time, data.time_step, data.step_amount, value)
      [] data.kind = "vesting32" ->
            VestingData(data.owner, data.start_time, data.time_step, data.step_amount,
                        data.total_amount)

Parses(data, value) ==
    CASE data.kind = "vesting8"  -> data.time_step <= MAX_TIME_VALUE
      [] data.kind = "vesting24" ->
            data.start_time <= MAX_TIME_VALUE /\ data.time_step <= MAX_TIME_VALUE
      [] data.kind = "vesting32" ->
            /\ data.start_time <= MAX_TIME_VALUE
            /\ data.time_step <= MAX_TIME_VALUE
            /\ data.total_amount <= value
            /\ data.step_amount <= data.total_amount
      [] OTHER -> FALSE

StakingData(op, args) == [kind |-> "staking", op |-> op, args |-> args, proof |-> DefaultProof]

SignalingOps == {"UpdateValidator", "DeactivateValidator", "ReactivateValidator",
                 "RetireValidator", "UpdateStaker", "SetActiveStake", "RetireStake",
                 "SetSignalData"}

is_signaling(data) == data.kind = "staking" /\ data.op \in SignalingOps

set_signature(data, sig) == IF data.op = "AddStake" THEN data ELSE [data EXCEPT !.proof = sig]

-----------------------------------------------------------------------------
(* Transactions *)

\* What is signed and hashed: everything but the proof.
serialize_content(tx) ==
    [kind |-> "content", sender |-> tx.sender, sender_type |-> tx.sender_type,
     sender_data |-> tx.sender_data, recipient |-> tx.recipient,
     recipient_type |-> tx.recipient_type, recipient_data |-> tx.recipient_data,
     value |-> tx.value, fee |-> tx.fee, start |-> tx.start, network |-> tx.network,
     flags |-> tx.flags]

contract_creation_address(tx) ==
    [addr |-> "hash", of |-> serialize_content([tx EXCEPT !.recipient = ZeroAddress])]

NoProof == [kind |-> "none"]

new_extended(sender, sender_type, sender_data, recipient, recipient_type, data, value, fee, start, network) ==
    [sender |-> sender, sender_type |-> sender_type, sender_data |-> sender_data,
     recipient |-> recipient, recipient_type |-> recipient_type, recipient_data |-> data,
     value |-> value, fee |-> fee, start |-> start, network |-> network, flags |-> {},
     proof |-> NoProof, valid |-> FALSE]

new_signaling(sender, sender_type, recipient, recipient_type, fee, data, start, network) ==
    [new_extended(sender, sender_type, "", recipient, recipient_type, data, 0, fee, start, network)
     EXCEPT !.flags = {"SIGNALING"}]

new_contract_creation(sender, sender_type, sender_data, recipient_type, data, value, fee, start, network) ==
    LET tx == [new_extended(sender, sender_type, sender_data, ZeroAddress, recipient_type, data,
                            value, fee, start, network) EXCEPT !.flags = {"CONTRACT_CREATION"}]
    IN  [tx EXCEPT !.recipient = contract_creation_address(tx)]

SignatureProof(sig) == [kind |-> "signature", sig |-> sig]
RegularTransfer(depth, root, pre_image, sig) ==
    [kind |-> "RegularTransfer", depth |-> depth, root |-> root, pre_image |-> pre_image,
     sig |-> sig]
EarlyResolve(recipient_sig, sender_sig) ==
    [kind |-> "EarlyResolve", recipient_sig |-> recipient_sig, sender_sig |-> sender_sig]
TimeoutResolve(sig) == [kind |-> "TimeoutResolve", sig |-> sig]

\* A link of a hash chain, hashed n more times.
Hashed(link, n) == <<link[1], link[2] + n>>

-----------------------------------------------------------------------------
(* Verification: the first check that fails names the error. *)

verify_htlc_proof(proof, content) ==
    CASE proof.kind = "RegularTransfer" ->
            /\ Hashed(proof.pre_image, proof.depth) = proof.root
            /\ VerifySignature(proof.sig, content)
      [] proof.kind = "EarlyResolve" ->
            /\ VerifySignature(proof.recipient_sig, content)
            /\ VerifySignature(proof.sender_sig, content)
      [] proof.kind = "TimeoutResolve" -> VerifySignature(proof.sig, content)

HtlcProofKinds == {"RegularTransfer", "EarlyResolve", "TimeoutResolve"}

verify_outgoing_transaction(tx) ==
    LET content == serialize_content(tx)
        kinds == IF tx.sender_type = "HTLC" THEN HtlcProofKinds ELSE {"signature"}
        proven == CASE tx.sender_type = "HTLC" -> verify_htlc_proof(tx.proof, content)
                    [] tx.sender_type = "Basic" ->
                          is_signed_by(tx.proof.sig, tx.sender) /\ VerifySignature(tx.proof.sig, content)
                    [] OTHER -> VerifySignature(tx.proof.sig, content)
    IN  CASE tx.sender_type # "Staking" /\ tx.sender_data # "" -> "Overflow"
          [] tx.sender_type = "Staking" /\ tx.sender_data \notin {"DeleteValidator", "RemoveStake"} ->
                "InvalidSerialization"
          [] tx.proof.kind \notin kinds -> "InvalidSerialization"
          [] OTHER -> IF proven THEN "Ok" ELSE "InvalidProof"

\* The signature inside the data covers the transaction with the default
\* proof in its place.
verify_transaction_signature(tx, sig) ==
    LET unsigned == [tx EXCEPT !.recipient_data = set_signature(@, DefaultProof)]
    IN  ~is_default_public_key(sig) /\ VerifySignature(sig, serialize_content(unsigned))

verify_staking_data(tx, version) ==
    LET data == tx.recipient_data
        signature == IF verify_transaction_signature(tx, data.proof) THEN "Ok" ELSE "InvalidProof"
    IN  CASE data.op = "CreateValidator" ->
                IF tx.value # VALIDATOR_DEPOSIT THEN "InvalidValue" ELSE signature
          [] data.op = "UpdateValidator" ->
                IF \A f \in DOMAIN data.args : data.args[f] = {} THEN "InvalidData" ELSE signature
          [] data.op = "CreateStaker" ->
                IF tx.value < MINIMUM_STAKE THEN "InvalidValue" ELSE signature
          [] data.op = "AddStake" -> IF tx.value = 0 THEN "ZeroValue" ELSE "Ok"
          [] data.op = "RetireStake" -> IF data.args.amount = {0} THEN "ZeroValue" ELSE signature
          [] data.op = "SetSignalData" ->
                IF version < WARM_KEY_SIGNALING THEN "InvalidForVersion" ELSE signature
          [] OTHER -> signature

verify_incoming_transaction(tx, version) ==
    LET created == tx.flags = {"CONTRACT_CREATION"} /\ tx.recipient = contract_creation_address(tx)
        data == tx.recipient_data
    IN  CASE tx.recipient_type = "Basic" ->
                IF tx.value = 0 THEN "ZeroValue"
                ELSE IF data.len > MAX_BASIC_TX_RECIPIENT_DATA_SIZE THEN "Overflow"
                ELSE IF tx.flags # {} THEN "InvalidForRecipient" ELSE "Ok"
          [] tx.recipient_type = "Vesting" ->
                IF ~created THEN "InvalidForRecipient"
                ELSE IF Parses(data, tx.value) THEN "Ok" ELSE "InvalidData"
          [] tx.recipient_type = "HTLC" ->
                IF ~created THEN "InvalidForRecipient"
                ELSE IF data.kind = "htlc" /\ data.hash_count # 0 THEN "Ok" ELSE "InvalidData"
          [] tx.recipient_type = "Staking" ->
                IF "CONTRACT_CREATION" \in tx.flags THEN "InvalidForRecipient"
                ELSE IF data.kind # "staking" THEN "InvalidSerialization"
                ELSE IF is_signaling(data) # ("SIGNALING" \in tx.flags) THEN "InvalidForRecipient"
                ELSE IF is_signaling(data) /\ tx.value # 0 THEN "InvalidValue"
                ELSE verify_staking_data(tx, version)

verify(tx, network, version) ==
    LET outgoing == verify_outgoing_transaction(tx)
    IN  IF tx.valid THEN "Ok"
        ELSE IF tx.sender = tx.recipient THEN "SenderEqualsRecipient"
        ELSE IF tx.network # network THEN "ForeignNetwork"
        ELSE IF "SIGNALING" \in tx.flags /\ tx.value # 0 THEN "InvalidForRecipient"
        ELSE IF "SIGNALING" \notin tx.flags /\ tx.value = 0 THEN "ZeroValue"
        ELSE IF tx.value + tx.fee > TOTAL_SUPPLY THEN "Overflow"
        ELSE IF outgoing # "Ok" THEN outgoing
        ELSE verify_incoming_transaction(tx, version)

verify_mut(tx, network, version) ==
    [tx EXCEPT !.valid = @ \/ verify(tx, network, version) = "Ok"]

-----------------------------------------------------------------------------
(* The addresses a transaction is indexed under *)

KeyAddresses(keys) == {KeyAddress(k) : k \in keys}

ProofAddresses(proof) ==
    CASE proof.kind \in {"signature", "RegularTransfer", "TimeoutResolve"} ->
            {compute_signer(proof.sig)}
      [] proof.kind = "EarlyResolve" ->
            {compute_signer(proof.recipient_sig), compute_signer(proof.sender_sig)}
      [] OTHER -> {}

StakingAddresses(data) ==
    LET signer == {compute_signer(data.proof)}
    IN  CASE data.op \in {"CreateValidator", "UpdateValidator"} ->
                KeyAddresses(data.args.signing_key) \cup data.args.reward_address \cup signer
          [] data.op \in {"DeactivateValidator", "ReactivateValidator", "SetSignalData"} ->
                data.args.validator_address \cup signer
          [] data.op \in {"CreateStaker", "UpdateStaker"} -> data.args.delegation \cup signer
          [] data.op = "AddStake" -> data.args.staker_address
          [] OTHER -> signer

\* A proof of either shape is read only where the sender's type allows it;
\* a regular signature proof always is.
related_addresses(tx) ==
    LET data == tx.recipient_data
    IN  {tx.sender, tx.recipient}
          \cup (IF tx.proof.kind = "signature" \/ tx.sender_type = "HTLC"
                THEN ProofAddresses(tx.proof) ELSE {})
          \cup (CASE tx.recipient_type = "Vesting" /\ Parses(data, tx.value) -> {data.owner}
                  [] tx.recipient_type = "HTLC" /\ data.kind = "htlc" -> {data.sender, data.recipient}
                  [] tx.recipient_type = "Staking" /\ data.kind = "staking" -> StakingAddresses(data)
                  [] OTHER -> {})

-----------------------------------------------------------------------------
(* The two wire formats *)

format(tx) ==
    IF /\ tx.sender_type = "Basic" /\ tx.recipient_type = "Basic"
       /\ tx.recipient_data = NoData /\ tx.flags = {}
       /\ tx.proof.kind = "signature"
       /\ tx.sender = KeyAddress(tx.proof.sig.key)
       /\ tx.proof.sig.path = ""
    THEN "Basic" ELSE "Extended"

\* A basic transaction travels without its sender: the key stands for it.
serialize(tx) ==
    IF format(tx) = "Basic"
    THEN [format |-> "Basic", key |-> tx.proof.sig.key, recipient |-> tx.recipient,
          value |-> tx.value, fee |-> tx.fee, start |-> tx.start, network |-> tx.network,
          signature |-> tx.proof.sig.content]
    ELSE [format |-> "Extended", tx |-> tx]

BasicTransactionVisitor(w) ==
    [new_extended(KeyAddress(w.key), "Basic", "", w.recipient, "Basic", NoData, w.value, w.fee,
                  w.start, w.network)
     EXCEPT !.proof = SignatureProof(SignatureBy(w.key, "", w.signature))]

ExtendedTransactionVisitor(w) == [w.tx EXCEPT !.valid = FALSE]

deserialize(w) ==
    IF w.format = "Basic" THEN BasicTransactionVisitor(w) ELSE ExtendedTransactionVisitor(w)
=============================================================================
