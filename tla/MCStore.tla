------------------------------ MODULE MCStore -------------------------------
(***************************************************************************)
(* Instances of the data a node keeps and proves: accounts, the trie and   *)
(* its keys, Merkle trees and mountain ranges, and the history store.      *)
(***************************************************************************)
EXTENDS Integers, Sequences, FiniteSets, TLC

CONSTANTS
    None, Unchanged, Parts    \* the parts that a run is about

VARIABLES part,
    config, tree, chain, panicked, full, partial, blocks, last, values,
    popped, leaves, light, origin, sent, key_a, key_b, seq_a, seq_b, accounts,
    cum_tx_fees, db, indexed, pruned, outcome

-----------------------------------------------------------------------------
(* Three scenarios for Accounts: the schedule of a vesting contract and its *)
(* pruning, an HTLC around its timeout, and contracts created and spent.    *)
(* In the HTLC nine of ten pre-images unlock all of it: 1 - 9/10 is less    *)
(* than 1/10 in an f64.  With 17 bits every quotient with a denominator up  *)
(* to 10 is rounded the way it is with 53: their periods divide 36.         *)
NoTerms == [owner |-> "-", start |-> 0, step |-> 0, amount |-> 0, total |-> 0,
            sender |-> "-", recipient |-> "-", count |-> 1, timeout |-> 0]

Basic(balance) == [type |-> "Basic", balance |-> balance, terms |-> NoTerms]

Staking(balance) == [type |-> "Staking", balance |-> balance, terms |-> NoTerms]

Transfer(id, from, type, to, value, fee) ==
    [id |-> id, sender |-> from, sender_type |-> type, recipient |-> to, recipient_type |-> "Basic",
     value |-> value, fee |-> fee, creation |-> FALSE, terms |-> NoTerms, signers |-> {from},
     proof |-> "RegularTransfer", depth |-> 0, accepted |-> TRUE]

\* A transaction to the staking contract, which takes it or refuses it.
ToStaking(tx, accepted) ==
    [tx EXCEPT !.recipient = "staking", !.recipient_type = "Staking", !.accepted = accepted]

Signed(tx, signers) == [tx EXCEPT !.signers = signers]

Proven(tx, kind, depth, signers) ==
    [tx EXCEPT !.proof = kind, !.depth = depth, !.signers = signers]

Creates(tx, type, terms) ==
    [tx EXCEPT !.creation = TRUE, !.recipient_type = type, !.terms = terms]

VestingTerms(owner, start, step, amount, total) ==
    [NoTerms EXCEPT !.owner = owner, !.start = start, !.step = step, !.amount = amount,
                    !.total = total]

HTLCTerms(sender, recipient, count, timeout, total) ==
    [NoTerms EXCEPT !.sender = sender, !.recipient = recipient, !.count = count,
                    !.timeout = timeout, !.total = total]

Account(type, balance, terms) == [type |-> type, balance |-> balance, terms |-> terms]

Reward(target) == <<[target |-> target, value |-> 1]>>

VestingConfig ==
    [genesis_time |-> 1,
     accounts |-> [a \in {"alice", "v", "staking"} |->
        CASE a = "alice" -> Basic(3)
          [] a = "v" -> Account("Vesting", 5, VestingTerms("alice", 0, 2, 2, 4))
          [] a = "staking" -> Staking(1)],
     transactions |->
        {Signed(Transfer(1, "v", "Vesting", "alice", 2, 1), {"alice"}),
         Signed(Transfer(2, "v", "Vesting", "bob", 2, 0), {"alice"}),
         Signed(Transfer(3, "v", "Vesting", "bob", 5, 0), {"alice"}),
         Signed(ToStaking(Transfer(4, "v", "Vesting", "bob", 1, 1), FALSE), {"alice"}),
         Transfer(5, "alice", "Basic", "v", 2, 1)},
     rewards |-> {<<>>, Reward("v")}]

HTLCConfig ==
    [genesis_time |-> 0,
     accounts |-> [a \in {"alice", "h", "staking"} |->
        CASE a = "alice" -> Basic(1)
          [] a = "h" -> Account("HTLC", 11, HTLCTerms("alice", "bob", 10, 1, 10))
          [] a = "staking" -> Staking(1)],
     transactions |->
        {Proven(Transfer(1, "h", "HTLC", "bob", 1, 1), "RegularTransfer", 1, {"bob"}),
         Proven(Transfer(2, "h", "HTLC", "carol", 9, 0), "RegularTransfer", 9, {"bob"}),
         Proven(Transfer(3, "h", "HTLC", "alice", 2, 0), "TimeoutResolve", 0, {"alice"}),
         Proven(Transfer(4, "h", "HTLC", "carol", 11, 0), "EarlyResolve", 0, {"alice", "bob"}),
         Proven(ToStaking(Transfer(5, "h", "HTLC", "bob", 1, 2), FALSE), "RegularTransfer", 2, {"bob"})},
     rewards |-> {<<>>}]

CreationConfig ==
    [genesis_time |-> 0,
     accounts |-> [a \in {"alice", "staking"} |->
        CASE a = "alice" -> Basic(6) [] a = "staking" -> Staking(1)],
     transactions |->
        {Creates(Transfer(1, "alice", "Basic", "c", 3, 0), "Vesting", VestingTerms("alice", 0, 1, 1, 2)),
         Signed(Transfer(2, "c", "Vesting", "bob", 2, 1), {"alice"}),
         Transfer(3, "alice", "Basic", "c", 2, 1),
         ToStaking(Transfer(4, "carol", "Basic", "bob", 0, 0), TRUE),
         Creates(Transfer(5, "alice", "Basic", "d", 2, 1), "HTLC", HTLCTerms("alice", "bob", 1, 5, 2))},
     rewards |-> {<<>>, Reward("carol")}]

AccountsConfigurations == {VestingConfig, HTLCConfig, CreationConfig}

A == INSTANCE Accounts WITH
    Configurations <- AccountsConfigurations, MaxHeight <- 3, MaxBlockTxs <- 2,
    Precision <- 17

-----------------------------------------------------------------------------
(* Small instances of Trie: keys that are prefixes of one another, keys    *)
(* that part late, hybrid nodes, and blocks that create and remove keys in *)
(* the complete and in the missing part while chunks arrive.               *)
Write(k, v) == <<<<k, v>>>>
Writes(keys) == {Write(k, v) : k \in keys, v \in {None, 2}}

TrieBase ==
    [genesis |-> (<<1>> :> 1) @@ (<<1, 0>> :> 1) @@ (<<1, 1>> :> 1) @@ (<<2, 1>> :> 1),
     writes |-> {}, limits |-> {1}, maxBlocks |-> 1, resets |-> FALSE, proofs |-> {}, ranges |-> {}]

\* One block of any kind, with chunks of several sizes and every proof.
Kinds ==
    [TrieBase EXCEPT
        !.writes = Writes({<<1>>, <<1, 0>>, <<1, 1>>, <<2, 1>>, <<2>>, <<1, 2>>, <<2, 0>>})
            \union {<<<<(<<1>>), 2>>, <<(<<1>>), None>>>>, <<<<(<<2>>), 2>>, <<(<<2>>), None>>>>,
                    <<<<(<<1, 0>>), None>>, <<(<<1, 1>>), None>>, <<(<<2, 2>>), 2>>>>},
        !.limits = {1, 3},
        !.proofs = {{}} \union {{a, b} : a, b \in {<<1>>, <<1, 0>>, <<1, 2>>, <<2>>, <<2, 1>>, <<0>>}},
        !.ranges = {<<(<<1, 0>>), (<<2, 2>>)>>, <<(<<1, 1>>), (<<1, 2>>)>>}]

\* Two blocks about a branch that the chunks cut through.
Cut ==
    [TrieBase EXCEPT
        !.genesis = (<<0, 1>> :> 1) @@ (<<1, 0, 0>> :> 1) @@ (<<1, 0, 2>> :> 1) @@ (<<1, 2>> :> 1),
        !.writes = {Write(<<1, 0, 0>>, None), Write(<<1, 0, 2>>, None), Write(<<1, 0>>, 2),
                    Write(<<1, 1>>, 2), Write(<<1, 2>>, None)},
        !.maxBlocks = 2]

\* The trie is emptied and filled again; the node starts over.
Emptied ==
    [TrieBase EXCEPT
        !.genesis = (<<1, 1>> :> 1) @@ (<<1, 2>> :> 1),
        !.writes = {Write(<<1, 1>>, None), Write(<<1, 2>>, None), Write(<<1, 2>>, 1)},
        !.maxBlocks = 2, !.resets = TRUE]

TrieConfigurations == {Kinds, Cut, Emptied}

R == INSTANCE Trie WITH
    RADIX <- 3, Configurations <- TrieConfigurations

-----------------------------------------------------------------------------
(***************************************************************************)
(* Lists of up to six distinct sorted items and of up to four repeated      *)
(* ones, one list of up to 18 items for paths of more than one byte, and    *)
(* chunks of one to four items.                                             *)
(***************************************************************************)
Sorted(n) == [sorted |-> TRUE, items |-> {}, chunk_size |-> n, max_len |-> 6, pops |-> FALSE, proofs |-> n = 1]

MerkleLong == [Sorted(5) EXCEPT !.max_len = 18]

MerkleMixed == [sorted |-> FALSE, items |-> {2, 4}, chunk_size |-> 2, max_len |-> 4, pops |-> FALSE, proofs |-> TRUE]

Popping == [MerkleMixed EXCEPT !.max_len = 6, !.pops = TRUE, !.proofs = FALSE]

MerkleConfigurations == {Sorted(1), Sorted(2), Sorted(3), Sorted(4), MerkleLong, MerkleMixed, Popping}

M == INSTANCE Merkle WITH
    BYTE <- 4, Configurations <- MerkleConfigurations

-----------------------------------------------------------------------------
(***************************************************************************)
(* Small trees.  Proving: every set of leaves of trees with up to seven       *)
(* leaves, for every earlier state.  Mixed: two items, so leaves can be     *)
(* confused.  Removing and Downloading: a tree that is cut back and         *)
(* extended differently while it is rebuilt from range proofs; Long:        *)
(* seven leaves, three peaks.                                               *)
(***************************************************************************)
Proving == [items |-> {1}, max_leaves |-> 7, removals |-> FALSE, proofs |-> TRUE, downloads |-> FALSE]

MMRMixed == [Proving EXCEPT !.items = {1, 2}, !.max_leaves = 5]

Peaks == [MMRMixed EXCEPT !.proofs = FALSE, !.max_leaves = 7]

Downloading == [items |-> {1, 2}, max_leaves |-> 4, removals |-> TRUE, proofs |-> FALSE, downloads |-> TRUE]

MMRLong == [Downloading EXCEPT !.items = {1}, !.max_leaves = 7, !.removals = FALSE]

MMRConfigurations == {Proving, MMRMixed, Peaks, Downloading, MMRLong}

MMRItems == {1, 2}

P == INSTANCE MMR WITH
    Items <- MMRItems, MAX_MMR_SIZE <- 1000,
    Configurations <- MMRConfigurations

-----------------------------------------------------------------------------
(* Keys of up to six nibbles in three bytes.                               *)
K == INSTANCE KeyNibbles WITH
    NIBBLE <- 2, MAX_BYTES <- 3, a <- key_a, b <- key_b, sa <- seq_a,
    sb <- seq_b

-----------------------------------------------------------------------------
(***************************************************************************)
(* Small instances of HistoryStore: epochs of two batches of three blocks, *)
(* a validity window of one batch. A node that pushes blocks and turns the *)
(* index on, one that adopts histories over its own blocks, and one that   *)
(* does not keep the history of old epochs.                                *)
(***************************************************************************)
Item(kind, id, n) == [kind |-> kind, id |-> id, block |-> n]

Ann == "a"
Bob == "b"

HistoryStoreTx ==
    [s |-> [sender |-> Ann, recipient |-> Bob, start |-> 3, fee |-> 1, large |-> FALSE],
     t |-> [sender |-> Bob, recipient |-> Ann, start |-> 6, fee |-> 2, large |-> TRUE],
     u |-> [sender |-> Ann, recipient |-> Ann, start |-> 1, fee |-> 1, large |-> FALSE],
     v |-> [sender |-> Bob, recipient |-> Bob, start |-> 11, fee |-> 4, large |-> FALSE]]

BasicS == <<"basic", "s">>
BasicT == <<"basic", "t">>
BasicV == <<"basic", "v">>
Penalty == <<"penalize", "w">>

HistoryStoreBase ==
    [epochs |-> 3, last |-> 9, pre |-> <<>>, indexed |-> TRUE, restarts |-> {},
     keep_history |-> TRUE, max_epochs_stored |-> 1, rewarded |-> Bob,
     skip |-> <<Penalty>>, bodies |-> {<<>>}, chains |-> {}, addresses |-> {Ann, Bob}]

(* Transactions, an equivocation and skip blocks, with items from before   *)
(* the genesis block; the index is turned on at some point.                *)
Pushing ==
    [HistoryStoreBase EXCEPT !.pre = <<Item("basic", "u", 1), Item("reward", Bob, 2)>>, !.indexed = FALSE,
                 !.restarts = {TRUE}, !.last = 10,
                 !.bodies = {<<>>, <<BasicS>>, <<BasicT, <<"equivocation", "e">>>>, <<BasicS, BasicT>>}]

NoTxs == <<>>

(* Histories adopted over the own blocks. *)
Adopting ==
    [HistoryStoreBase EXCEPT !.last = 11, !.bodies = {<<>>, <<BasicS>>, <<BasicT>>},
                 !.chains =
                     {<<NoTxs, NoTxs, NoTxs, NoTxs, NoTxs, NoTxs, NoTxs, <<BasicV>>, NoTxs>>,
                      <<<<BasicS>>, NoTxs, NoTxs, <<BasicT>>, NoTxs, NoTxs, NoTxs, NoTxs, NoTxs>>,
                      <<NoTxs, <<BasicS>>, NoTxs, NoTxs, <<BasicT>>, NoTxs, <<BasicV>>, NoTxs, NoTxs>>,
                      <<<<BasicS>>, <<BasicT>>, NoTxs, NoTxs, <<Penalty>>, NoTxs, NoTxs, NoTxs, NoTxs>>,
                      <<<<BasicS, BasicT>>, NoTxs, NoTxs, NoTxs, NoTxs, NoTxs, NoTxs, NoTxs, NoTxs>>}]

(* Ann node that keeps one epoch. *)
Pruning == [HistoryStoreBase EXCEPT !.keep_history = FALSE, !.last = 15, !.bodies = {<<>>, <<BasicV>>}]

HistoryStoreConfigurations == {Pushing, Adopting, Pruning}

H == INSTANCE HistoryStore WITH
    blocks_per_batch <- 3, batches_per_epoch <- 2, genesis_block_number <- 2,
    transaction_validity_window <- 1, JAIL_EPOCHS <- 1, U32_MAX <- 1000,
    Tx <- HistoryStoreTx, Configurations <- HistoryStoreConfigurations

-----------------------------------------------------------------------------
(* In each behaviour one part takes steps; the variables of the others are idle. *)
StoreInit ==
    \/ /\ part = "accounts" /\ part \in Parts
       /\ A!Init
       /\ full = None /\ partial = None /\ blocks = None /\ last = None /\
          values = None /\ popped = None /\ leaves = None /\
          light = None /\ origin = None /\ sent = None /\ key_a = None /\
          key_b = None /\ seq_a = None /\ seq_b = None /\
          accounts = None /\ cum_tx_fees = None /\ db = None /\
          indexed = None /\ pruned = None /\ outcome = None
    \/ /\ part = "trie" /\ part \in Parts
       /\ R!Init
       /\ tree = None /\ chain = None /\ panicked = None /\
          values = None /\ popped = None /\ leaves = None /\
          light = None /\ origin = None /\ sent = None /\ key_a = None /\
          key_b = None /\ seq_a = None /\ seq_b = None /\
          accounts = None /\ cum_tx_fees = None /\ db = None /\
          indexed = None /\ pruned = None /\ outcome = None
    \/ /\ part = "merkle" /\ part \in Parts
       /\ M!Init
       /\ chain = None /\ panicked = None /\ full = None /\
          partial = None /\ blocks = None /\ last = None /\
          leaves = None /\ light = None /\ origin = None /\ sent = None /\
          key_a = None /\ key_b = None /\ seq_a = None /\ seq_b = None /\
          accounts = None /\ cum_tx_fees = None /\ db = None /\
          indexed = None /\ pruned = None /\ outcome = None
    \/ /\ part = "mmr" /\ part \in Parts
       /\ P!Init
       /\ chain = None /\ panicked = None /\ full = None /\
          blocks = None /\ last = None /\ values = None /\ popped = None /\
          key_a = None /\ key_b = None /\ seq_a = None /\ seq_b = None /\
          accounts = None /\ cum_tx_fees = None /\ db = None /\
          indexed = None /\ pruned = None /\ outcome = None
    \/ /\ part = "keys" /\ part \in Parts
       /\ K!Init
       /\ config = None /\ tree = None /\ chain = None /\
          full = None /\ partial = None /\
          blocks = None /\ last = None /\ values = None /\ popped = None /\
          leaves = None /\ light = None /\ origin = None /\ sent = None /\
          accounts = None /\ cum_tx_fees = None /\ db = None /\
          indexed = None /\ pruned = None /\ outcome = None
    \/ /\ part = "history" /\ part \in Parts
       /\ H!Init
       /\ tree = None /\ panicked = None /\ full = None /\
          partial = None /\ blocks = None /\ last = None /\
          values = None /\ popped = None /\ leaves = None /\
          light = None /\ origin = None /\ sent = None /\ key_a = None /\
          key_b = None /\ seq_a = None /\ seq_b = None

StoreNext ==
    \/ /\ part = "accounts" /\ A!Next
       /\ UNCHANGED <<part, full, partial, blocks, last, values, popped, leaves, light,
          origin, sent, key_a, key_b, seq_a, seq_b, accounts, cum_tx_fees, db,
          indexed, pruned, outcome>>
    \/ /\ part = "trie" /\ R!Next
       /\ UNCHANGED <<part, tree, chain, panicked, values, popped, leaves, light, origin,
          sent, key_a, key_b, seq_a, seq_b, accounts, cum_tx_fees, db,
          indexed, pruned, outcome>>
    \/ /\ part = "merkle" /\ M!Next
       /\ UNCHANGED <<part, chain, panicked, full, partial, blocks, last, leaves, light,
          origin, sent, key_a, key_b, seq_a, seq_b, accounts, cum_tx_fees, db,
          indexed, pruned, outcome>>
    \/ /\ part = "mmr" /\ P!Next
       /\ UNCHANGED <<part, chain, panicked, full, blocks, last, values, popped, key_a,
          key_b, seq_a, seq_b, accounts, cum_tx_fees, db, indexed, pruned,
          outcome>>
    \/ /\ part = "keys" /\ K!Next
       /\ UNCHANGED <<part, config, tree, chain, full, partial, blocks, last,
          values, popped, leaves, light, origin, sent, accounts, cum_tx_fees,
          db, indexed, pruned, outcome>>
    \/ /\ part = "history" /\ H!Next
       /\ UNCHANGED <<part, tree, panicked, full, partial, blocks, last, values, popped,
          leaves, light, origin, sent, key_a, key_b, seq_a, seq_b>>

all_vars ==
    <<part, config, tree, chain, panicked, full, partial, blocks, last,
      values, popped, leaves, light, origin, sent, key_a, key_b, seq_a, seq_b,
      accounts, cum_tx_fees, db, indexed, pruned, outcome>>

StoreSpec == StoreInit /\ [][StoreNext]_all_vars

-----------------------------------------------------------------------------
(* Committing blocks of any transactions never panics, creates or destroys *)
(* coins, or pays out what vesting and HTLC contracts still lock;          *)
(* reverting a block restores what was before it, and what the             *)
(* reservations of the mempool admit can be committed.                     *)
AccountsAreSound ==
    part = "accounts" =>
       A!TypeOK /\ A!NoPanic /\ A!CoinsAreConserved /\
       A!VestingStaysLocked /\ A!HTLCPaysRevealedShare /\
       A!RevertUndoesCommit /\ A!ReservedAreCommittable

(* After any updates, chunks, diffs and reverts the trie has the root,     *)
(* counts, diffs and proofs of its contents, without a panic, and iterates *)
(* them in order while no longer key sorts before the end; the nibbles of  *)
(* its keys are ordered and cut as the bytes are. A slice of nothing from  *)
(* an odd position panics, and a proof that a key is absent below a leaf   *)
(* is refused.                                                             *)
TrieIsExact ==
    /\ part = "keys" =>
          K!NibblesAreRight /\ K!TypeOK /\ K!OrderIsLexicographic /\
          K!RoundTrips /\ K!PanicsOnEmptyOdd
    /\ part = "trie" =>
          R!TypeOK /\ R!NoPanic /\ R!RootIsOfContents /\ R!CountsAreExact /\
          R!DiffIsExact /\ R!ProofsVerify /\ R!IterationIsExact

(* A trie with missing parts always holds what the complete trie has in    *)
(* the parts it knows, never calls a wrong root right, and takes every     *)
(* honest chunk and diff.                                                  *)
PartialTrieFollows ==
    part = "trie" =>
       R!PartialFollows /\ R!RootNeverWrong /\ R!HonestInputsApply

(* Roots, paths, proofs and chunks of Merkle trees and of mountain ranges  *)
(* are those of their leaves: what is proved is verified, except chunks    *)
(* of a builder that popped or holds one item, which may be refused; no    *)
(* proof fits another leaf or gives another root; and a partial range is a *)
(* prefix that a download can always extend.                               *)
TreesAreExact ==
    /\ part = "merkle" =>
          M!TypeOK /\ M!RootIsOfItems /\ M!PathsVerify /\ M!ProofsVerify /\
          M!AbsenceIsShown /\ M!PartialChunksVerify /\
          M!IncrementalChunksVerify
    /\ part = "mmr" =>
          P!TypeOK /\ P!RootIsOfLeaves /\ P!ProofsVerify /\ P!ProofsBind /\
          P!PartialIsPrefix /\ P!DownloadProgresses /\ P!LeavesAreFound

(* The history store, its validity window and its index always tell the    *)
(* main chain, through reverts, pushed epochs and restarts, accounts and   *)
(* fees follow them, and a history whose start is known is adopted.        *)
HistoryIsExact ==
    part = "history" =>
       H!TypeOK /\ H!StoreTellsChain /\ H!WindowIsExact /\
       H!IndexIsExact /\ H!AccountsFollowHistory /\ H!FeesAreBatch /\
       H!KnownPrefixIsAdopted
=============================================================================
