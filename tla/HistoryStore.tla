---------------------------- MODULE HistoryStore ----------------------------
(***************************************************************************)
(* The history store of a full node (blockchain/src/history) and the ways  *)
(* the blockchain fills it: pushing and reverting blocks, and adopting the *)
(* history of macro blocks (history_sync.rs). A node that synchronizes     *)
(* macro blocks and the validity window alone is in LightSync.tla.         *)
(*                                                                         *)
(* Every epoch has a history tree, a Merkle mountain range over the        *)
(* historic transactions; MMR.tla shows that its root stands for the       *)
(* sequence of its leaves, so the tree is that sequence here. Historic     *)
(* transactions are records; their hashes are symbolic.                    *)
(***************************************************************************)
EXTENDS Policy, Sequences, FiniteSets, SequencesExt, FiniteSetsExt, TLC

CONSTANTS
    None,
    Tx,               \* basic transactions: sender, recipient, start, fee, large
    Configurations    \* see Init

VARIABLES
    config,
    chain,            \* the items of each block after the genesis block
    accounts,         \* the blocks applied to the accounts, and how
    cum_tx_fees,      \* of the ChainInfo of each block, None where there is none
    db,               \* the tables of the main store
    indexed,          \* whether the node runs with the index
    pruned,           \* epochs whose history was removed
    outcome           \* how the last operation ended

vars == <<config, chain, accounts, cum_tx_fees, db, indexed, pruned, outcome>>

Without(f, keys) == [k \in DOMAIN f \ keys |-> f[k]]

Epochs == 0 .. config.epochs

-----------------------------------------------------------------------------
(* Historic transactions. *)

Item(kind, id, n) == [kind |-> kind, id |-> id, block |-> n]

(* The hash of an equivocation does not depend on the block. *)
tx_hash(item) ==
    CASE item.kind = "basic" -> <<"raw", item.id>>
      [] item.kind = "equivocation" -> <<"event", "equivocation", item.id>>
      [] OTHER -> <<"event", item.kind, item.id, item.block>>

DefaultHash == <<"default">>

(* Too large for the value of a table with duplicates. *)
IsOversized(item) == item.kind = "basic" /\ Tx[item.id].large

Addresses(item) ==
    CASE item.kind = "basic" -> {Tx[item.id].sender, Tx[item.id].recipient}
      [] item.kind = "reward" -> {item.id}
      [] OTHER -> {}

is_valid_at(id, n) ==
    /\ n >= Tx[id].start - blocks_per_batch
    /\ n < Tx[id].start + transaction_validity_window_blocks

-----------------------------------------------------------------------------
(* ValidityStore *)

Blocks(d) == {entry[1] : entry \in d.block_txns}

first_bn(d) == IF d.block_txns = {} THEN 0 ELSE Min(Blocks(d))

last_bn(d) == IF d.block_txns = {} THEN 0 ELSE Max(Blocks(d))

Lookback == transaction_validity_window_blocks + blocks_per_batch

has_transaction(d, hash) ==
    /\ hash \in DOMAIN d.txn_hashes
    /\ d.txn_hashes[hash] > last_bn(d) - Lookback

add_transactions(d, items) ==
    LET hashes == {tx_hash(items[i]) : i \in DOMAIN items}
        block(h) == items[Max({i \in DOMAIN items : tx_hash(items[i]) = h})].block
    IN  [d EXCEPT !.txn_hashes = [h \in hashes |-> block(h)] @@ @,
                  !.block_txns = @ \cup {<<items[i].block, tx_hash(items[i])>>
                                            : i \in DOMAIN items}]

delete_block_transactions(d, blocks) ==
    [d EXCEPT !.txn_hashes = Without(@, {entry[2] : entry \in {f \in d.block_txns :
                                                                 f[1] \in blocks}}),
              !.block_txns = {entry \in @ : entry[1] \notin blocks}]

(* Mutant: no room for transactions that are valid a batch ahead. *)
prune_validity_store_window(d) ==
    LET count == last_bn(d) - first_bn(d) + 1 - transaction_validity_window_blocks
    IN  delete_block_transactions(d, first_bn(d) .. first_bn(d) + count - 1)

prune_validity_store(d) ==
    LET count == last_bn(d) - first_bn(d) + 1 - Lookback
    IN  delete_block_transactions(d, first_bn(d) .. first_bn(d) + count - 1)

update_validity_store(d, latest) ==
    prune_validity_store(
        IF latest > last_bn(d) THEN [d EXCEPT !.block_txns = @ \cup {<<latest, DefaultHash>>}]
        ELSE d)

-----------------------------------------------------------------------------
(* HistoryStore: one table of trees, one of transactions with a marker in  *)
(* place of the oversized ones, and the last leaf index of each block.     *)

EmptyDb ==
    [trees |-> [e \in Epochs |-> <<>>], txs |-> [e \in Epochs |-> <<>>], oversized |-> <<>>,
     last_leaf |-> <<>>, txn_hashes |-> <<>>, block_txns |-> {}, by_hash |-> <<>>,
     by_address |-> {}]

num_leaves(d, e) == Len(d.trees[e])

Marker == [oversized |-> TRUE]

load_historic_tx(d, e, i) ==
    IF i \notin DOMAIN d.txs[e] THEN None
    ELSE IF d.txs[e][i] # Marker THEN d.txs[e][i]
    ELSE IF <<e, i>> \in DOMAIN d.oversized THEN d.oversized[<<e, i>>]
    ELSE None

get_historic_txns(d, e, first, end) ==
    [i \in 1 .. end - first |-> load_historic_tx(d, e, first + i - 1)]

(* The range of leaf indices of a block, the end excluded. *)
get_indexes_for_block(d, n) ==
    LET before == {b \in DOMAIN d.last_leaf : b < n}
        start == IF epoch_index_at(n) = 0 \/ before = {} THEN 0
                 ELSE IF epoch_at(Max(before)) # epoch_at(n) THEN 0
                 ELSE d.last_leaf[Max(before)] + 1
    IN  IF n \notin DOMAIN d.last_leaf THEN <<0, 0>> ELSE <<start, d.last_leaf[n] + 1>>

(* Items of a later block or of another epoch are rejected: None.         *)
put_historic_txns(d, e, n, items) ==
    LET first == num_leaves(d, e)
        indices == {first + i - 1 : i \in DOMAIN items}
        item(i) == items[i - first + 1]
        blocks == {items[i].block : i \in DOMAIN items}
        last(b) == Max({i \in indices : item(i).block = b})
        stored == [d EXCEPT
            !.trees[e] = @ \o items,
            !.txs[e] = [i \in indices |-> IF IsOversized(item(i)) THEN Marker ELSE item(i)] @@ @,
            !.oversized = [k \in {<<e, i>> : i \in {j \in indices : IsOversized(item(j))}}
                              |-> item(k[2])] @@ @,
            !.last_leaf = [b \in blocks |-> last(b)] @@ @]
    IN  IF \E b \in blocks : b > n \/ epoch_at(b) # epoch_at(n) THEN None
        ELSE update_validity_store(add_transactions(stored, items), n)

(* remove_txns_from_history, for one leaf of the tree. *)
RemoveLeaf(d, e, i) ==
    LET item == load_historic_tx(d, e, i)
        range == get_indexes_for_block(d, item.block)
    IN  IF i \notin DOMAIN d.txs[e] THEN d
        ELSE [d EXCEPT !.txs[e] = Without(@, {i}),
                       !.oversized = Without(@, {<<e, i>>}),
                       !.last_leaf = IF range[2] - range[1] = 1 THEN Without(@, {item.block})
                                     ELSE [@ EXCEPT ![item.block] = i - 1]]

(* The leaves from `first` on, the last one first. *)
remove_txns_from_history(d, e, first, end) ==
    FoldLeft(LAMBDA acc, k : RemoveLeaf(acc, e, end - k), d, [k \in 1 .. end - first |-> k])

remove_epoch_from_history(d, e) ==
    [d EXCEPT !.txs[e] = <<>>,
              !.oversized = Without(@, {k \in DOMAIN @ : k[1] = e}),
              !.last_leaf = Without(@, {b \in DOMAIN @ : epoch_at(b) = e})]

-----------------------------------------------------------------------------
(* HistoryStoreIndex *)

put_historic_tx(d, e, i, item) ==
    [d EXCEPT !.by_hash = (tx_hash(item) :> <<e, i>>) @@ @,
              !.by_address = @ \cup {<<a, <<e, i>>, tx_hash(item)>> : a \in Addresses(item)}]

IndexLeaves(d, e, first) ==
    FoldLeft(LAMBDA acc, k : put_historic_tx(acc, e, k - 1, d.trees[e][k]),
             d, [k \in 1 .. num_leaves(d, e) - first |-> first + k])

(* remove_txns_from_history of the index. *)
UnindexLeaves(d, e, first) ==
    LET leaves == {k \in first + 1 .. num_leaves(d, e) : k - 1 \in DOMAIN d.txs[e]}
    IN  [d EXCEPT !.by_hash = Without(@, {tx_hash(d.trees[e][k]) : k \in leaves}),
                  !.by_address = @ \ UNION {{<<a, <<e, k - 1>>, tx_hash(d.trees[e][k])>>
                                                : a \in Addresses(d.trees[e][k])}
                                            : k \in leaves}]

rebuild_index(d) ==
    FoldLeft(LAMBDA acc, e : IndexLeaves(acc, e, 0),
             [d EXCEPT !.by_hash = <<>>, !.by_address = {}],
             [e \in 1 .. config.epochs |-> e])

(* Whether the last transaction of the last epoch is in the index. *)
rebuild_index_if_necessary(d) ==
    LET used == {e \in Epochs : d.txs[e] # <<>>}
        e == Max(used)
        last == load_historic_tx(d, e, Max(DOMAIN d.txs[e]))
    IN  IF used = {} THEN d
        ELSE IF tx_hash(last) \in DOMAIN d.by_hash THEN d
        ELSE rebuild_index(d)

-----------------------------------------------------------------------------
(* HistoryInterface. *)

(* HistoryStoreProxy: each operation is that of the store with an index or *)
(* of the one without.                                                     *)
WithIndex(with_index, without) == IF indexed THEN with_index ELSE without

add_to_history(d, n, items) ==
    LET e == epoch_at(n)
        added == put_historic_txns(d, e, n, items)
    IN  IF added = None THEN None
        ELSE WithIndex(IndexLeaves(added, e, num_leaves(d, e)), added)

remove_partial_history(d, e, count) ==
    LET first == num_leaves(d, e) - Min({count, num_leaves(d, e)})
        unindexed == WithIndex(UnindexLeaves(d, e, first), d)
        kept == remove_txns_from_history(unindexed, e, first, num_leaves(d, e))
    IN  [kept EXCEPT !.trees[e] = SubSeq(@, 1, first)]

remove_history(d, e) ==
    LET unindexed == WithIndex(UnindexLeaves(d, e, 0), d)
        kept == remove_epoch_from_history(unindexed, e)
    IN  [kept EXCEPT !.trees[e] = <<>>]

add_block(d, n, items) == add_to_history(d, n, items)

remove_block(d, n, items) ==
    delete_block_transactions(remove_partial_history(d, epoch_at(n), Len(items)), {n})

-----------------------------------------------------------------------------
(* Queries of one store. *)

get_epoch_transactions(d, e) == get_historic_txns(d, e, 0, num_leaves(d, e))

get_block_transactions(d, n) ==
    LET range == get_indexes_for_block(d, n)
    IN  get_historic_txns(d, epoch_at(n), range[1], range[2])

(* The last block of the epoch, up to n, that has leaves tells. *)
num_epoch_transactions_before(d, n) ==
    LET ranges == [b \in {b \in 0 .. n : epoch_at(b) = epoch_at(n)} |->
                      get_indexes_for_block(d, b)]
        used == {b \in DOMAIN ranges : ranges[b][1] # ranges[b][2]}
    IN  IF used = {} THEN 0 ELSE ranges[Max(used)][2]

get_epoch_transactions_after(d, n) ==
    LET e == epoch_at(n)
    IN  get_historic_txns(d, e, num_epoch_transactions_before(d, n), num_leaves(d, e))

length_at(d, n) ==
    LET before == {b \in DOMAIN d.last_leaf : b < n}
    IN  IF n \in DOMAIN d.last_leaf THEN d.last_leaf[n] + 1
        ELSE IF before = {} THEN None
        ELSE IF epoch_at(Max(before)) = epoch_at(n) THEN d.last_leaf[Max(before)] + 1
        ELSE 0

(* The history of the chunk; its proof is one of MMR.tla. *)
prove_chunk(d, e, verifier, size, index) ==
    LET count == length_at(d, verifier)
        start == Min({size * index, count})
    IN  IF count = None THEN None
        ELSE get_historic_txns(d, e, start, Min({start + size, count}))

get_hist_tx_by_hash(d, hash) ==
    IF hash \notin DOMAIN d.by_hash THEN None
    ELSE load_historic_tx(d, d.by_hash[hash][1], d.by_hash[hash][2])

Before(i, j) == i[1] < j[1] \/ (i[1] = j[1] /\ i[2] < j[2])

(* The hashes of at most max entries, from the most recent on. *)
Newest(found, max) ==
    LET later(entry) == {other \in found : Before(entry[2], other[2])}
    IN  [k \in 1 .. Min({max, Cardinality(found)}) |->
            (CHOOSE entry \in found : Cardinality(later(entry)) = k - 1)[3]]

(* From the most recent to the least recent, the start excluded. *)
tx_hashes_by_address(d, address, max, start_at) ==
    LET all == {entry \in d.by_address : entry[1] = address}
        known == start_at \in DOMAIN d.by_hash
        from == d.by_hash[start_at]
    IN  Newest(IF start_at = None THEN all
               ELSE IF known => ~\E entry \in all : entry[2] = from THEN {}
               ELSE {entry \in all : Before(entry[2], from)},
               max)

-----------------------------------------------------------------------------
(* HistoryStoreMerger: the items before the genesis block are in a         *)
(* read-only store of their own, without a validity store.                 *)

PreGenesis ==
    LET d == put_historic_txns(EmptyDb, 0, genesis_block_number, config.pre)
    IN  WithIndex(IndexLeaves(d, 0, 0), d)

StoreOf(e) == IF e = 0 THEN PreGenesis ELSE db

merged_by_hash(hash) ==
    LET found == get_hist_tx_by_hash(db, hash)
    IN  IF found # None THEN found ELSE get_hist_tx_by_hash(PreGenesis, hash)

(* The older store starts at the given hash only if the main one does not  *)
(* have it.                                                                *)
Continued(main, address, max, start_at) ==
    IF Len(main) < max
    THEN main \o tx_hashes_by_address(PreGenesis, address, max - Len(main),
             IF main = <<>> /\ get_hist_tx_by_hash(db, start_at) = None THEN start_at ELSE None)
    ELSE main

merged_by_address(address, max, start_at) ==
    Continued(tx_hashes_by_address(db, address, max, start_at), address, max, start_at)

tx_in_validity_window(id) == has_transaction(db, <<"raw", id>>)

-----------------------------------------------------------------------------
(* The blockchain. *)

head == genesis_block_number + Len(chain)

ItemsAt(c, n) == c[n - genesis_block_number]

(* HistoricTransaction::from: the items of a block with this body. *)
Items(body, n) == [i \in DOMAIN body |-> Item(body[i][1], body[i][2], n)]

first_checkpoint == macro_block_after(genesis_block_number)

(* The inherents that a macro block has in the history: rewards of the     *)
(* batch before the last one, which the first checkpoint does not have.    *)
MacroItems(n) == IF n = first_checkpoint THEN <<>> ELSE <<Item("reward", config.rewarded, n)>>

Fees(items) ==
    FoldLeft(LAMBDA acc, item : IF item.kind = "basic" THEN acc + Tx[item.id].fee ELSE acc,
             0, items)

(* What a block does to the accounts; equivocation events do nothing. *)
Effect(n, items) ==
    [number |-> n,
     items |-> SelectSeq(items, LAMBDA item : item.kind # "equivocation"),
     finalize |-> IF is_election_block_at(n) THEN {"batch", "epoch"}
                  ELSE IF is_macro_block_at(n) THEN {"batch"} ELSE {}]

commit_accounts(acc, n, items) ==
    LET effect == Effect(n, items)
    IN  IF effect.items = <<>> /\ effect.finalize = {} THEN acc ELSE Append(acc, effect)

revert_accounts(acc, n) == SelectSeq(acc, LAMBDA effect : effect.number # n)

(* ChainInfo::from_block *)
NextFees(c, items) ==
    Append(c, Fees(items) + (IF c = <<>> \/ is_macro_block_at(genesis_block_number + Len(c))
                             THEN 0 ELSE c[Len(c)]))

Acceptable(d, items, n) ==
    \A i \in DOMAIN items :
        items[i].kind = "basic" =>
            is_valid_at(items[i].id, n) /\ ~has_transaction(d, tx_hash(items[i]))

(* A micro block, or a skip block if its body is a penalty. *)
Push(body) ==
    LET n == head + 1
        items == Items(body, n)
    IN  /\ n <= config.last
        /\ is_micro_block_at(n)
        /\ Acceptable(db, items, n)
        /\ db' = add_block(db, n, items)
        /\ accounts' = commit_accounts(accounts, n, items)
        /\ chain' = Append(chain, items)
        /\ cum_tx_fees' = NextFees(cum_tx_fees, items)
        /\ outcome' = "extended"
        /\ UNCHANGED <<config, indexed, pruned>>

(* A macro block; an election block removes the history of an old epoch    *)
(* from a node that does not keep it.                                      *)
PushMacro ==
    LET n == head + 1
        items == MacroItems(n)
        old == epoch_at(n) - config.max_epochs_stored
        prunes == is_election_block_at(n) /\ ~config.keep_history /\ old > 0
        added == add_block(db, n, items)
    IN  /\ n <= config.last
        /\ is_macro_block_at(n)
        /\ db' = IF prunes THEN remove_history(added, old) ELSE added
        /\ pruned' = IF prunes THEN pruned \cup {old} ELSE pruned
        /\ accounts' = commit_accounts(accounts, n, items)
        /\ chain' = Append(chain, items)
        /\ cum_tx_fees' = NextFees(cum_tx_fees, items)
        /\ outcome' = "extended"
        /\ UNCHANGED <<config, indexed>>

(* The blocks from the head down to `first`, one by one. *)
revert_blocks(d, acc, first) ==
    FoldLeft(LAMBDA s, k : [d |-> remove_block(s.d, head - k, ItemsAt(chain, head - k)),
                            acc |-> revert_accounts(s.acc, head - k)],
             [d |-> d, acc |-> acc], [k \in 1 .. head - first + 1 |-> k - 1])

(* A skip block is better than any other block `first`. *)
Rebranch(first) ==
    LET done == revert_blocks(db, accounts, first)
        kept == SubSeq(chain, 1, first - genesis_block_number - 1)
        fees == SubSeq(cum_tx_fees, 1, first - genesis_block_number - 1)
        items == Items(config.skip, first)
    IN  /\ first \in last_macro_block(head) + 1 .. head
        /\ ItemsAt(chain, first) # items
        /\ db' = add_block(done.d, first, items)
        /\ accounts' = commit_accounts(done.acc, first, items)
        /\ chain' = Append(kept, items)
        /\ cum_tx_fees' = NextFees(fees, items)
        /\ outcome' = "rebranched"
        /\ UNCHANGED <<config, indexed, pruned>>

-----------------------------------------------------------------------------
(* Adopting the history of a macro block. *)

Concat(c, first, last) ==
    FlattenSeq([k \in 1 .. last - first + 1 |-> ItemsAt(c, first + k - 1)])

EpochStart(n) == IF epoch_at(n) = 0 THEN 0 ELSE election_block_before(n) + 1

(* The items of the epoch of block n up to n in a chain. *)
HistoryOf(c, n) == Concat(c, EpochStart(n), n)

SkipBefore(history, n) == Len(SelectSeq(history, LAMBDA item : item.block < n))

(* Where the known and the given items part, None if one continues the     *)
(* other with a new block.                                                 *)
DivergingBlock(known, given) ==
    LET both == 1 .. Min({Len(known), Len(given)})
        parts == {i \in both : known[i] # given[i]}
    IN  IF parts # {} THEN known[Min(parts)].block
        ELSE IF Len(known) > Len(given) THEN known[Len(given) + 1].block
        ELSE IF Len(known) < Len(given) /\ known[Len(known)].block = given[Len(known) + 1].block
             THEN known[Len(known)].block
        ELSE None

FirstReverted(known, given) ==
    IF known # <<>> THEN DivergingBlock(known, given)
    ELSE IF is_micro_block_at(head) /\ given # <<>> /\ given[1].block <= head
         THEN given[1].block
    ELSE None

(* The state before the block, and the number of items it has. *)
CommonState(from, known, given, block) ==
    LET state == IF block = None THEN [d |-> db, acc |-> accounts]
                 ELSE revert_blocks(db, accounts, block)
    IN  [d |-> state.d, acc |-> state.acc,
         first |-> IF known = <<>> THEN from
                   ELSE IF block = None THEN from + Len(known)
                   ELSE from + SkipBefore(given, block)]

CommonStateOf(from, known, given) ==
    CommonState(from, known, given, FirstReverted(known, given))

revert_to_common_state(history) ==
    LET last == last_macro_block(head)
        from == SkipBefore(history, last + 1)
    IN  CommonStateOf(from, get_epoch_transactions_after(StoreOf(epoch_at(last)), last),
                      SubSeq(history, from + 1, Len(history)))

(* The blocks to commit, with their items. The first checkpoint may have   *)
(* none, so it is added when the items pass it by.                         *)
BlockStates(items, m) ==
    LET passes == /\ last_macro_block(head) < first_checkpoint
                  /\ \E i \in DOMAIN items : items[i].block > first_checkpoint
        numbers == {items[i].block : i \in DOMAIN items} \cup {m}
                      \cup (IF passes THEN {first_checkpoint} ELSE {})
    IN  [n \in numbers |-> SelectSeq(items, LAMBDA item : item.block = n)]

(* No macro block before an item is missing, and only the last block can   *)
(* be an election block.                                                   *)
StatesFit(states, m) ==
    /\ \A n \in DOMAIN states : states[n] # <<>> =>
           \A b \in last_macro_block(head) + 1 .. n - 1 :
               is_macro_block_at(b) => b \in DOMAIN states
    /\ \A n \in DOMAIN states : is_election_block_at(n) => n = m

Committed(acc, states) ==
    FoldLeft(LAMBDA s, k : IF k \in DOMAIN states THEN commit_accounts(s, k, states[k]) ELSE s,
             acc, [k \in 1 .. config.last |-> k])

(* The accounts after a chain: what its state roots stand for. *)
AccountsOf(c) ==
    FoldLeft(LAMBDA s, k : commit_accounts(s, genesis_block_number + k, c[k]),
             <<>>, [k \in DOMAIN c |-> k])

(* From the end of the history back to the batch before the block's. *)
BatchFees(history, m) ==
    Fees(SelectSeq(history, LAMBDA item : batch_at(item.block) = batch_at(m)))

(* A chain of the network, given by the bodies of its micro blocks. *)
ChainOf(bodies) ==
    [k \in DOMAIN bodies |->
        LET n == genesis_block_number + k
        IN  IF is_macro_block_at(n) THEN MacroItems(n) ELSE Items(bodies[k], n)]

(* Whether macro block m of the chain is a successor of our macro head. *)
verify_macro_successor(c, m) ==
    LET last == last_macro_block(head)
    IN  /\ is_macro_block_at(m)
        /\ m > last
        /\ m <= election_block_after(last)
        /\ m - genesis_block_number <= Len(c)
        /\ SubSeq(c, 1, last - genesis_block_number) = SubSeq(chain, 1, last - genesis_block_number)

(* What extend_history_sync has in its database transaction at the end,    *)
(* and whether the roots are those of the block.                           *)
ExtendedFrom(common, history, c, m) ==
    LET new == SubSeq(history, common.first + 1, Len(history))
        states == BlockStates(new, m)
        acc == Committed(common.acc, states)
        added == add_to_history(common.d, m, new)
    IN  [d |-> added, acc |-> acc,
         ok |-> /\ StatesFit(states, m)
                /\ added # None
                /\ added.trees[epoch_at(m)] = history
                /\ acc = AccountsOf(SubSeq(c, 1, m - genesis_block_number))]

Extended(c, m) ==
    LET history == HistoryOf(c, m)
    IN  ExtendedFrom(revert_to_common_state(history), history, c, m)

(* push_history_sync with the history of macro block m of such a chain. *)
HistorySync(bodies, m) ==
    \E c \in {ChainOf(bodies)} : \E done \in {Extended(c, m)} :
    LET infos == [k \in 1 .. m - genesis_block_number - 1 |->
                     IF k <= last_macro_block(head) - genesis_block_number
                     THEN cum_tx_fees[k] ELSE None]
    IN  /\ verify_macro_successor(c, m)
        /\ IF done.ok
           THEN /\ db' = done.d
                /\ accounts' = done.acc
                /\ chain' = SubSeq(c, 1, m - genesis_block_number)
                /\ cum_tx_fees' = Append(infos, BatchFees(HistoryOf(c, m), m))
                /\ outcome' = "adopted"
           ELSE /\ outcome' = "refused"
                /\ UNCHANGED <<db, accounts, chain, cum_tx_fees>>
        /\ UNCHANGED <<config, indexed, pruned>>

(* A restart of the node with or without the index. *)
Restart(index) ==
    /\ index \in config.restarts
    /\ indexed => index
    /\ indexed' = index
    /\ db' = IF index THEN rebuild_index_if_necessary(db) ELSE db
    /\ outcome' = "restarted"
    /\ UNCHANGED <<config, chain, accounts, cum_tx_fees, pruned>>

Init ==
    /\ config \in Configurations
    /\ chain = <<>>
    /\ accounts = <<>>
    /\ cum_tx_fees = <<>>
    /\ db = EmptyDb
    /\ indexed = config.indexed
    /\ pruned = {}
    /\ outcome = "started"

Next ==
    \/ \E body \in config.bodies : Push(body)
    \/ PushMacro
    \/ \E first \in genesis_block_number + 1 .. head : Rebranch(first)
    \/ \E bodies \in config.chains : \E m \in last_macro_block(head) + 1 .. config.last :
           HistorySync(bodies, m)
    \/ \E index \in BOOLEAN : Restart(index)

Spec == Init /\ [][Next]_vars

-----------------------------------------------------------------------------
(* Properties. *)

Leaves(e) == DOMAIN db.txs[e]

(* Type invariant: the tables of the history store agree with each other:  *)
(* each tree has a transaction per leaf, an oversized one where the marker *)
(* says so, and the last leaf of every block that has leaves.              *)
TypeOK ==
    /\ outcome \in {"started", "extended", "rebranched", "adopted", "refused", "restarted"}
    /\ DOMAIN cum_tx_fees = DOMAIN chain
    /\ \A e \in Epochs : Leaves(e) = 0 .. num_leaves(db, e) - 1
    /\ DOMAIN db.oversized = {k \in UNION {{<<e, i>> : i \in Leaves(e)} : e \in Epochs} :
                                  db.txs[k[1]][k[2]] = Marker}
    /\ \A e \in Epochs : \A i \in Leaves(e) : load_historic_tx(db, e, i) = db.trees[e][i + 1]
    /\ DOMAIN db.last_leaf =
           UNION {{db.trees[e][k].block : k \in 1 .. num_leaves(db, e)} : e \in Epochs}

Held == {n \in genesis_block_number + 1 .. head : epoch_at(n) \notin pruned}

(* The queries of the store tell the main chain, for every block whose     *)
(* epoch has not been removed: the items of a block, those of its epoch up *)
(* to it and after it, and the chunks that are proven to other nodes,      *)
(* which together are the history up to the verifier's block.              *)
StoreTellsChain ==
    /\ \A n \in Held :
        LET before == HistoryOf(chain, n)
            all == get_epoch_transactions(db, epoch_at(n))
            length == length_at(db, n)
            chunk(k) == prove_chunk(db, epoch_at(n), n, 2, k - 1)
        IN  /\ get_block_transactions(db, n) = ItemsAt(chain, n)
            /\ num_epoch_transactions_before(db, n) = Len(before)
            /\ SubSeq(all, 1, Len(before)) = before
            /\ get_epoch_transactions_after(db, n) = SubSeq(all, Len(before) + 1, Len(all))
            /\ IF length = None THEN before = <<>> ELSE length = Len(before)
            /\ length # None =>
                   FlattenSeq([k \in 1 .. Len(before) + 1 |-> chunk(k)]) = before
    /\ \A n \in Held : n = head => get_epoch_transactions(db, epoch_at(n)) = HistoryOf(chain, n)

InChain(id) == {n \in genesis_block_number + 1 .. head :
                    \E i \in DOMAIN ItemsAt(chain, n) :
                        /\ ItemsAt(chain, n)[i].kind = "basic"
                        /\ ItemsAt(chain, n)[i].id = id}

(* The validity store is exact where it matters: a transaction that it     *)
(* finds is on the main chain, and one of the main chain that could still  *)
(* be put in the next block is found, whatever blocks were reverted,       *)
(* adopted or pruned. So no transaction is included twice.                 *)
WindowIsExact ==
    \A id \in DOMAIN Tx :
        /\ Cardinality(InChain(id)) <= 1
        /\ tx_in_validity_window(id) => InChain(id) # {}
        /\ InChain(id) # {} /\ is_valid_at(id, head + 1) => tx_in_validity_window(id)

AllItems == config.pre \o FlattenSeq([k \in DOMAIN chain |->
                IF epoch_at(genesis_block_number + k) \in pruned THEN <<>> ELSE chain[k]])

HashesOf(items) == [i \in DOMAIN items |-> tx_hash(items[i])]

(* Whether the pages of the address, from every start, are of these hashes. *)
PagesAre(address, hashes) ==
    \A max \in {1, 2, 10} : \A i \in 0 .. Len(hashes) :
        merged_by_address(address, max, IF i = 0 THEN None ELSE hashes[i])
            = SubSeq(hashes, i + 1, Min({i + max, Len(hashes)}))

(* With the index, a transaction is found by its hash exactly when it is   *)
(* stored, and the transactions of an address are listed from the newest   *)
(* to the oldest, across the pre-genesis and the main store, page by page  *)
(* without a gap or a repetition when each page starts at the last hash of *)
(* the page before.                                                        *)
IndexIsExact ==
    indexed =>
        \A all \in {AllItems} :
            /\ \A id \in DOMAIN Tx :
                   LET found == {i \in DOMAIN all : all[i].kind = "basic" /\ all[i].id = id}
                   IN  merged_by_hash(<<"raw", id>>)
                           = IF found = {} THEN None ELSE all[CHOOSE i \in found : TRUE]
            /\ \A address \in config.addresses :
                   PagesAre(address, Reverse(HashesOf(SelectSeq(all,
                       LAMBDA item : address \in Addresses(item)))))

(* The accounts are those of the main chain after every extension, skip    *)
(* block, rebranch and adopted history.                                    *)
AccountsFollowHistory == accounts = AccountsOf(chain)

(* The fees in the chain info of a block are those of its batch up to it,  *)
(* whether it was pushed or adopted with its history: the rewards of the   *)
(* next batch are computed from them.                                      *)
FeesAreBatch ==
    \A k \in DOMAIN cum_tx_fees : cum_tx_fees[k] # None =>
        LET n == genesis_block_number + k
        IN  cum_tx_fees[k] = Fees(Concat(chain, macro_block_before(n) + 1, n))

(* The histories that the node can adopt, of the network's chains. *)
Offered == {o \in config.chains \X (last_macro_block(head) + 1 .. config.last) :
                verify_macro_successor(ChainOf(o[1]), o[2])}

(* Where our chain and another one part, 0 if they do not. *)
ExpectedParts(c) ==
    LET parts == {k \in DOMAIN chain : k \notin DOMAIN c \/ chain[k] # c[k]}
    IN  IF parts = {} THEN 0 ELSE Min(parts)

(* The history of a chain that ours is a part of is adopted, and that of a *)
(* fork too if our batch is not the first of its epoch and our first other *)
(* block has items: what we have is skipped, what differs is reverted, and *)
(* the macro blocks that are passed over are finalized, the first          *)
(* checkpoint too, which has no items.                                     *)
KnownPrefixIsAdopted ==
    \A o \in Offered :
        LET k == ExpectedParts(ChainOf(o[1]))
            plain == /\ k > 0
                     /\ ~is_election_block_at(last_macro_block(head))
                     /\ chain[k] # <<>>
        IN  k = 0 \/ plain => Extended(ChainOf(o[1]), o[2]).ok

(* A history that follows from our macro head is adopted, also when we     *)
(* have other blocks of its batches: those that differ are reverted first, *)
(* as the comments in revert_to_common_state say.  Not so in the code if   *)
(* our first other block has no items, or is in the first batch of an      *)
(* epoch: what is adopted then is KnownPrefixIsAdopted.                    *)
HonestHistoryIsAdopted == outcome # "refused"
=============================================================================
