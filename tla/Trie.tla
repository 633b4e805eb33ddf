-------------------------------- MODULE Trie --------------------------------
(***************************************************************************)
(* The Merkle radix trie that holds the accounts (primitives/trie and      *)
(* primitives/src/trie).                                                   *)
(*                                                                         *)
(* Two tries follow the same blocks: a complete one, and one that is       *)
(* downloaded chunk by chunk while blocks are applied and reverted.  Of    *)
(* the second, only the keys below root_data.incomplete are there; what    *)
(* lies above is known by stumps, the child entries whose node is missing. *)
(*                                                                         *)
(* A key is a sequence of digits below RADIX (the code has 16).  A hash is *)
(* a term: the tuple of everything that is hashed.  None stands for the    *)
(* absent value, the absent key and the all-zero hash of a dirty child.    *)
(***************************************************************************)
EXTENDS Integers, Sequences, FiniteSets, SequencesExt, FiniteSetsExt, TLC

CONSTANTS
    RADIX,           \* the number of children of a node
    None,
    Unchanged,       \* OldValue::Unchanged
    Configurations   \* the genesis contents, the changes of the blocks, the chunk sizes

VARIABLES
    config,
    full,            \* the trie of a node that has the whole state
    partial,         \* the trie of a node that downloads the state
    blocks,          \* the blocks since genesis: what reverting them takes
    last             \* the outcome of the last operation on the partial trie

vars == <<config, full, partial, blocks, last>>

Root == <<>>
NoChanges == [k \in {} |-> None]

(***************************************************************************)
(* Keys.                                                                   *)
(***************************************************************************)
CommonLength(a, b) ==
    Max({n \in 0..Len(a) : n <= Len(b) /\ SubSeq(a, 1, n) = SubSeq(b, 1, n)})

common_prefix(a, b) == SubSeq(a, 1, CommonLength(a, b))

\* The derived order: the bytes first, then the length.
Less(a, b) ==
    LET n == CommonLength(a, b)
    IN  n < Len(b) /\ (n < Len(a) => a[n + 1] < b[n + 1])

PostOrderLess(a, b) ==
    IF IsPrefix(a, b) \/ IsPrefix(b, a) THEN Len(a) > Len(b) ELSE Less(a, b)

InRange(key, missing) == missing # None /\ ~Less(key, missing)

is_within_complete_part(key, missing) == ~InRange(key, missing)

(***************************************************************************)
(* Nodes: a value, and for each digit at most one child entry.             *)
(***************************************************************************)
new_leaf(key, value) == [key |-> key, value |-> value, children |-> <<>>]

new_empty(key) == new_leaf(key, None)

is_root(node) == node.key = Root

num_children(node) == Cardinality(DOMAIN node.children)

kind(node) ==
    IF is_root(node) THEN "root"
    ELSE IF DOMAIN node.children = {}
    THEN (IF node.value = None THEN "none" ELSE "leaf")
    ELSE (IF node.value = None THEN "branch" ELSE "hybrid")

Below(node, key) == IsPrefix(node.key, key) /\ Len(node.key) < Len(key)

child_index(node, key) == key[Len(node.key) + 1]

\* The child entry on the way to key, None if there is none.
child(node, key) ==
    IF Below(node, key) /\ child_index(node, key) \in DOMAIN node.children
    THEN node.children[child_index(node, key)]
    ELSE None

EntryKey(node, entry) == node.key \o entry.suffix

is_stump(node, entry, missing) == InRange(EntryKey(node, entry), missing)

put_child(node, key, hash) ==
    [node EXCEPT !.children =
        (child_index(node, key) :> [suffix |-> SubSeq(key, Len(node.key) + 1, Len(key)),
                                    hash |-> hash]) @@ @]

put_child_no_hash(node, key) == put_child(node, key, None)

WithChildren(node, digits) == [node EXCEPT !.children = [d \in digits |-> @[d]]]

remove_child(node, key) ==
    WithChildren(node, DOMAIN node.children \ {child_index(node, key)})

OnlyChild(node) == node.children[CHOOSE d \in DOMAIN node.children : TRUE]

replace_with_only_child(parent, node) ==
    put_child(parent, EntryKey(node, OnlyChild(node)), OnlyChild(node).hash)

\* The tag tells a leaf, whose value is hashed, from a hybrid node, of which
\* only the hash of the value is.
ValueHash(value) == <<value>>

hash(node) ==
    IF \E d \in DOMAIN node.children : node.children[d].hash = None THEN None
    ELSE CASE node.value = None           -> <<node.key, 0, None, node.children>>
           [] kind(node) = "leaf"         -> <<node.key, 1, node.value, node.children>>
           [] OTHER                       -> <<node.key, 2, ValueHash(node.value), node.children>>

(***************************************************************************)
(* The database of a trie: its nodes, the data of the root node, and the   *)
(* changes of values that are being recorded.                              *)
(***************************************************************************)
NoUpdates == [branch |-> 0, hybrid |-> 0, leaf |-> 0]

CountUpdate(counts, prev, cur) ==
    [k \in DOMAIN counts |-> counts[k] + (IF cur = k THEN 1 ELSE 0)
                                       - (IF prev = k THEN 1 ELSE 0)]

Added(kinds) == [k \in DOMAIN NoUpdates |-> IF k \in kinds THEN 1 ELSE 0]

update_root_data(db, counts) ==
    [db EXCEPT !.counts = [k \in DOMAIN counts |-> @[k] + counts[k]]]

new_root(incomplete) ==
    [nodes |-> Root :> new_empty(Root), incomplete |-> incomplete, counts |-> NoUpdates,
     diff |-> None, panic |-> FALSE]

get_root(db) == db.nodes[Root]

record_value_change(db, key, old, new) ==
    IF db.diff = None \/ old = Unchanged \/ old = new THEN db
    ELSE LET known  == key \in DOMAIN db.diff
             before == IF known THEN db.diff[key].old ELSE old
             others == [k \in DOMAIN db.diff \ {key} |-> db.diff[k]]
         IN  [db EXCEPT
                !.panic = @ \/ (known /\ db.diff[key].new # old),
                !.diff = IF before = new THEN others
                         ELSE (key :> [old |-> before, new |-> new]) @@ others]

put_node(db, node, old) ==
    [record_value_change(db, node.key, old, node.value)
        EXCEPT !.nodes = (node.key :> node) @@ @]

remove_node(db, key, old) ==
    [record_value_change(db, key, old, None)
        EXCEPT !.nodes = [k \in DOMAIN @ \ {key} |-> @[k]]]

start_recording(db) == [db EXCEPT !.diff = NoChanges]

stop_recording(db) == [db EXCEPT !.diff = None]

\* A dirty child is entered with the all-zero hash.
MarkDirty_parent_only(db, path, key) ==
    IF path = <<>> THEN db ELSE put_node(db, put_child(Last(path), key, None), Unchanged)

RECURSIVE MarkDirty(_, _, _)
MarkDirty(db, path, key) ==
    IF path = <<>> THEN db
    ELSE LET parent == put_child(Last(path), key, None)
         IN  MarkDirty(put_node(db, parent, Unchanged), Front(path), parent.key)

update_keys(db, path, counts) ==
    MarkDirty(update_root_data(db, counts), Front(path), Last(path).key)

RECURSIVE update_hashes(_, _, _)
update_hashes(db, key, missing) ==
    LET node  == db.nodes[key]
        dirty == {d \in DOMAIN node.children :
                     /\ node.children[d].hash = None
                     /\ ~is_stump(node, node.children[d], missing)}
        step(acc, d) ==
            LET ck  == EntryKey(node, node.children[d])
                sub == update_hashes(acc.db, ck, missing)
            IN  [db |-> sub, node |-> [acc.node EXCEPT
                                        !.children[d].hash = hash(sub.nodes[ck])]]
        done  == FoldSet(LAMBDA d, acc : step(acc, d), [db |-> db, node |-> node], dirty)
    IN  IF DOMAIN node.children = {} THEN db
        ELSE put_node(done.db, done.node, Unchanged)

update_root(db) == update_hashes(db, Root, db.incomplete)

root_hash(db) ==
    IF db.incomplete # None /\ DOMAIN get_root(db).children = {} THEN None
    ELSE hash(get_root(db))

(***************************************************************************)
(* Values.                                                                 *)
(***************************************************************************)
get(db, key) ==
    IF key \in DOMAIN db.nodes THEN db.nodes[key].value ELSE None

\* The new leaf and what is there already get a common parent.
Split(db, path, other, otherHash, key, value) ==
    LET prefix == common_prefix(other, key)
        leaf   == new_leaf(key, value)
        hybrid == put_child(leaf, other, otherHash)
        branch == put_child(put_child(new_empty(prefix), other, otherHash), key, hash(leaf))
    IN  IF prefix = key
        THEN update_keys(put_node(db, hybrid, None), Append(path, hybrid), Added({"hybrid"}))
        ELSE update_keys(put_node(put_node(db, leaf, None), branch, None),
                         Append(path, branch), Added({"branch", "leaf"}))

RECURSIVE PutBelow(_, _, _, _, _, _)
PutBelow(db, node, path, key, value, missing) ==
    LET entry   == child(node, key)
        valued  == [node EXCEPT !.value = value]
        leaf    == new_leaf(key, value)
        parent  == put_child(node, key, hash(leaf))
    IN  CASE ~IsPrefix(node.key, key) ->
                Split(db, path, node.key, None, key, value)
          [] node.key = key ->
                update_keys(put_node(db, valued, node.value), Append(path, valued),
                            CountUpdate(NoUpdates, kind(node), kind(valued)))
          [] Below(node, key) /\ entry = None ->
                update_keys(put_node(put_node(db, leaf, None), parent, Unchanged),
                            Append(path, parent),
                            CountUpdate(Added({"leaf"}), kind(node), kind(parent)))
          [] Below(node, key) /\ entry # None ->
                IF is_stump(node, entry, missing)
                THEN Split(db, Append(path, node), EntryKey(node, entry), entry.hash, key, value)
                ELSE PutBelow(db, db.nodes[EntryKey(node, entry)], Append(path, node),
                              key, value, missing)

put_raw(db, key, value, missing) == PutBelow(db, get_root(db), <<>>, key, value, missing)

\* A node without a value and with a single child is merged into the child.

Merged(db, path, node, old, counts) ==
    LET parent == replace_with_only_child(Last(path), node)
    IN  update_keys(put_node(remove_node(db, node.key, old), parent, Unchanged),
                    Append(Front(path), parent), CountUpdate(counts, kind(node), "none"))

\* The leaf at key is gone: its ancestors lose the entry, from the leaf up.
RECURSIVE RemoveUp(_, _, _, _)
RemoveUp(db, path, key, counts) ==
    LET parent  == remove_child(Last(path), key)
        counted == CountUpdate(counts, kind(Last(path)), kind(parent))
    IN  IF num_children(parent) = 1 /\ kind(parent) = "branch"
        THEN Merged(db, Front(path), parent, Unchanged, counted)
        ELSE IF kind(parent) # "none"
        THEN update_keys(put_node(db, parent, Unchanged), Append(Front(path), parent), counted)
        ELSE RemoveUp(remove_node(db, parent.key, Unchanged), Front(path), parent.key,
                      CountUpdate(counted, kind(parent), "none"))

RECURSIVE RemoveBelow(_, _, _, _, _)
RemoveBelow(db, node, path, key, missing) ==
    LET entry == child(node, key)
        bare  == [node EXCEPT !.value = None]
    IN  IF ~IsPrefix(node.key, key) THEN db
        ELSE IF node.key = key
        THEN IF DOMAIN node.children = {}
             THEN RemoveUp(remove_node(db, key, node.value), path, key,
                           [NoUpdates EXCEPT !.leaf = -1])
             ELSE IF num_children(node) = 1
             THEN LET parent == replace_with_only_child(Last(path), node)
                  IN  update_keys(put_node(remove_node(db, key, node.value), parent, Unchanged),
                                  Append(Front(path), parent), [NoUpdates EXCEPT !.hybrid = -1])
             ELSE update_keys(put_node(db, bare, node.value), Append(path, bare),
                              CountUpdate(NoUpdates, kind(node), kind(bare)))
        ELSE IF entry = None THEN db
        ELSE IF is_stump(node, entry, missing) THEN db
        ELSE RemoveBelow(db, db.nodes[EntryKey(node, entry)], Append(path, node), key, missing)

remove_raw(db, key, missing) == RemoveBelow(db, get_root(db), <<>>, key, missing)

(***************************************************************************)
(* The hashes on the way to a key of the missing part are reset, a key     *)
(* without an entry gets a stump.                                          *)
(***************************************************************************)
RECURSIVE UpdateBelow(_, _, _, _, _)
UpdateBelow(db, node, path, key, missing) ==
    LET entry  == child(node, key)
        ck     == EntryKey(node, entry)
        prefix == common_prefix(ck, key)
        parent == put_child_no_hash(node, key)
        stale  == put_child_no_hash(node, ck)
        branch == put_child_no_hash(put_child(new_empty(prefix), ck, entry.hash), key)
    IN  IF ~Below(node, key) THEN [db |-> db, stump |-> FALSE, ok |-> FALSE]
        ELSE IF entry = None
        THEN [db |-> update_keys(put_node(db, parent, Unchanged), Append(path, parent),
                                 CountUpdate(NoUpdates, kind(node), kind(parent))),
              stump |-> TRUE, ok |-> TRUE]
        ELSE IF ~is_within_complete_part(prefix, missing)
        THEN [db |-> update_keys(put_node(db, stale, Unchanged), Append(path, stale), NoUpdates),
              stump |-> FALSE, ok |-> TRUE]
        ELSE IF prefix = ck
        THEN UpdateBelow(db, db.nodes[ck], Append(path, node), key, missing)
        ELSE [db |-> update_keys(put_node(db, branch, None), path \o <<node, branch>>,
                                 Added({"branch"})),
              stump |-> TRUE, ok |-> TRUE]

update_within_missing_part(db, key, missing) ==
    UpdateBelow(db, get_root(db), <<>>, key, missing)

put(db, key, value) ==
    IF is_within_complete_part(key, db.incomplete)
    THEN put_raw(db, key, value, db.incomplete)
    ELSE update_within_missing_part(db, key, db.incomplete).db

remove(db, key) ==
    IF is_within_complete_part(key, db.incomplete)
    THEN remove_raw(db, key, db.incomplete)
    ELSE update_within_missing_part(db, key, db.incomplete).db

(***************************************************************************)
(* Diffs: the values to set, in the order of the keys, and what undoes it. *)
(***************************************************************************)
Ascending(keys) == SortSeq(SetToSeq(keys), Less)

\* RevertDiffValue: a value to put, or what to do about a key without one.
Put(value) == [do |-> "Put", value |-> value]
RemoveIt == [do |-> "Remove", value |-> None]
UpdateStump == [do |-> "UpdateStump", value |-> None]

known_value(old) == IF old = None THEN RemoveIt ELSE Put(old)

unknown_value(stump) == IF stump THEN RemoveIt ELSE UpdateStump

ApplyChange(acc, key, value) ==
    IF is_within_complete_part(key, acc.db.incomplete)
    THEN [acc EXCEPT !.db = IF value = None THEN remove_raw(@, key, @.incomplete)
                            ELSE put_raw(@, key, value, @.incomplete),
                     !.revert = (key :> known_value(get(acc.db, key))) @@ @]
    ELSE LET updated == update_within_missing_part(acc.db, key, acc.db.incomplete)
         IN  [db |-> updated.db, ok |-> acc.ok /\ updated.ok,
              revert |-> (key :> unknown_value(updated.stump)) @@ acc.revert]

apply_diff(db, diff) ==
    FoldLeft(LAMBDA acc, key : ApplyChange(acc, key, diff[key]),
             [db |-> db, revert |-> NoChanges, ok |-> TRUE], Ascending(DOMAIN diff))

\* A value that was recorded for the other part of the trie is unreachable!.
RevertChange(acc, key, change) ==
    IF is_within_complete_part(key, acc.db.incomplete)
    THEN [acc EXCEPT !.db =
            CASE change.do = "Put"         -> put_raw(@, key, change.value, @.incomplete)
              [] change.do = "Remove"      -> remove_raw(@, key, @.incomplete)
              [] change.do = "UpdateStump" -> [@ EXCEPT !.panic = TRUE]]
    ELSE IF change.do = "Put" THEN [acc EXCEPT !.db.panic = TRUE]
    ELSE LET updated == update_within_missing_part(acc.db, key, acc.db.incomplete)
         IN  [db |-> updated.db, ok |-> acc.ok /\ updated.ok]

revert_diff(db, revert) ==
    FoldLeft(LAMBDA acc, key : RevertChange(acc, key, revert[key]),
             [db |-> db, ok |-> TRUE], Reverse(Ascending(DOMAIN revert)))

into_forward_diff(changes) == [k \in DOMAIN changes |-> changes[k].new]
into_backward_diff(changes) == [k \in DOMAIN changes |-> changes[k].old]

(***************************************************************************)
(* Proofs.  A proof node carries the value of a hybrid node only when it   *)
(* is asked for, otherwise its hash.                                       *)
(***************************************************************************)
proof_node(wanted, node) ==
    [key |-> node.key, children |-> node.children,
     value |-> CASE node.value = None     -> [is |-> "None", value |-> None]
                 [] kind(node) = "leaf"   -> [is |-> "LeafValue", value |-> node.value]
                 [] kind(node) = "hybrid" -> IF wanted
                                             THEN [is |-> "HybridValue", value |-> node.value]
                                             ELSE [is |-> "HybridHash",
                                                   value |-> ValueHash(node.value)]]

proof_hash(n) ==
    CASE n.value.is = "None"        -> <<n.key, 0, None, n.children>>
      [] n.value.is = "LeafValue"   -> <<n.key, 1, n.value.value, n.children>>
      [] n.value.is = "HybridHash"  -> <<n.key, 2, n.value.value, n.children>>
      [] n.value.is = "HybridValue" -> <<n.key, 2, ValueHash(n.value.value), n.children>>

PostOrder(nodes) == SortSeq(nodes, LAMBDA a, b : PostOrderLess(a.key, b.key))

\* Down from the node towards the key, as far as there are nodes.
RECURSIVE Descend(_, _, _, _)
Descend(db, node, path, key) ==
    LET entry == child(node, key)
        ck    == EntryKey(node, entry)
    IN  IF node.key = key \/ entry = None THEN [node |-> node, path |-> path]
        ELSE IF is_stump(node, entry, db.incomplete) \/ ~IsPrefix(ck, key)
        THEN [node |-> node, path |-> path]
        ELSE Descend(db, db.nodes[ck], Append(path, node), key)

\* Up to the next node that is above the key, collecting the nodes left.
RECURSIVE Ascend(_, _, _, _)
Ascend(node, path, key, left) ==
    IF IsPrefix(node.key, key) THEN [node |-> node, path |-> path, left |-> left]
    ELSE Ascend(Last(path), Front(path), key, Append(left, node))

RECURSIVE ProveKeys(_, _, _, _, _, _)
ProveKeys(db, node, path, keys, nodes, absent) ==
    LET key   == Last(keys)
        down  == Descend(db, node, path, key)
        known == IF down.node.key = key THEN absent ELSE (key :> down.node.key) @@ absent
        rest  == Front(keys)
        up    == Ascend(down.node, down.path, Last(rest), nodes)
    IN  IF rest = <<>>
        THEN [nodes |-> nodes \o Append(Reverse(down.path), down.node), absent |-> known]
        ELSE ProveKeys(db, up.node, up.path, rest, up.left, known)

get_proof(db, keys) ==
    LET sorted == SortSeq(SetToSeq(keys), PostOrderLess)
        found  == ProveKeys(db, get_root(db), <<>>, sorted, <<>>, NoChanges)
        ToProof(node) == proof_node(node.key \in keys, node)
    IN  IF keys = {}
        THEN [nodes |-> <<proof_node(FALSE, get_root(db))>>, missing_proven_by |-> NoChanges]
        ELSE IF \E k \in keys : InRange(k, db.incomplete) THEN None
        ELSE [nodes |-> PostOrder([i \in 1..Len(found.nodes) |-> ToProof(found.nodes[i])]),
              missing_proven_by |-> found.absent]

\* The nodes still to be matched with their parent are kept on a stack.
RECURSIVE PopChildren(_, _)
PopChildren(node, stack) ==
    LET top   == Last(stack)
        entry == child(node, top.key)
    IN  IF stack = <<>> THEN [ok |-> TRUE, stack |-> stack]
        ELSE IF ~IsPrefix(node.key, top.key) THEN [ok |-> TRUE, stack |-> stack]
        ELSE IF entry = None THEN [ok |-> FALSE, stack |-> stack]
        ELSE IF entry.hash # proof_hash(top) \/ EntryKey(node, entry) # top.key
        THEN [ok |-> FALSE, stack |-> stack]
        ELSE PopChildren(node, Front(stack))

VerifyNode(acc, node) ==
    LET popped == IF DOMAIN node.children = {} THEN [ok |-> TRUE, stack |-> acc.stack]
                  ELSE PopChildren(node, acc.stack)
    IN  [ok |-> acc.ok /\ popped.ok, stack |-> Append(popped.stack, node)]

verify(proof, root) ==
    LET end == FoldLeft(VerifyNode, [ok |-> TRUE, stack |-> <<>>], proof.nodes)
    IN  /\ proof.nodes # <<>>
        /\ end.ok
        /\ Len(end.stack) = 1
        /\ end.stack[1].key = Root
        /\ proof_hash(end.stack[1]) = root

\* The requested keys, each with the key of the node that proves it, and the
\* nodes of the proof are gone through together.
RECURSIVE MatchValues(_, _, _)
MatchValues(keys, nodes, values) ==
    LET by    == Head(keys).by
        key   == Head(keys).key
        node  == Head(nodes)
        entry == child(node, key)
        skip  == keys = <<>> \/ (nodes # <<>> /\ PostOrderLess(node.key, by))
    IN  IF keys = <<>> /\ nodes = <<>> THEN values
        ELSE IF nodes = <<>> THEN None
        ELSE IF skip
        THEN IF node.value.is \in {"LeafValue", "HybridValue"} THEN None
             ELSE MatchValues(keys, Tail(nodes), values)
        ELSE IF node.key # by THEN None
        ELSE IF ~IsPrefix(node.key, key) THEN None
        ELSE IF node.key = key
        THEN IF node.value.is = "HybridHash" THEN None
             ELSE MatchValues(Tail(keys), Tail(nodes), (key :> node.value.value) @@ values)
        ELSE IF entry = None
        THEN MatchValues(Tail(keys), nodes, (key :> None) @@ values)
        ELSE IF IsPrefix(EntryKey(node, entry), key) THEN None
        ELSE MatchValues(Tail(keys), nodes, (key :> None) @@ values)

verify_values(proof, root, keys) ==
    LET by(k)  == IF k \in DOMAIN proof.missing_proven_by THEN proof.missing_proven_by[k] ELSE k
        before(a, b) == PostOrderLess(a.by, b.by) \/ (a.by = b.by /\ PostOrderLess(a.key, b.key))
        sorted == SortSeq(SetToSeq({[by |-> by(k), key |-> k] : k \in keys}), before)
    IN  IF ~verify(proof, root) THEN None
        ELSE MatchValues(sorted, proof.nodes, NoChanges)

(***************************************************************************)
(* Chunks.                                                                 *)
(***************************************************************************)
Digits(node) == SelectSeq([i \in 1..RADIX |-> i - 1], LAMBDA d : d \in DOMAIN node.children)

\* The nodes with a value from start on, in the order of the keys: a node
\* comes before what is below it.
RECURSIVE Collect(_, _, _, _, _)
Collect(db, stack, start, size, chunk) ==
    LET node  == Head(stack)
        keys  == SelectSeq([i \in 1..Len(Digits(node)) |->
                                EntryKey(node, node.children[Digits(node)[i]])],
                           LAMBDA k : /\ ~InRange(k, db.incomplete)
                                      /\ IsPrefix(k, start) \/ ~Less(k, start))
        below == [i \in 1..Len(keys) |-> db.nodes[keys[i]]]
        taken == IF node.value # None /\ (Len(start) < Len(node.key) \/ ~Less(node.key, start))
                 THEN Append(chunk, node) ELSE chunk
    IN  IF stack = <<>> THEN chunk
        ELSE IF node.value # None /\ Len(taken) >= size THEN taken
        ELSE Collect(db, below \o Tail(stack), start, size, taken)

get_trie_chunk(db, start, size) ==
    IF size = 0 THEN <<>> ELSE Collect(db, <<get_root(db)>>, start, size, <<>>)

RECURSIVE Rightmost(_, _)
Rightmost(db, node) ==
    IF DOMAIN node.children = {} THEN node.key
    ELSE Rightmost(db, db.nodes[EntryKey(node, node.children[Max(DOMAIN node.children)])])

\* The last key with a value before key: found is the best one on the way.
RECURSIVE Predecessor(_, _, _, _)
Predecessor(db, node, key, found) ==
    LET own    == IF node.value # None THEN [key |-> node.key, down |-> FALSE] ELSE found
        index  == IF Below(node, key) THEN child_index(node, key) ELSE RADIX
        before == {d \in DOMAIN node.children : d < index}
        best   == IF before = {} THEN own
                  ELSE [key |-> EntryKey(node, node.children[Max(before)]), down |-> TRUE]
        entry  == child(node, key)
    IN  IF ~Less(node.key, key) THEN found
        ELSE IF entry = None THEN best
        ELSE IF is_stump(node, entry, db.incomplete) THEN best
        ELSE Predecessor(db, db.nodes[EntryKey(node, entry)], key, best)

get_predecessor(db, key) ==
    LET found == Predecessor(db, get_root(db), key, None)
    IN  IF found = None THEN None
        ELSE IF found.down THEN Rightmost(db, db.nodes[found.key]) ELSE found.key

ChunkUpTo(next, items, proof) ==
    [items |-> items, proof |-> proof,
     end_key |-> IF next = None THEN None
                 ELSE SubSeq(next, 1, Min({Len(next),
                                CommonLength(proof.nodes[1].key, next) + 1}))]

ChunkOf(db, start, next, nodes) ==
    LET pred == get_predecessor(db, start)
        keys == IF nodes # <<>> THEN {Last(nodes).key} ELSE {pred} \ {None}
    IN  ChunkUpTo(next,
                  [i \in 1..Len(nodes) |-> [key |-> nodes[i].key, value |-> nodes[i].value]],
                  get_proof(db, keys))

\* One node more than asked for tells where the next chunk starts.
SplitAt(db, start, limit, got) ==
    IF Len(got) = limit + 1 THEN ChunkOf(db, start, Last(got).key, Front(got))
    ELSE ChunkOf(db, start, None, got)

get_chunk_with_proof(db, start, limit) ==
    SplitAt(db, start, limit, get_trie_chunk(db, start, limit + 1))

\* The nodes on the path to start without the entries of the missing part.
RECURSIVE Pruned(_, _, _, _, _)
Pruned(db, node, start, path, counts) ==
    LET digit  == IF Len(start) > Len(node.key) THEN start[Len(node.key) + 1] ELSE None
        from   == IF digit = None THEN 0
                  ELSE IF Len(start) <= Len(node.key) + 1 THEN digit ELSE digit + 1
        cut    == {d \in DOMAIN node.children : d >= from}
        onPath == {d \in DOMAIN node.children :
                      d = digit /\ is_stump(node, node.children[d], db.incomplete)}
        pruned == WithChildren(node, DOMAIN node.children \ (cut \union onPath))
        bad    == \/ ~is_root(node) /\ digit = None
                  \/ \E d \in cut : ~is_stump(node, node.children[d], db.incomplete)
        counted == CountUpdate(counts, kind(node), kind(pruned))
        entry  == child(pruned, start)
        stop   == [path |-> Append(path, pruned), counts |-> counted, panic |-> bad]
    IN  IF bad \/ entry = None THEN stop
        ELSE IF is_stump(node, entry, db.incomplete) \/ ~IsPrefix(EntryKey(node, entry), start)
        THEN stop
        ELSE Pruned(db, db.nodes[EntryKey(node, entry)], start, stop.path, counted)

\* Back up: nodes left without children or with a single one disappear.
RECURSIVE Stored(_, _, _, _)
Stored(db, path, changed, counts) ==
    LET node   == IF changed = None THEN Last(path)
                  ELSE put_child_no_hash(Last(path), changed)
        above  == Front(path)
        parent == IF DOMAIN node.children = {} THEN remove_child(Last(above), node.key)
                  ELSE replace_with_only_child(Last(above), node)
    IN  IF above = <<>> THEN put_node(update_root_data(db, counts), node, Unchanged)
        ELSE IF node.value = None /\ num_children(node) <= 1
        THEN Stored(remove_node(db, node.key, Unchanged), Append(Front(above), parent), None,
                    CountUpdate(CountUpdate(counts, kind(node), "none"),
                                kind(Last(above)), kind(parent)))
        ELSE Stored(put_node(db, node, Unchanged), above, node.key, counts)

clear_stumps(db, start) ==
    LET down == Pruned(db, get_root(db), start, <<>>, NoUpdates)
    IN  IF down.panic THEN [db EXCEPT !.panic = TRUE]
        ELSE Stored(db, down.path, None, down.counts)

\* Down along the proof of the last item: what the proof has above end and
\* the trie has not is entered as a stump.
RECURSIVE MarkBelow(_, _, _, _, _, _)
MarkBelow(db, stored, path, proof, end, counts) ==
    LET pn     == Head(proof)
        split  == stored.key # pn.key
        node   == IF split THEN put_child_no_hash(new_empty(pn.key), stored.key) ELSE stored
        level  == Len(node.key)
        from   == IF level >= Len(end) THEN 0
                  ELSE end[level + 1] + (IF level + 1 < Len(end) THEN 1 ELSE 0)
        stumps == {d \in DOMAIN pn.children : d >= from}
        marked == [node EXCEPT !.children = [d \in stumps |-> pn.children[d]] @@ @]
        counted == CountUpdate(IF split THEN CountUpdate(counts, "none", "branch") ELSE counts,
                               kind(node), kind(marked))
        here   == put_node(db, marked, Unchanged)
        entry  == child(marked, end)
    IN  IF split /\ ~IsPrefix(pn.key, stored.key) THEN [db |-> db, result |-> "InvalidChunk"]
        ELSE IF \E d \in DOMAIN node.children : d >= from
        THEN [db |-> [db EXCEPT !.panic = TRUE], result |-> "InvalidChunk"]
        ELSE IF Tail(proof) = <<>> \/ entry = None
        THEN [db |-> update_keys(here, Append(path, marked), counted), result |-> "Marked"]
        ELSE IF is_stump(marked, entry, end)
        THEN [db |-> update_keys(here, Append(path, marked), counted), result |-> "Marked"]
        ELSE MarkBelow(here, here.nodes[EntryKey(marked, entry)], Append(path, marked),
                       Tail(proof), end, counted)

mark_stumps(db, end, nodes) ==
    MarkBelow(db, get_root(db), <<>>, Reverse(nodes), end, NoUpdates)

\* What is checked of a chunk before the trie is touched.
ItemsAreValid(start, chunk) ==
    LET items == chunk.items
        lastKey == Last(items).key
    IN  items # <<>> =>
        /\ ~Less(items[1].key, start)
        /\ items[1].key # Root
        /\ chunk.end_key # None => Less(lastKey, chunk.end_key)
        /\ \A i \in 1..Len(chunk.proof.nodes) :
              LET n == chunk.proof.nodes[i]
              IN  \A d \in DOMAIN n.children :
                     \/ InRange(EntryKey(n, n.children[d]), chunk.end_key)
                     \/ ~Less(lastKey, EntryKey(n, n.children[d]))
        /\ \A i \in 1..Len(items) - 1 : Less(items[i].key, items[i + 1].key)

EndIsValid(chunk) ==
    LET end   == chunk.end_key
        nodes == chunk.proof.nodes
    IN  end # None =>
        /\ \E i \in 1..Len(nodes) : Len(nodes[i].key) + 1 = Len(end) /\ IsPrefix(nodes[i].key, end)
        /\ Less(nodes[1].key, end)

ChunkIsValid(start, chunk, expected) ==
    /\ chunk.end_key # None => ~Less(chunk.end_key, start)
    /\ ItemsAreValid(start, chunk)
    /\ verify(chunk.proof, expected)
    /\ EndIsValid(chunk)

PutItems(db, start, chunk) ==
    FoldLeft(LAMBDA acc, item : put_raw(acc, item.key, item.value, chunk.end_key),
             clear_stumps(db, start), chunk.items)

MarkEnd(filled, chunk) ==
    IF chunk.end_key = None THEN [db |-> filled, result |-> "Marked"]
    ELSE mark_stumps(filled, chunk.end_key, chunk.proof.nodes)

HashChunk(db, hashed, end, expected) ==
    IF hash(get_root(hashed)) # expected THEN [db |-> db, result |-> "ChunkHashMismatch"]
    ELSE [db |-> [hashed EXCEPT !.incomplete = end], result |-> "Applied"]

FinishChunk(db, filled, marked, end, expected) ==
    IF filled.panic \/ marked.result # "Marked" THEN marked
    ELSE HashChunk(db, update_hashes(marked.db, Root, end), end, expected)

FillChunk(db, filled, chunk, expected) ==
    FinishChunk(db, filled, MarkEnd(filled, chunk), chunk.end_key, expected)

put_chunk(db, start, chunk, expected) ==
    IF db.incomplete = None THEN [db |-> db, result |-> "TrieAlreadyComplete"]
    ELSE IF db.incomplete # start THEN [db |-> db, result |-> "Ignored"]
    ELSE IF ~ChunkIsValid(start, chunk, expected) THEN [db |-> db, result |-> "InvalidChunk"]
    ELSE FillChunk(db, PutItems(db, start, chunk), chunk, expected)

\* The subtrees from start on are removed, their entries stay as stumps.
RECURSIVE RemovedBelow(_, _, _, _)
RemovedBelow(db, node, start, removed) ==
    LET digit   == IF Len(start) > Len(node.key) THEN start[Len(node.key) + 1] ELSE 0
        keys    == {EntryKey(node, node.children[d]) : d \in {e \in DOMAIN node.children : e >= digit}}
        gone    == {k \in keys : ~Less(k, start) /\ ~InRange(k, db.incomplete)}
        next    == {k \in keys : Less(k, start) /\ IsPrefix(k, start)}
        subtree == {k \in DOMAIN db.nodes : \E g \in gone : IsPrefix(g, k)}
    IN  IF next = {} THEN removed \union subtree
        ELSE RemovedBelow(db, db.nodes[CHOOSE k \in next : TRUE], start, removed \union subtree)

remove_chunk_keeps_nodes(db, start) ==
    IF db.incomplete # None /\ ~Less(start, db.incomplete) THEN db
    ELSE [update_root(db) EXCEPT !.incomplete = start]

remove_chunk(db, start) ==
    LET hashed  == update_root(db)
        gone    == RemovedBelow(hashed, get_root(hashed), start, {})
        counts  == FoldSet(LAMBDA k, acc : CountUpdate(acc, kind(hashed.nodes[k]), "none"),
                           NoUpdates, gone)
    IN  IF db.incomplete # None /\ ~Less(start, db.incomplete) THEN db
        ELSE [update_root_data(hashed, counts) EXCEPT
                !.nodes = [k \in DOMAIN @ \ gone |-> @[k]],
                !.incomplete = start]

(***************************************************************************)
(* Iteration over the values of the keys from start to end, which have the *)
(* same length: the database orders the keys by their length first.  A     *)
(* node without a value ends the iteration.                                *)
(***************************************************************************)
RECURSIVE TakeValues(_, _)
TakeValues(db, keys) ==
    IF keys = <<>> THEN <<>>
    ELSE IF get(db, Head(keys)) = None THEN <<>>
    ELSE <<get(db, Head(keys))>> \o TakeValues(db, Tail(keys))

\* The database sorts serialized keys, whose first byte is the length.
StoredBefore(a, b) == Len(a) < Len(b) \/ (Len(a) = Len(b) /\ Less(a, b))

\* The cursor goes on from start to the end of the table; the iterator ends
\* at the first key that is past the end in the order of the keys.
iter_nodes(db, start, end) ==
    LET stored == SortSeq(SetToSeq({k \in DOMAIN db.nodes : ~StoredBefore(k, start)}), StoredBefore)
        past   == {i \in DOMAIN stored : Less(end, stored[i])}
    IN  TakeValues(db, SubSeq(stored, 1, IF past = {} THEN Len(stored) ELSE Min(past) - 1))

(***************************************************************************)
(* The two nodes.                                                          *)
(***************************************************************************)
SetValue(db, key, value) == IF value = None THEN remove(db, key) ELSE put(db, key, value)

init(values) ==
    update_root(FoldLeft(LAMBDA db, key : put_raw(db, key, values[key], None),
                         new_root(None), Ascending(DOMAIN values)))

Outcome(op, result) == [op |-> op, result |-> result]

Init ==
    /\ config \in Configurations
    /\ full = init(config.genesis)
    /\ partial = new_root(Root)
    /\ blocks = <<>>
    /\ last = Outcome("Init", "ok")

\* The full node executes the block and records its diff, the other one is
\* given the diff (commit, commit_incomplete).
Block(writes) ==
    /\ Len(blocks) < config.maxBlocks
    /\ \E executed \in {update_root(FoldLeft(LAMBDA db, w : SetValue(db, w[1], w[2]),
                                             start_recording(full), writes))} :
       \E applied \in {apply_diff(partial, into_forward_diff(executed.diff))} :
          /\ full' = stop_recording(executed)
          /\ partial' = update_root(applied.db)
          /\ blocks' = Append(blocks, [before |-> full, changes |-> executed.diff,
                                       revert |-> applied.revert, start |-> None])
          /\ last' = Outcome("Block", IF applied.ok THEN "ok" ELSE "error")
    /\ UNCHANGED config

\* The last block is reverted, its chunks first (revert_chunk, revert).
Revert ==
    /\ blocks # <<>>
    /\ \E block \in {Last(blocks)} :
       \E cut \in {IF block.start = None THEN partial ELSE remove_chunk(partial, block.start)} :
       \E reverted \in {revert_diff(cut, block.revert)} :
          /\ full' = LET old == into_backward_diff(block.changes)
                     IN  update_root(FoldLeft(LAMBDA db, k : SetValue(db, k, old[k]),
                                              full, Ascending(DOMAIN old)))
          /\ partial' = update_root(reverted.db)
          /\ last' = Outcome("Revert", IF reverted.ok THEN "ok" ELSE "error")
    /\ blocks' = Front(blocks)
    /\ UNCHANGED config

\* commit_chunk: a chunk that is refused leaves the database as it was.
Committed(op, source, start, limit) ==
    \E pushed \in {put_chunk(partial, start, get_chunk_with_proof(source, start, limit),
                             root_hash(full))} :
        /\ partial' = IF pushed.result = "Applied" \/ pushed.db.panic
                      THEN pushed.db ELSE partial
        /\ last' = Outcome(op, pushed.result)
        /\ blocks' = IF pushed.result = "Applied" /\ blocks # <<>>
                     THEN [blocks EXCEPT ![Len(blocks)].start =
                              IF @ = None THEN start ELSE @]
                     ELSE blocks
        /\ UNCHANGED <<config, full>>

Chunk(limit) ==
    /\ partial.incomplete # None
    /\ Committed("Chunk", full, partial.incomplete, limit)

\* A chunk of the state before an earlier block, asked for then.
LateChunk(i, limit) ==
    /\ partial.incomplete # None
    /\ \E start \in {partial.incomplete, blocks[i].start} \ {None} :
          Committed("LateChunk", blocks[i].before, start, limit)

\* reinitialize_as_incomplete: the node jumps to the head with an empty trie.
Reinitialize ==
    /\ config.resets
    /\ blocks # <<>>
    /\ partial' = new_root(Root)
    /\ blocks' = <<>>
    /\ last' = Outcome("Reinitialize", "ok")
    /\ UNCHANGED <<config, full>>

Next ==
    \/ \E writes \in config.writes : Block(writes)
    \/ Revert
    \/ \E limit \in config.limits : Chunk(limit)
    \/ \E i \in 1..Len(blocks), limit \in config.limits : LateChunk(i, limit)
    \/ Reinitialize

Spec == Init /\ [][Next]_vars

(***************************************************************************)
(* What a trie with the given contents looks like: a node for every key    *)
(* and for every place where two keys part.                                *)
(***************************************************************************)
Contents(db) ==
    LET keys == {k \in DOMAIN db.nodes : db.nodes[k].value # None}
    IN  [k \in keys |-> db.nodes[k].value]

ExpectedKeys(values) ==
    {Root} \union DOMAIN values
        \union {common_prefix(a, b) : a, b \in DOMAIN values}

RECURSIVE ExpectedNode(_, _, _)
ExpectedNode(values, keys, key) ==
    LET below   == {k \in keys : IsPrefix(key, k) /\ k # key}
        nearest == {k \in below : \A j \in below : IsPrefix(j, k) => j = k}
        digits  == {k[Len(key) + 1] : k \in nearest}
        at(d)   == CHOOSE k \in nearest : k[Len(key) + 1] = d
        entry(d) == [suffix |-> SubSeq(at(d), Len(key) + 1, Len(at(d))),
                     hash |-> hash(ExpectedNode(values, keys, at(d)))]
    IN  [key |-> key, value |-> IF key \in DOMAIN values THEN values[key] ELSE None,
         children |-> [d \in digits |-> entry(d)]]

Expected(values) ==
    [k \in ExpectedKeys(values) |-> ExpectedNode(values, ExpectedKeys(values), k)]

(***************************************************************************)
(* Properties.                                                             *)
(***************************************************************************)

(* The tries are well-formed: every child entry that is no stump leads to  *)
(* a stored node, every stored node is reached, none is empty, and no      *)
(* recording is left over.                                                 *)
IsTrie(db) ==
    /\ Root \in DOMAIN db.nodes
    /\ \A k \in DOMAIN db.nodes :
          LET n == db.nodes[k]
          IN  /\ n.key = k
              /\ k # Root => kind(n) # "none"
              /\ \A d \in DOMAIN n.children :
                    /\ Head(n.children[d].suffix) = d
                    /\ \/ is_stump(n, n.children[d], db.incomplete)
                       \/ EntryKey(n, n.children[d]) \in DOMAIN db.nodes
              /\ k # Root => \E p \in DOMAIN db.nodes : \E d \in DOMAIN db.nodes[p].children :
                                EntryKey(db.nodes[p], db.nodes[p].children[d]) = k
    /\ db.diff = None

(* Both tries are well formed, and the one of the full node is complete. *)
TypeOK == IsTrie(full) /\ IsTrie(partial) /\ full.incomplete = None

(* None of the assertions and unreachable! of the trie operations is met,  *)
(* whatever blocks, reverts and chunks come one after the other.           *)
NoPanic == ~full.panic /\ ~partial.panic

(* The nodes of the complete trie, their hashes with them, depend on its   *)
(* contents only, never on the history of puts, removes and reverts that   *)
(* led to them: all nodes compute the same state root.                     *)
RootIsOfContents == full.nodes = Expected(Contents(full))

(* The counters of the root node count the stored nodes of each kind       *)
(* (count_nodes of the tests), in the incomplete trie too.                 *)
CountsAreExact ==
    \A db \in {full, partial} : \A c \in DOMAIN db.counts :
        db.counts[c] = Cardinality({k \in DOMAIN db.nodes : kind(db.nodes[k]) = c})

(* In its complete part the incomplete trie has the values of the complete *)
(* one, and once nothing is missing it is the complete one.                *)
PartialFollows ==
    /\ Contents(partial) = [k \in {j \in DOMAIN Contents(full) : ~InRange(j, partial.incomplete)}
                                |-> Contents(full)[k]]
    /\ partial.incomplete = None => partial.nodes = full.nodes

(* An incomplete trie that knows its root hash knows the right one: the    *)
(* hashes kept in stumps are never stale.                                  *)
RootNeverWrong == root_hash(partial) \in {None, root_hash(full)}

(* A chunk of the current state is applied in any state of the incomplete  *)
(* trie, and blocks are applied and reverted without an error.             *)
HonestInputsApply ==
    /\ last.op = "Chunk" => last.result = "Applied"
    /\ last.op \in {"Block", "Revert"} => last.result = "ok"

(* What a block records as its changes is the difference it makes, the     *)
(* diff that other nodes apply.                                            *)
DiffIsExact ==
    \A i \in 1..Len(blocks) :
        LET after  == Contents(IF i = Len(blocks) THEN full ELSE blocks[i + 1].before)
            before == Contents(blocks[i].before)
            changed == {k \in DOMAIN before \union DOMAIN after :
                            \/ k \notin DOMAIN before \/ k \notin DOMAIN after
                            \/ (k \in DOMAIN before \cap DOMAIN after /\ before[k] # after[k])}
        IN  /\ DOMAIN blocks[i].changes = changed
            /\ \A k \in changed : /\ blocks[i].changes[k].new = get(full, k) \/ i < Len(blocks)
                                  /\ blocks[i].changes[k].old = get(blocks[i].before, k)

\* Some key is shown to be absent by a leaf that is not asked for itself.
AbsentBelowLeaf(keys) ==
    \E k \in keys : \E l \in DOMAIN full.nodes \ keys :
        kind(full.nodes[l]) = "leaf" /\ IsPrefix(l, k)

(* A proof for keys that are there and keys that are not verifies against  *)
(* the root hash and yields exactly the values, from an incomplete trie as *)
(* well; against the state before the last block it yields no other value. *)
(* A proof that some key is absent below a leaf is always refused.         *)
ProofsVerify ==
    \A keys \in config.proofs :
      IF AbsentBelowLeaf(keys)
      THEN verify_values(get_proof(full, keys), root_hash(full), keys) = None
      ELSE
        LET values(db) == [k \in keys |-> get(db, k)]
            proof      == get_proof(full, keys)
            own        == get_proof(partial, keys)
        IN  /\ verify_values(proof, root_hash(full), keys) = values(full)
            /\ blocks # <<>> =>
                  verify_values(proof, root_hash(Last(blocks).before), keys)
                      \in {None, values(Last(blocks).before)}
            /\ own # None /\ root_hash(partial) # None =>
                  verify_values(own, root_hash(partial), keys) = values(full)

(* The proof that a key is not in the trie verifies, also when the node    *)
(* that shows it is a leaf whose key is a prefix of it.  Not so in the     *)
(* code: the proof is made and the verifier refuses it, see ProofsVerify.  *)
AbsenceVerifies ==
    \A keys \in config.proofs :
        verify_values(get_proof(full, keys), root_hash(full), keys) = [k \in keys |-> get(full, k)]

(* Iterating over the keys of one length yields their values in order,     *)
(* while no key that is longer sorts before the end of the range and no    *)
(* branch without a value is met: the contracts' data has one key length.  *)
IterationIsExact ==
    \A r \in config.ranges :
      ~(\E k \in DOMAIN full.nodes : /\ Len(k) >= Len(r[1])
                                      /\ ~StoredBefore(k, r[1]) /\ ~Less(r[2], k)
                                      /\ (Len(k) > Len(r[1]) \/ get(full, k) = None)) =>
        iter_nodes(full, r[1], r[2]) =
            LET keys == Ascending({k \in DOMAIN Contents(full) :
                            Len(k) = Len(r[1]) /\ ~Less(k, r[1]) /\ ~Less(r[2], k)})
            IN  [i \in 1..Len(keys) |-> get(full, keys[i])]
=============================================================================
