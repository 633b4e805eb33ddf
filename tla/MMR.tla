-------------------------------- MODULE MMR --------------------------------
(***************************************************************************)
(* Merkle Mountain Ranges (primitives/mmr).  The tree of an epoch's         *)
(* history: leaves are appended and removed at the back, the root bags the  *)
(* peaks, and four kinds of proof are made from the stored nodes: for       *)
(* chosen leaves, for a range of leaves, for the number of leaves, and a    *)
(* sequence of range proofs from which a partial tree rebuilds the tree.    *)
(* `light` is the variant that keeps only the peaks.                        *)
(*                                                                         *)
(* A hash is the term it was computed from (hashing is free of collisions):*)
(* <<prefix>> of the empty tree, <<prefix, item>> of a leaf, and            *)
(* <<prefix, left, right>> of a merge.  Node indices and leaf numbers count *)
(* from 0 as in the code; store[i + 1] is the node with index i.  The store *)
(* always holds every node below its length, so the InconsistentStore       *)
(* errors of the code have no counterpart: TLC would report the access.     *)
(***************************************************************************)
EXTENDS Integers, Sequences, FiniteSets, SequencesExt, TLC

CONSTANTS
    Items,            \* the values of leaves
    MAX_MMR_SIZE,     \* largest size a verifier looks at
    None,
    Configurations    \* what a behaviour explores, see Init

VARIABLES
    config,
    leaves,    \* the items the tree should hold (reference)
    tree,      \* MerkleMountainRange: store and num_leaves
    light,     \* PeaksMerkleMountainRange: store, len and num_leaves
    partial,   \* PartialMerkleMountainRange: store, num_proven_leaves, size, root
    origin,    \* the leaves of the tree that `partial` rebuilds (reference)
    sent       \* the proof made last, for which leaves and which verifier

vars == <<config, leaves, tree, light, partial, origin, sent>>

empty(prefix) == <<prefix>>

hash(item, prefix) == <<prefix, item>>

merge(left, right, prefix) == <<prefix, left, right>>

-----------------------------------------------------------------------------
(* Positions *)

RECURSIVE bit_length(_)
bit_length(v) == IF v = 0 THEN 0 ELSE 1 + bit_length(v \div 2)

RECURSIVE count_ones(_)
count_ones(v) == IF v = 0 THEN 0 ELSE (v % 2) + count_ones(v \div 2)

all_ones(num) == num # 0 /\ num + 1 = 2 ^ bit_length(num)

move_left(index) == index - (2 ^ (bit_length(index) - 1) - 1)

RECURSIVE MovedLeft(_)
MovedLeft(index) == IF all_ones(index) THEN index ELSE MovedLeft(move_left(index))

index_to_height(index) == count_ones(MovedLeft(index + 1)) - 1

leaf_number_to_index(number) == (2 * number) - count_ones(number)

Position(index) ==
    LET height == index_to_height(index)
    IN [index |-> index, height |-> height, right |-> index_to_height(index + 1) > height]

sibling(pos) ==
    LET offset == (2 * 2 ^ pos.height) - 1
    IN [index |-> IF pos.right THEN pos.index - offset ELSE pos.index + offset,
        height |-> pos.height, right |-> ~pos.right]

parent(pos) ==
    LET index == IF pos.right THEN pos.index + 1 ELSE pos.index + (2 * 2 ^ pos.height)
    IN [index |-> index, height |-> pos.height + 1,
        right |-> index_to_height(index + 1) > pos.height + 1]

left_child(pos) ==
    [index |-> pos.index - 2 ^ pos.height, height |-> pos.height - 1, right |-> FALSE]

right_child(pos) ==
    [index |-> pos.index - 1, height |-> pos.height - 1, right |-> TRUE]

num_leaves(pos) == 2 ^ pos.height

-----------------------------------------------------------------------------
(* Peaks and bagging *)

FirstPeak(size) ==
    LET n == CHOOSE n \in 1..(size + 1) : 2 ^ n - 1 <= size /\ size < 2 ^ (n + 1) - 1
    IN [index |-> 2 ^ n - 2, height |-> n - 1, right |-> FALSE]

(* The first left descendant of `pos` that is inside the tree. *)
RECURSIVE LeftWithin(_, _)
LeftWithin(pos, size) ==
    CASE pos.height = 0 -> <<>>
      [] pos.height > 0 /\ left_child(pos).index < size -> <<left_child(pos)>>
      [] OTHER -> LeftWithin(left_child(pos), size)

RECURSIVE PeaksFrom(_, _)
PeaksFrom(pos, size) ==
    LET next == LeftWithin(sibling(pos), size)
    IN <<pos>> \o (IF next = <<>> THEN <<>> ELSE PeaksFrom(next[1], size))

PeakIterator(size) == IF size = 0 THEN <<>> ELSE PeaksFrom(FirstPeak(size), size)

LeftPeak(index) ==
    [index |-> index, height |-> index_to_height(index), right |-> FALSE]

RECURSIVE RevPeaksFrom(_)
RevPeaksFrom(pos) ==
    LET nodes == (2 * 2 ^ pos.height) - 1
    IN <<pos>> \o (IF pos.index + 1 = nodes THEN <<>>
                   ELSE RevPeaksFrom(LeftPeak(pos.index - nodes)))

RevPeakIterator(size) == IF size = 0 THEN <<>> ELSE RevPeaksFrom(LeftPeak(size - 1))

(* `peaks_rev` lists the hash of each peak and its leaves, from the right.  *)
(* Without a peak the code reports ProveInvalidLeaves.                      *)
bagging(peaks_rev) ==
    IF peaks_rev = <<>> THEN None
    ELSE FoldLeft(LAMBDA root, peak :
                    <<merge(peak[1], root[1], root[2] + peak[2]), root[2] + peak[2]>>,
                  Head(peaks_rev), Tail(peaks_rev))[1]

-----------------------------------------------------------------------------
(* The tree *)

Get(store, index) == store[index + 1]

RECURSIVE HashUp(_, _)
HashUp(store, pos) ==
    IF ~pos.right THEN store
    ELSE LET up == parent(pos)
         IN HashUp(Append(store, merge(Get(store, sibling(pos).index),
                                       Get(store, pos.index), num_leaves(up))), up)

push(mmr, item) ==
    LET pos == Position(Len(mmr.store))
    IN [store |-> HashUp(Append(mmr.store, hash(item, num_leaves(pos))), pos),
        num_leaves |-> mmr.num_leaves + 1]

(* The leaf counter is left as it is. *)
remove_back(mmr) ==
    LET size == Len(mmr.store)
    IN [mmr EXCEPT !.store = SubSeq(@, 1, size - (index_to_height(size - 1) + 1))]

(* MerkleMountainRange::new on a store: the leaves are counted anew. *)
new(store) ==
    [store |-> store,
     num_leaves |-> FoldLeft(LAMBDA sum, peak : sum + num_leaves(peak), 0,
                             PeakIterator(Len(store)))]

get_leaf(mmr, number) ==
    IF number >= mmr.num_leaves \/ leaf_number_to_index(number) >= Len(mmr.store) THEN None
    ELSE Get(mmr.store, leaf_number_to_index(number))

get_root(store) ==
    IF store = <<>> THEN empty(0)
    ELSE LET peaks == RevPeakIterator(Len(store))
         IN bagging([i \in DOMAIN peaks |-> <<Get(store, peaks[i].index), num_leaves(peaks[i])>>])

(* find: the first leaf with the item, by its leaf number. *)
find(mmr, item) ==
    LET found == {n \in 0..(mmr.num_leaves - 1) : get_leaf(mmr, n) = hash(item, 1)}
    IN IF found = {} THEN None ELSE CHOOSE n \in found : \A other \in found : n <= other

(* The variant that stores only the peaks.  Its nodes are kept in a map;    *)
(* node 0 is never removed.                                                 *)
RECURSIVE LightHashUp(_, _)
LightHashUp(store, pos) ==
    IF ~pos.right THEN store
    ELSE LET up == parent(pos)
         IN LightHashUp((up.index :> merge(store[sibling(pos).index], store[pos.index],
                                           num_leaves(up))) @@ store, up)

PeakIndices(size) == {peak.index : peak \in ToSet(PeakIterator(size))}

push_light(mmr, item) ==
    LET pos == Position(mmr.len)
        store == LightHashUp((pos.index :> hash(item, num_leaves(pos))) @@ mmr.store, pos)
        len == mmr.len + Cardinality(DOMAIN store) - Cardinality(DOMAIN mmr.store)
        kept == {i \in DOMAIN store : i = 0 \/ i \in PeakIndices(len)}
    IN [store |-> [i \in kept |-> store[i]], len |-> len, num_leaves |-> mmr.num_leaves + 1]

get_root_light(mmr) ==
    IF mmr.len = 0 THEN empty(0)
    ELSE LET peaks == RevPeakIterator(mmr.len)
         IN bagging([i \in DOMAIN peaks |-> <<mmr.store[peaks[i].index], num_leaves(peaks[i])>>])

-----------------------------------------------------------------------------
(* Making proofs *)

(* The nodes that complete the queue of computable positions up to `peak`;  *)
(* nodes below `lower_bound` are left out.                                   *)
RECURSIVE Missing(_, _, _, _)
Missing(store, queue, peak, lower_bound) ==
    IF queue = <<>> \/ Head(queue).index = peak.index THEN <<>>
    ELSE LET other == sibling(Head(queue))
             rest == Tail(queue)
             paired == rest # <<>> /\ Head(rest).index = other.index
             node == IF paired \/ other.index < lower_bound THEN <<>>
                     ELSE <<Get(store, other.index)>>
             next == Append(IF paired THEN Tail(rest) ELSE rest, parent(Head(queue)))
         IN node \o Missing(store, next, peak, lower_bound)

prove_for_peak(store, positions, peak, lower_bound) ==
    IF positions = <<>>
    THEN IF peak.index >= lower_bound THEN <<Get(store, peak.index)>> ELSE <<>>
    ELSE Missing(store, positions, peak, lower_bound)

(* The positions that belong to a peak, and the ones after it. *)
UpTo(positions, peak) ==
    LET n == Cardinality({i \in DOMAIN positions : positions[i].index <= peak.index})
    IN <<SubSeq(positions, 1, n), SubSeq(positions, n + 1, Len(positions))>>

Proved(store, positions, tree_length, lower_bound) ==
    FoldLeft(LAMBDA acc, peak :
               LET split == UpTo(acc.rest, peak)
               IN [nodes |-> acc.nodes \o prove_for_peak(store, split[1], peak, lower_bound),
                   rest |-> split[2],
                   baggable |-> IF split[1] = <<>> THEN Append(acc.baggable, peak) ELSE <<>>],
             [nodes |-> <<>>, rest |-> positions, baggable |-> <<>>],
             PeakIterator(tree_length))

(* The peaks right of the last proven leaf become one node. *)
Bagged(nodes, baggable) ==
    IF baggable = <<>> THEN nodes
    ELSE LET n == Len(baggable)
             tail == SubSeq(nodes, Len(nodes) - n + 1, Len(nodes))
         IN Append(SubSeq(nodes, 1, Len(nodes) - n),
                   bagging(Reverse([i \in 1..n |-> <<tail[i], num_leaves(baggable[i])>>])))

prove_positions(store, positions, tree_length, assume_previous) ==
    LET lower_bound == IF assume_previous THEN positions[1].index ELSE 0
        done == Proved(store, positions, tree_length, lower_bound)
    IN CASE positions = <<>> /\ tree_length = 0 -> [mmr_size |-> 0, nodes |-> <<>>]
         [] positions = <<>> /\ tree_length # 0 -> None
         [] positions # <<>> /\ done.rest # <<>> -> None
         [] OTHER -> [mmr_size |-> tree_length, nodes |-> Bagged(done.nodes, done.baggable)]

(* `length` is the size of the verifier's tree. *)
prove(store, numbers, length) ==
    LET indices == {leaf_number_to_index(n) : n \in numbers}
        sorted == SelectSeq([i \in 1..length |-> i - 1], LAMBDA i : i \in indices)
    IN IF length > Len(store) \/ \E i \in indices : i >= length THEN None
       ELSE prove_positions(store, [k \in DOMAIN sorted |-> Position(sorted[k])], length, FALSE)

(* The leaves first..last - 1; the side of each leaf alternates. *)
prove_range(store, first, last, length, assume_previous) ==
    LET indices == SelectSeq([k \in 1..(last - first) |-> leaf_number_to_index(first + k - 1)],
                             LAMBDA i : i < Len(store))
        side(k) == Position(indices[1]).right = (k % 2 = 1)
        positions == [k \in DOMAIN indices |->
                        [index |-> indices[k], height |-> 0, right |-> side(k)]]
    IN IF length > Len(store) \/ indices = <<>> THEN None
       ELSE LET proof == prove_positions(store, positions, length, assume_previous)
            IN IF proof = None THEN None
               ELSE [proof |-> proof, assume_previous |-> assume_previous]

(* The two halves below the root.  A peak below the root stands for its     *)
(* own children.                                                             *)
SizeHalves(store, peaks) ==
    FoldLeft(LAMBDA acc, peak :
               LET node == Get(store, peak.index)
                   sum == acc.leaves + num_leaves(peak)
               IN IF acc.leaves = 0
                  THEN [leaves |-> sum, hash |-> node,
                        halves |-> IF peak.height = 0 THEN <<>>
                                   ELSE <<Get(store, left_child(peak).index),
                                          Get(store, right_child(peak).index)>>]
                  ELSE [leaves |-> sum, hash |-> merge(node, acc.hash, sum),
                        halves |-> <<node, acc.hash>>],
             [leaves |-> 0, hash |-> None, halves |-> <<>>], peaks)

(* `first` is the item of leaf 0. *)
prove_num_leaves(store, length, first) ==
    IF store = <<>> \/ length = 0 THEN <<0>>
    ELSE IF length > Len(store) THEN None
    ELSE LET done == SizeHalves(store, RevPeakIterator(length))
         IN IF done.halves = <<>> THEN <<done.leaves, first>> ELSE <<done.leaves>> \o done.halves

-----------------------------------------------------------------------------
(* Checking proofs *)

(* The root of a peak from the hashes in the queue and the proof's nodes,   *)
(* with the nodes that are left; None when they run out.                     *)
RECURSIVE Climb(_, _, _)
Climb(queue, peak, nodes) ==
    IF queue = <<>> THEN None
    ELSE IF Head(queue).pos.index = peak.index THEN <<Head(queue).hash, nodes>>
    ELSE LET at == Head(queue)
             rest == Tail(queue)
             paired == rest # <<>> /\ Head(rest).pos.index = sibling(at.pos).index
             up == parent(at.pos)
             other == IF paired THEN Head(rest).hash ELSE nodes[1]
             merged == IF at.pos.right THEN merge(other, at.hash, num_leaves(up))
                       ELSE merge(at.hash, other, num_leaves(up))
         IN IF ~paired /\ nodes = <<>> THEN None
            ELSE Climb(Append(IF paired THEN Tail(rest) ELSE rest, [pos |-> up, hash |-> merged]),
                       peak, IF paired THEN nodes ELSE Tail(nodes))

(* The peaks right of the last proof node were bagged into it. *)
AddLeaves(peaks, more) ==
    [peaks EXCEPT ![Len(peaks)] = <<@[1], @[2] + more>>]

Claimed(claims, peak) ==
    LET n == Cardinality({i \in DOMAIN claims : claims[i].pos.index <= peak.index})
    IN <<SubSeq(claims, 1, n), SubSeq(claims, n + 1, Len(claims))>>

(* One peak of calculate_peak_roots. *)
PeakRoot(acc, peak) ==
    LET split == Claimed(acc.rest, peak)
        climbed == Climb(split[1], peak, acc.nodes)
    IN CASE acc.failed -> acc
         [] ~acc.failed /\ split[1] = <<>> /\ acc.nodes # <<>> ->
              [acc EXCEPT !.peaks = Append(@, <<acc.nodes[1], num_leaves(peak)>>), !.nodes = Tail(@)]
         [] ~acc.failed /\ split[1] = <<>> /\ acc.nodes = <<>> ->
              IF acc.peaks = <<>> THEN [acc EXCEPT !.failed = TRUE]
              ELSE [acc EXCEPT !.peaks = AddLeaves(@, num_leaves(peak))]
         [] ~acc.failed /\ split[1] # <<>> /\ climbed = None -> [acc EXCEPT !.failed = TRUE]
         [] OTHER -> [acc EXCEPT !.peaks = Append(@, <<climbed[1], num_leaves(peak)>>),
                                 !.nodes = climbed[2], !.rest = split[2]]

calculate_peak_roots(proof, claims) ==
    LET done == FoldLeft(PeakRoot, [peaks |-> <<>>, nodes |-> proof.nodes, rest |-> claims,
                                    failed |-> FALSE],
                         PeakIterator(proof.mmr_size))
    IN IF proof.mmr_size = 1 /\ Len(claims) = 1 /\ claims[1].pos.index = 0
       THEN <<<<claims[1].hash, 1>>>>
       ELSE IF done.failed \/ done.rest # <<>> \/ done.nodes # <<>> THEN None ELSE done.peaks

(* `facts` lists leaf numbers with their items. *)
calculate_root_duplicates(proof, facts) ==
    LET claims == [i \in DOMAIN facts |->
                     [pos |-> Position(leaf_number_to_index(facts[i][1])), hash |-> hash(facts[i][2], 1)]]
        sorted == SortSeq(claims, LAMBDA a, b : a.pos.index < b.pos.index)
        peaks == calculate_peak_roots(proof, sorted)
    IN IF \E i \in DOMAIN claims : claims[i].pos.index >= proof.mmr_size THEN None
       ELSE IF peaks = None THEN None ELSE bagging(Reverse(peaks))

calculate_root(proof, facts) ==
    LET claims == [i \in DOMAIN facts |->
                     [pos |-> Position(leaf_number_to_index(facts[i][1])), hash |-> hash(facts[i][2], 1)]]
        sorted == SortSeq(claims, LAMBDA a, b : a.pos.index < b.pos.index)
        peaks == calculate_peak_roots(proof, sorted)
    IN CASE proof.mmr_size > MAX_MMR_SIZE -> None
         [] \E i \in DOMAIN facts : facts[i][1] >= proof.mmr_size -> None
         [] \E i \in DOMAIN claims : claims[i].pos.index >= proof.mmr_size -> None
         [] \E i, j \in DOMAIN facts : i # j /\ facts[i][1] = facts[j][1] -> None
         [] OTHER -> IF peaks = None THEN None ELSE bagging(Reverse(peaks))

verify(proof, root, facts) ==
    IF proof.mmr_size = 0 /\ proof.nodes = <<>> THEN root = empty(0)
    ELSE calculate_root(proof, facts) = root

verify_with_start(range_proof, root, first, items) ==
    /\ ~range_proof.assume_previous
    /\ items = <<>> \/ leaf_number_to_index(first + Len(items) - 1) < range_proof.proof.mmr_size
    /\ verify(range_proof.proof, root, [i \in DOMAIN items |-> <<first + i - 1, items[i]>>])

verify_size(size_proof, root) ==
    root = CASE Len(size_proof) = 1 -> empty(0)
             [] Len(size_proof) = 2 -> hash(size_proof[2], size_proof[1])
             [] OTHER -> merge(size_proof[2], size_proof[3], size_proof[1])

-----------------------------------------------------------------------------
(* Rebuilding a tree from range proofs *)

EmptyPartial == [store |-> <<>>, num_proven_leaves |-> 0, size |-> None, root |-> None]

is_finished(part) == part.size # None /\ part.size = Len(part.store)

(* get_node: a node outside the range of new nodes start..end - 1, with the *)
(* proof's nodes that are left.  A node left of the range comes from the    *)
(* store, and is compared with the proof unless the proof leaves it out.    *)
get_node(index, range, store, nodes, assume_previous) ==
    CASE index < range[1] ->
           IF index >= Len(store) THEN None
           ELSE IF assume_previous THEN <<Get(store, index), nodes>>
           ELSE IF nodes = <<>> THEN None
           ELSE IF nodes[1] # Get(store, index) THEN None
           ELSE <<Get(store, index), Tail(nodes)>>
      [] index \in range[1]..(range[2] - 1) -> None
      [] OTHER -> IF nodes = <<>> THEN None ELSE <<nodes[1], Tail(nodes)>>

Note(known, at, range) ==
    IF at.pos.index \in range[1]..(range[2] - 1) THEN (at.pos.index :> at.hash) @@ known ELSE known

(* Climbs to the peak; `known` collects the nodes of the new range. *)
RECURSIVE PartialClimb(_, _, _, _, _, _, _)
PartialClimb(queue, peak, range, store, nodes, known, assume_previous) ==
    IF queue = <<>> THEN None
    ELSE LET at == Head(queue)
             rest == Tail(queue)
             seen == Note(known, at, range)
             paired == rest # <<>> /\ Head(rest).pos.index = sibling(at.pos).index
             got == IF paired THEN <<Head(rest).hash, nodes>>
                    ELSE get_node(sibling(at.pos).index, range, store, nodes, assume_previous)
             up == parent(at.pos)
             merged == IF at.pos.right THEN merge(got[1], at.hash, num_leaves(up))
                       ELSE merge(at.hash, got[1], num_leaves(up))
         IN IF at.pos.index = peak.index
            THEN IF DOMAIN seen # range[1]..(range[2] - 1) THEN None
                 ELSE [root |-> at.hash, nodes |-> nodes,
                       fresh |-> [i \in 1..(range[2] - range[1]) |-> seen[range[1] + i - 1]]]
            ELSE IF got = None THEN None
            ELSE PartialClimb(Append(IF paired THEN Tail(rest) ELSE rest, [pos |-> up, hash |-> merged]),
                              peak, range, store, got[2],
                              IF paired THEN Note(seen, Head(rest), range) ELSE seen, assume_previous)

(* One peak of push_proof; `first` is the number of the first leaf in rest. *)
PartialPeak(acc, peak, assume_previous) ==
    LET split == Claimed(acc.rest, peak)
        last == acc.first + Len(split[1])
        range == <<leaf_number_to_index(acc.first), leaf_number_to_index(last)>>
        node == get_node(peak.index, range, acc.store, acc.nodes, assume_previous)
        climbed == PartialClimb(split[1], peak, range, acc.store, acc.nodes, <<>>, assume_previous)
    IN CASE acc.failed -> acc
         [] ~acc.failed /\ split[1] = <<>> /\ node # None ->
              [acc EXCEPT !.peaks = Append(@, <<node[1], num_leaves(peak)>>), !.nodes = node[2]]
         [] ~acc.failed /\ split[1] = <<>> /\ node = None ->
              IF acc.peaks = <<>> THEN [acc EXCEPT !.failed = TRUE]
              ELSE [acc EXCEPT !.peaks = AddLeaves(@, num_leaves(peak))]
         [] ~acc.failed /\ split[1] # <<>> /\ climbed = None -> [acc EXCEPT !.failed = TRUE]
         [] OTHER -> [acc EXCEPT !.peaks = Append(@, <<climbed.root, num_leaves(peak)>>),
                                 !.nodes = climbed.nodes, !.rest = split[2], !.first = last,
                                 !.store = @ \o climbed.fresh]

(* The partial tree after the proof, or None: nothing is stored then. *)
push_proof(part, range_proof, items) ==
    LET size == range_proof.proof.mmr_size
        first == part.num_proven_leaves
        claims == [i \in DOMAIN items |->
                     [pos |-> Position(leaf_number_to_index(first + i - 1)), hash |-> hash(items[i], 1)]]
        done == FoldLeft(LAMBDA acc, peak : PartialPeak(acc, peak, range_proof.assume_previous),
                         [peaks |-> <<>>, nodes |-> range_proof.proof.nodes, rest |-> claims,
                          first |-> first, store |-> part.store, failed |-> FALSE],
                         PeakIterator(size))
        root == bagging(Reverse(done.peaks))
    IN IF \/ size > MAX_MMR_SIZE
          \/ part.size \notin {None, size}
          \/ done.failed \/ done.rest # <<>> \/ done.nodes # <<>>
          \/ root = None
          \/ part.root # None /\ part.root # root
       THEN None
       ELSE [store |-> done.store, num_proven_leaves |-> first + Len(items), size |-> size, root |-> root]

-----------------------------------------------------------------------------
(* Behaviours *)

Init ==
    /\ config \in Configurations
    /\ leaves = <<>>
    /\ tree = new(<<>>)
    /\ light = [store |-> <<>>, len |-> 0, num_leaves |-> 0]
    /\ partial = EmptyPartial
    /\ origin = <<>>
    /\ sent = None

(* The nodes of a tree with n leaves. *)
Size(n) == leaf_number_to_index(n)

Push(item) ==
    /\ Len(leaves) < config.max_leaves
    /\ tree.num_leaves <= config.max_leaves    \* bounds the stale counter
    /\ sent = None
    /\ leaves' = Append(leaves, item)
    /\ tree' = push(tree, item)
    /\ light' = IF config.removals THEN light ELSE push_light(light, item)
    /\ UNCHANGED <<config, partial, origin, sent>>

RemoveBack ==
    /\ config.removals
    /\ sent = None
    /\ tree.store # <<>>
    /\ leaves' = Front(leaves)
    /\ tree' = remove_back(tree)
    /\ UNCHANGED <<config, light, partial, origin, sent>>

Reopen ==
    /\ tree' = new(tree.store)
    /\ tree' # tree
    /\ UNCHANGED <<config, leaves, light, partial, origin, sent>>

(* Proofs for a verifier whose tree has the first v leaves. *)
Prove(numbers, v) ==
    /\ config.proofs /\ sent = None
    /\ sent' = [kind |-> "leaves", numbers |-> numbers, v |-> v,
                proof |-> prove(tree.store, numbers, Size(v))]
    /\ UNCHANGED <<config, leaves, tree, light, partial, origin>>

ProveRange(first, last, v) ==
    /\ config.proofs /\ sent = None
    /\ sent' = [kind |-> "range", numbers |-> first..(last - 1), v |-> v,
                proof |-> prove_range(tree.store, first, last, Size(v), FALSE)]
    /\ UNCHANGED <<config, leaves, tree, light, partial, origin>>

ProveSize(v) ==
    /\ config.proofs /\ sent = None
    /\ sent' = [kind |-> "size", v |-> v,
                proof |-> prove_num_leaves(tree.store, Size(v), leaves[1])]
    /\ UNCHANGED <<config, leaves, tree, light, partial, origin>>

Forget ==
    /\ sent # None
    /\ sent' = None
    /\ UNCHANGED <<config, leaves, tree, light, partial, origin>>

(* The next `count` leaves with their range proof reach the partial tree.   *)
(* The first proof fixes which tree is rebuilt: the first v leaves.          *)
Download(count, v, assume_previous) ==
    LET first == partial.num_proven_leaves
        range_proof == prove_range(tree.store, first, first + count, Size(v), assume_previous)
        items == SubSeq(leaves, first + 1, first + count)
    IN /\ config.downloads
       /\ first + count <= v /\ v <= Len(leaves)
       /\ partial.size \in {None, Size(v)}
       /\ range_proof # None
       /\ \E pushed \in {push_proof(partial, range_proof, items)} :
            /\ pushed # None
            /\ partial' = pushed
       /\ origin' = IF partial.size = None THEN SubSeq(leaves, 1, v) ELSE origin
       /\ UNCHANGED <<config, leaves, tree, light, sent>>

(* The finished partial tree becomes a tree, and another one is started. *)
IntoMMR ==
    /\ is_finished(partial)
    /\ partial' = EmptyPartial
    /\ origin' = <<>>
    /\ UNCHANGED <<config, leaves, tree, light, sent>>

Numbers == 0..(Len(leaves) - 1)

Next ==
    \/ \E item \in config.items : Push(item)
    \/ RemoveBack
    \/ Reopen
    \/ \E v \in 1..Len(leaves) : \E numbers \in SUBSET (0..(v - 1)) : Prove(numbers, v)
    \/ \E v \in 1..Len(leaves) : \E first \in 0..(v - 1) : \E last \in (first + 1)..v :
         ProveRange(first, last, v)
    \/ \E v \in 1..Len(leaves) : ProveSize(v)
    \/ Forget
    \/ \E v \in 1..Len(leaves), count \in 1..config.max_leaves, previous \in BOOLEAN :
         Download(count, v, previous)
    \/ IntoMMR

Spec == Init /\ [][Next]_vars

-----------------------------------------------------------------------------
(* Properties *)

RECURSIVE HashPerfect(_)
HashPerfect(items) ==
    IF Len(items) = 1 THEN hash(items[1], 1)
    ELSE LET half == Len(items) \div 2
         IN merge(HashPerfect(SubSeq(items, 1, half)),
                  HashPerfect(SubSeq(items, half + 1, Len(items))), Len(items))

(* The root of a list of items, from the definition of the tree: the        *)
(* largest perfect tree on the left, the rest on the right.                  *)
RECURSIVE HashMMR(_)
HashMMR(items) ==
    IF items = <<>> THEN empty(0)
    ELSE LET n == CHOOSE p \in {2 ^ k : k \in 0..Len(items)} : p <= Len(items) /\ Len(items) < 2 * p
         IN IF n = Len(items) THEN HashPerfect(items)
            ELSE merge(HashPerfect(SubSeq(items, 1, n)),
                       HashMMR(SubSeq(items, n + 1, Len(items))), Len(items))

Prefix(n) == SubSeq(leaves, 1, n)

(* The stores hold whole trees and the partial tree whole prefixes. *)
TypeOK ==
    /\ leaves \in Seq(Items)
    /\ Len(tree.store) = Size(Len(leaves))
    /\ tree.num_leaves \in Nat
    /\ PeakIterator(Len(tree.store)) = Reverse(RevPeakIterator(Len(tree.store)))
    /\ light.len = Size(light.num_leaves)
    /\ Cardinality(DOMAIN light.store) <= 1 + Cardinality(PeakIndices(light.len))
    /\ partial.num_proven_leaves \in 0..config.max_leaves
    /\ Len(partial.store) = Size(partial.num_proven_leaves)

(* Whatever was pushed and removed, and whether all nodes or only the peaks *)
(* are kept, the root is the hash of the current list of leaves, each leaf  *)
(* is found under its number, and an opened tree counts its leaves.          *)
RootIsOfLeaves ==
    /\ get_root(tree.store) = HashMMR(leaves)
    /\ new(tree.store).num_leaves = Len(leaves)
    /\ \A n \in Numbers : get_leaf(new(tree.store), n) = hash(leaves[n + 1], 1)
    /\ light.num_leaves > 0 => get_root_light(light) = HashMMR(leaves)

Facts(numbers) ==
    LET sorted == SelectSeq([i \in 1..Len(leaves) |-> i - 1], LAMBDA i : i \in numbers)
    IN [i \in DOMAIN sorted |-> <<sorted[i], leaves[sorted[i] + 1]>>]

(* A proof made for a verifier that knows an earlier state of the tree is   *)
(* accepted by it, for the leaves it was asked for.                          *)
ProofsVerify ==
    sent # None =>
      LET root == HashMMR(Prefix(sent.v))
      IN CASE sent.kind = "leaves" ->
                IF sent.numbers = {} THEN sent.proof = None
                ELSE sent.proof # None /\ verify(sent.proof, root, Facts(sent.numbers))
           [] sent.kind = "range" ->
                /\ sent.proof # None
                /\ \E first \in sent.numbers :
                     /\ \A n \in sent.numbers : first <= n
                     /\ verify_with_start(sent.proof, root, first,
                                          SubSeq(leaves, first + 1, first + Cardinality(sent.numbers)))
           [] sent.kind = "size" -> sent.proof # None /\ verify_size(sent.proof, root)

(* A proof convinces nobody of leaves the tree does not have: no other item *)
(* in place of a proven leaf, none beside a leaf that is proven already, no *)
(* leaf at another number, and no other number of leaves.                    *)
ProofsBind ==
    (sent # None /\ sent.proof # None) =>
      LET root == HashMMR(Prefix(sent.v))
          facts == Facts(sent.numbers)
          Wrong(i, item) == [facts EXCEPT ![i][2] = item]
      IN CASE sent.kind = "leaves" ->
                /\ \A i \in DOMAIN facts, item \in Items :
                     /\ item # facts[i][2] => ~verify(sent.proof, root, Wrong(i, item))
                     /\ ~verify(sent.proof, root, Append(facts, <<facts[i][1], item>>))
                /\ \A i \in DOMAIN facts, n \in Numbers :
                     (facts[i][2] # leaves[n + 1]) =>
                        ~verify(sent.proof, root, [facts EXCEPT ![i][1] = n])
           [] sent.kind = "range" -> TRUE
           [] sent.kind = "size" ->
                /\ sent.proof[1] = sent.v
                /\ \A n \in 0..(config.max_leaves + 1) :
                     n # sent.v => ~verify_size(<<n>> \o Tail(sent.proof), root)

(* The partial tree is always the beginning of the tree it rebuilds, even   *)
(* when that tree is cut back and extended differently between two proofs;  *)
(* once finished it has that tree's root.                                    *)
PartialIsPrefix ==
    partial.size # None =>
      /\ partial.root = HashMMR(origin)
      /\ \A n \in 0..(partial.num_proven_leaves - 1) :
           get_leaf(new(partial.store), n) = hash(origin[n + 1], 1)
      /\ get_root(partial.store) = HashMMR(SubSeq(origin, 1, partial.num_proven_leaves))
      /\ is_finished(partial) <=> partial.num_proven_leaves = Len(origin)

(* The next range proof of a tree that still starts with the leaves being   *)
(* rebuilt is accepted, with and without the nodes already known.            *)
DownloadProgresses ==
    (config.downloads /\ partial.size # None /\ IsPrefix(origin, leaves)) =>
      \A count \in 1..(Len(origin) - partial.num_proven_leaves), previous \in BOOLEAN :
        LET first == partial.num_proven_leaves
            proof == prove_range(tree.store, first, first + count, partial.size, previous)
        IN /\ proof # None
           /\ push_proof(partial, proof, SubSeq(leaves, first + 1, first + count)) # None

(* Every leaf is found at its number, and none where there is none, though  *)
(* the count of the leaves is too large after remove_back.                   *)
LeavesAreFound ==
    /\ tree.num_leaves >= Len(leaves)
    /\ \A n \in 0..config.max_leaves :
          get_leaf(tree, n) = IF n < Len(leaves) THEN hash(leaves[n + 1], 1) ELSE None

(* The tree knows how many leaves it has.  Not so in the code: remove_back   *)
(* leaves the count as it is, until the tree is opened again.                *)
LeafCountIsExact == tree.num_leaves = Len(leaves)

=============================================================================
