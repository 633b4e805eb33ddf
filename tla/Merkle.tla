------------------------------- MODULE Merkle -------------------------------
(***************************************************************************)
(* Merkle trees over lists (utils/merkle, primitives/merkle_tree): the      *)
(* root, paths to one leaf (addresses of multisig signers), proofs for      *)
(* several leaves and for the absence of a value, and two schemes that      *)
(* prove a long list chunk by chunk.  The incremental one keeps its levels  *)
(* in a builder to which items are pushed and from which they are popped;   *)
(* its steps are the actions of this module, everything else is a function  *)
(* of the list and is checked for every list that is reached.               *)
(*                                                                         *)
(* A hash is the term it was computed from: <<>> of nothing, <<item>> of an *)
(* item, <<left, right>> of two hashes.                                     *)
(***************************************************************************)
EXTENDS Integers, Sequences, FiniteSets, SequencesExt, TLC

CONSTANTS
    None,
    BYTE,             \* bits of a byte, an even number
    Configurations    \* which items, how many, in chunks of which size

VARIABLES
    config,
    values,    \* the items in the builder (reference)
    tree,      \* the builder's levels, the leaves first
    popped     \* whether an item was removed

vars == <<config, values, tree, popped>>

Hashes(items) == [i \in DOMAIN items |-> <<items[i]>>]

Half(n) == (n + 1) \div 2

(* The front half has the middle element. *)
Front2(s) == SubSeq(s, 1, Half(Len(s)))
Back2(s) == SubSeq(s, Half(Len(s)) + 1, Len(s))

RECURSIVE compute_root_from_hashes(_)
compute_root_from_hashes(hashes) ==
    CASE Len(hashes) = 0 -> <<>>
      [] Len(hashes) = 1 -> hashes[1]
      [] OTHER -> <<compute_root_from_hashes(Front2(hashes)), compute_root_from_hashes(Back2(hashes))>>

compute_root_from_content(items) == compute_root_from_hashes(Hashes(items))

(* The list halves evenly on every level. *)
RECURSIVE merkle_tree_construct(_)
merkle_tree_construct(hashes) ==
    IF Len(hashes) = 1 THEN hashes[1]
    ELSE merkle_tree_construct([i \in 1..(Len(hashes) \div 2) |-> <<hashes[2 * i - 1], hashes[2 * i]>>])

-----------------------------------------------------------------------------
(* Paths *)

(* MerklePath::compute: whether the leaf is below, the hash, and the path   *)
(* to which both halves have already been added.                             *)
RECURSIVE PathTo(_, _)
PathTo(items, leaf) ==
    CASE Len(items) = 0 -> [found |-> FALSE, hash |-> <<>>, path |-> <<>>]
      [] Len(items) = 1 -> [found |-> items[1] = leaf, hash |-> <<items[1]>>, path |-> <<>>]
      [] OTHER ->
           LET l == PathTo(Front2(items), leaf)
               r == PathTo(Back2(items), leaf)
               step == IF l.found THEN <<[hash |-> r.hash, left |-> FALSE]>>
                       ELSE IF r.found THEN <<[hash |-> l.hash, left |-> TRUE]>> ELSE <<>>
           IN [found |-> l.found \/ r.found, hash |-> <<l.hash, r.hash>>, path |-> l.path \o r.path \o step]

path_new(items, leaf) == PathTo(items, leaf).path

path_compute_root(path, leaf) ==
    FoldLeft(LAMBDA root, node : IF node.left THEN <<node.hash, root>> ELSE <<root, node.hash>>,
             <<leaf>>, path)

Bytes(n, per_byte) == (n + per_byte - 1) \div per_byte

(* The numbers v(1), ..., v(n) in `width` bits each, `per_byte` of them in  *)
(* a byte; `high` is whether the first is in the high bits.                  *)
Packed(v, width, high) ==
    LET per_byte == BYTE \div width
        shift(k) == width * (IF high THEN per_byte - 1 - ((k - 1) % per_byte) ELSE (k - 1) % per_byte)
    IN [b \in 1..Bytes(Len(v), per_byte) |->
          FoldLeft(LAMBDA sum, k : IF (k - 1) \div per_byte = b - 1 THEN sum + v[k] * 2 ^ shift(k) ELSE sum,
                   0, [k \in 1..Len(v) |-> k])]

Unpacked(n, bytes, width, high) ==
    LET per_byte == BYTE \div width
        shift(k) == width * (IF high THEN per_byte - 1 - ((k - 1) % per_byte) ELSE (k - 1) % per_byte)
    IN [k \in 1..n |-> (bytes[((k - 1) \div per_byte) + 1] \div 2 ^ shift(k)) % 2 ^ width]

path_serialize(path) ==
    IF path = <<>> THEN [nodes_len |-> 0]
    ELSE [nodes_len |-> Len(path),
          compressed |-> Packed([i \in DOMAIN path |-> IF path[i].left THEN 1 ELSE 0], 1, TRUE),
          node_hashes |-> [i \in DOMAIN path |-> path[i].hash]]

path_deserialize(ser) ==
    IF ser.nodes_len = 0 THEN <<>>
    ELSE IF Bytes(ser.nodes_len, BYTE) # Len(ser.compressed) \/ Len(ser.node_hashes) # ser.nodes_len THEN None
    ELSE LET left == Unpacked(ser.nodes_len, ser.compressed, 1, TRUE)
         IN [i \in 1..ser.nodes_len |-> [hash |-> ser.node_hashes[i], left |-> left[i] = 1]]

-----------------------------------------------------------------------------
(* Proofs for several leaves *)

ConsumeProof == 0
ConsumeInput == 1
Hash == 2

RECURSIVE ProofOf(_, _)
ProofOf(hashes, wanted) ==
    LET skip(hash) == [found |-> FALSE, hash |-> hash, nodes |-> <<hash>>, operations |-> <<ConsumeProof>>]
    IN CASE Len(hashes) = 0 -> skip(<<>>)
         [] Len(hashes) = 1 ->
              IF hashes[1] \notin wanted THEN skip(hashes[1])
              ELSE [found |-> TRUE, hash |-> hashes[1], nodes |-> <<>>, operations |-> <<ConsumeInput>>]
         [] OTHER ->
              LET l == ProofOf(Front2(hashes), wanted)
                  r == ProofOf(Back2(hashes), wanted)
              IN IF ~l.found /\ ~r.found THEN skip(<<l.hash, r.hash>>)
                 ELSE [found |-> TRUE, hash |-> <<l.hash, r.hash>>, nodes |-> l.nodes \o r.nodes,
                       operations |-> l.operations \o r.operations \o <<Hash>>]

proof_new(hashes, wanted) ==
    LET done == ProofOf(hashes, wanted) IN [nodes |-> done.nodes, operations |-> done.operations]

(* with_absence: of sorted items, the ones that show which of the wanted    *)
(* items are there: the item itself, or its neighbours.                      *)
RECURSIVE Witnesses(_, _, _, _)
Witnesses(items, wanted, v, w) ==
    IF w > Len(wanted) THEN {}
    ELSE IF v > Len(items) THEN IF items = <<>> THEN {} ELSE {items[Len(items)]}
    ELSE CASE items[v] = wanted[w] -> {wanted[w]} \cup Witnesses(items, wanted, v, w + 1)
           [] items[v] > wanted[w] ->
                (IF v > 1 THEN {items[v - 1]} ELSE {}) \cup {items[v]} \cup Witnesses(items, wanted, v, w + 1)
           [] items[v] < wanted[w] -> Witnesses(items, wanted, v + 1, w)

Ascending(S, n) == SelectSeq([i \in 1..n |-> i], LAMBDA x : x \in S)

with_absence(items, wanted) ==
    proof_new(Hashes(items),
              {<<x>> : x \in Witnesses(items, Ascending(wanted, 2 * Len(items) + 1), 1, 1)})

(* One operation of compute_root on the stack. *)
Operate(st, op) ==
    CASE st = None -> None
      [] st # None /\ op = ConsumeProof ->
           IF st.nodes = <<>> THEN None ELSE [st EXCEPT !.stack = Append(@, st.nodes[1]), !.nodes = Tail(@)]
      [] st # None /\ op = ConsumeInput ->
           IF st.inputs = <<>> THEN None ELSE [st EXCEPT !.stack = Append(@, st.inputs[1]), !.inputs = Tail(@)]
      [] st # None /\ op = Hash ->
           LET n == Len(st.stack)
           IN IF n < 2 THEN None
              ELSE [st EXCEPT !.stack = Append(SubSeq(@, 1, n - 2), <<@[n - 1], @[n]>>)]

proof_compute_root(proof, inputs) ==
    LET done == FoldLeft(Operate, [stack |-> <<>>, nodes |-> proof.nodes, inputs |-> inputs], proof.operations)
    IN IF done = None THEN None
       ELSE IF Len(done.stack) # 1 \/ done.nodes # <<>> \/ done.inputs # <<>> THEN None
       ELSE done.stack[1]

proof_serialize(proof) ==
    [operations_len |-> Len(proof.operations), compressed |-> Packed(proof.operations, 2, FALSE),
     nodes |-> proof.nodes]

proof_deserialize(ser) ==
    LET operations == Unpacked(ser.operations_len, ser.compressed, 2, FALSE)
    IN IF \/ Len(ser.compressed) # Bytes(ser.operations_len, BYTE \div 2)
          \/ \E i \in DOMAIN operations : operations[i] \notin {ConsumeProof, ConsumeInput, Hash}
       THEN None
       ELSE [nodes |-> ser.nodes, operations |-> operations]

-----------------------------------------------------------------------------
(* Chunk proofs over the same tree (PartialMerkleProofBuilder) *)

Chunks(n, chunk_size) == (n + chunk_size - 1) \div chunk_size

(* The proof nodes of the chunks 0.. for the items start..end - 1, with     *)
(* their hash: every chunk that starts left of the middle needs the right   *)
(* half, unless it reaches into it.                                          *)
RECURSIVE ChunkNodes(_, _, _, _, _)
ChunkNodes(hashes, chunk_size, start, end, nodes) ==
    CASE end = start -> [hash |-> <<>>, nodes |-> nodes]
      [] end = start + 1 -> [hash |-> hashes[start + 1], nodes |-> nodes]
      [] OTHER ->
           LET mid == start + Half(end - start)
               l == ChunkNodes(hashes, chunk_size, start, mid, nodes)
               r == ChunkNodes(hashes, chunk_size, mid, end, l.nodes)
               needing == (start \div chunk_size)..((mid \div chunk_size) - 1)
           IN [hash |-> <<l.hash, r.hash>>,
               nodes |-> [c \in DOMAIN nodes |->
                            IF c \in needing THEN Append(r.nodes[c], r.hash) ELSE r.nodes[c]]]

get_proofs(hashes, chunk_size) ==
    LET n == Len(hashes)
        done == ChunkNodes(hashes, chunk_size, 0, n, [c \in 0..(Chunks(n, chunk_size) - 1) |-> <<>>])
    IN [c \in DOMAIN done.nodes |-> [total_len |-> n, nodes |-> done.nodes[c]]]

(* PartialMerkleProof::compute.  Helper nodes are taken from the end, proof *)
(* nodes from the front; `out` are the helper nodes of the next chunk.       *)
RECURSIVE PartialRoot(_, _, _, _, _)
PartialRoot(hashes, start, end, offset, st) ==
    CASE st = None -> None
      [] st # None /\ end <= offset ->
           IF st.helpers = <<>> THEN None
           ELSE [st EXCEPT !.helpers = Front(@), !.hash = Last(st.helpers), !.proof_node = FALSE]
      [] st # None /\ end > offset /\ start >= offset + Len(hashes) ->
           IF st.nodes = <<>> THEN None
           ELSE [st EXCEPT !.nodes = Tail(@), !.hash = Head(st.nodes), !.proof_node = TRUE]
      [] st # None /\ end > offset /\ start < offset + Len(hashes) /\ end <= start + 1 ->
           [st EXCEPT !.hash = IF end = start THEN <<>> ELSE hashes[start - offset + 1],
                      !.proof_node = FALSE]
      [] OTHER ->
           LET mid == start + Half(end - start)
               l == PartialRoot(hashes, start, mid, offset, st)
               r == PartialRoot(hashes, mid, end, offset, l)
           IN IF r = None THEN None
              ELSE [r EXCEPT !.hash = <<l.hash, r.hash>>,
                             !.out = IF ~l.proof_node /\ r.proof_node THEN Append(@, l.hash) ELSE @,
                             !.proof_node = l.proof_node \/ r.proof_node]

First == [root |-> None, helpers |-> <<>>, next_index |-> 0]

partial_compute_root(proof, hashes, previous) ==
    LET done == PartialRoot(hashes, 0, proof.total_len, previous.next_index,
                            [helpers |-> previous.helpers, nodes |-> proof.nodes, out |-> <<>>,
                             hash |-> <<>>, proof_node |-> FALSE])
    IN IF done = None THEN None
       ELSE IF done.helpers # <<>> \/ done.nodes # <<>> THEN None
       ELSE [root |-> done.hash, helpers |-> done.out, next_index |-> previous.next_index + Len(hashes)]

-----------------------------------------------------------------------------
(* The incremental builder.  levels[1] are the leaves, positions count from *)
(* 0 as in the code.                                                         *)
RECURSIVE Rebuilt(_, _, _)
Rebuilt(levels, level, pos) ==
    IF pos = 0 THEN IF level # Len(levels) THEN Front(levels) ELSE levels
    ELSE LET cut == IF pos + 1 # Len(levels[level]) THEN [levels EXCEPT ![level] = Front(@)] ELSE levels
             own == cut[level]
             hash == IF pos % 2 = 1 THEN <<own[pos], own[pos + 1]>> ELSE own[pos + 1]
             up == pos \div 2
             grown == IF level = Len(cut) THEN Append(cut, <<>>) ELSE cut
             set == IF up >= Len(grown[level + 1]) THEN [grown EXCEPT ![level + 1] = Append(@, hash)]
                    ELSE [grown EXCEPT ![level + 1][up + 1] = hash]
         IN Rebuilt(set, level + 1, up)

update(levels) == IF levels[1] = <<>> THEN levels ELSE Rebuilt(levels, 1, Len(levels[1]) - 1)

(* What push returns. *)
pushed_chunk(levels, chunk_size) == Len(levels[1]) \div chunk_size

root(levels) == IF Last(levels) = <<>> THEN None ELSE Last(levels)[1]

RECURSIVE RightNodes(_, _, _)
RightNodes(levels, level, pos) ==
    IF level > Len(levels) THEN <<>>
    ELSE IF pos + 1 >= Len(levels[level]) THEN <<>>
    ELSE (IF pos % 2 = 0 THEN <<levels[level][pos + 2]>> ELSE <<>>) \o RightNodes(levels, level + 1, pos \div 2)

chunk(levels, index, chunk_size) ==
    IF index * chunk_size >= Len(levels[1]) THEN None
    ELSE [total_len |-> Len(levels[1]), nodes |-> RightNodes(levels, 1, (index + 1) * chunk_size - 1)]

(* One level of IncrementalMerkleProof::compute_root: `lv` is the level,    *)
(* `st` the progress on it.  `marks` are the offsets of the positions whose *)
(* hash depends on a proof node.                                             *)
RECURSIVE HashLevel(_, _)
HashLevel(lv, st) ==
    LET inside == st.pos >= lv.left
        last == st.pos + 1 >= lv.len
        from_proof == ~last /\ st.pos + 1 > lv.right
        at == st.pos - lv.offset
        marks == IF from_proof THEN st.marks \cup {at + 1} ELSE st.marks
        left == IF inside THEN lv.hashes[st.pos - lv.left + 1] ELSE st.helpers[1]
        right == IF from_proof THEN st.nodes[1] ELSE lv.hashes[st.pos + 2 - lv.left]
        depends == at \in marks \/ (~last /\ at + 1 \in marks)
        up == (st.pos \div 2) - ((lv.offset \div 4) * 2)
    IN IF st = None \/ st.pos > lv.right THEN st
       ELSE IF \/ inside /\ st.pos - lv.left >= Len(lv.hashes)
               \/ ~inside /\ st.helpers = <<>>
               \/ from_proof /\ st.nodes = <<>>
               \/ ~last /\ ~from_proof /\ st.pos + 1 - lv.left >= Len(lv.hashes)
            THEN None
       ELSE LET done == [st EXCEPT
                  !.pos = IF last THEN lv.right + 1 ELSE st.pos + 2,
                  !.helpers = IF inside THEN @ ELSE Tail(@),
                  !.nodes = IF from_proof THEN Tail(@) ELSE @,
                  !.marks = marks,
                  !.next_marks = IF depends THEN @ \cup {up} ELSE @,
                  !.next = Append(@, IF last THEN left ELSE <<left, right>>),
                  !.out = IF ~last /\ at \notin marks /\ at + 1 \in marks THEN Append(@, left) ELSE @]
            IN HashLevel(lv, done)

RECURSIVE HashLevels(_, _, _)
HashLevels(depth, lv, st) ==
    IF st = None \/ depth = 0 THEN st
    ELSE LET done == HashLevel(lv, st)
             pos == (lv.left \div 4) * 2
         IN IF done = None THEN None
            ELSE HashLevels(depth - 1,
                   [hashes |-> done.next, left |-> lv.left \div 2, right |-> lv.right \div 2,
                    len |-> Half(lv.len), offset |-> pos],
                   [done EXCEPT !.pos = pos, !.marks = done.next_marks, !.next_marks = {},
                                !.next = <<>>, !.level = done.next])

Depth(n) == CHOOSE d \in 0..n : 2 ^ d >= n /\ \A e \in 0..(d - 1) : 2 ^ e < n

incremental_compute_root(proof, hashes, previous) ==
    LET offset == previous.next_index
        pos == (offset \div 2) * 2
        done == HashLevels(Depth(proof.total_len),
                  [hashes |-> hashes, left |-> offset, right |-> offset + Len(hashes) - 1,
                   len |-> proof.total_len, offset |-> pos],
                  [pos |-> pos, helpers |-> previous.helpers, nodes |-> proof.nodes, marks |-> {},
                   next_marks |-> {}, next |-> <<>>, out |-> <<>>, level |-> <<>>])
    IN IF hashes = <<>> \/ done = None THEN None
       ELSE IF \/ done.helpers # <<>> \/ done.nodes # <<>>
               \/ Len(done.level) # 1
               \/ previous.root # None /\ previous.root # done.level[1]
            THEN None
       ELSE [root |-> done.level[1], helpers |-> done.out, next_index |-> offset + Len(hashes)]

-----------------------------------------------------------------------------
(* Behaviours *)

Init ==
    /\ config \in Configurations
    /\ values = <<>>
    /\ tree = <<<<>>>>
    /\ popped = FALSE

NextItems == IF config.sorted THEN {2 * (Len(values) + 1)} ELSE config.items

push(item) ==
    /\ Len(values) < config.max_len
    /\ values' = Append(values, item)
    /\ tree' = update([tree EXCEPT ![1] = Append(@, <<item>>)])
    /\ UNCHANGED <<config, popped>>

pop ==
    /\ config.pops
    /\ values # <<>>
    /\ values' = Front(values)
    /\ tree' = update([tree EXCEPT ![1] = Front(@)])
    /\ popped' = TRUE
    /\ UNCHANGED config

Next == (\E item \in NextItems : push(item)) \/ pop

Spec == Init /\ [][Next]_vars

-----------------------------------------------------------------------------
(* Properties *)

Chunk(s, c) ==
    SubSeq(s, c * config.chunk_size + 1,
           IF (c + 1) * config.chunk_size < Len(s) THEN (c + 1) * config.chunk_size ELSE Len(s))

Values == ToSet(values)

NoDuplicates == Cardinality(Values) = Len(values)

(* The builder has one level per halving of its leaves. *)
TypeOK ==
    /\ tree[1] = Hashes(values)
    /\ Len(tree) = (IF values = <<>> THEN 1 ELSE Depth(Len(values)) + 1)
    /\ popped => config.pops

RECURSIVE LevelRoot(_)
LevelRoot(hashes) ==
    IF Len(hashes) = 1 THEN hashes[1]
    ELSE LevelRoot([i \in 1..Half(Len(hashes)) |->
                      IF 2 * i <= Len(hashes) THEN <<hashes[2 * i - 1], hashes[2 * i]>> ELSE hashes[2 * i - 1]])

(* The builder's root depends only on the items it holds, not on the order  *)
(* of pushes and pops that led to them.                                      *)
RootIsOfItems ==
    /\ root(tree) = IF values = <<>> THEN None ELSE LevelRoot(Hashes(values))
    /\ Len(values) \in {1, 2, 4, 8} =>
         /\ merkle_tree_construct(Hashes(values)) = root(tree)
         /\ compute_root_from_content(values) = root(tree)

(* With distinct items, the path to an item leads to the root after it was  *)
(* sent, and the path made for an item that is not there does not.           *)
PathsVerify ==
    NoDuplicates =>
      \A item \in Values \cup {1} :
        LET path == path_deserialize(path_serialize(path_new(values, item)))
        IN path_compute_root(path, item) = compute_root_from_content(values) <=> item \in Values

(* A proof for any of the items leads to the root from these items in their *)
(* order, also after it was sent, and from no others.                        *)
ProofsVerify ==
    config.proofs => \A wanted \in SUBSET Values :
      LET proof == proof_deserialize(proof_serialize(proof_new(Hashes(values), {<<x>> : x \in wanted})))
          inputs == Hashes(SelectSeq(values, LAMBDA x : x \in wanted))
      IN /\ proof_compute_root(proof, inputs) = compute_root_from_content(values)
         /\ \A i \in DOMAIN inputs :
              proof_compute_root(proof, [inputs EXCEPT ![i] = <<1>>]) # compute_root_from_content(values)

(* Over sorted items, a proof with absence shows each wanted item or the    *)
(* two items between which it is missing.                                    *)
AbsenceIsShown ==
    (config.sorted /\ config.proofs) =>
      \A wanted \in SUBSET (1..(2 * Len(values) + 1)) :
        LET shown == Witnesses(values, Ascending(wanted, 2 * Len(values) + 1), 1, 1)
            below(x) == {v \in Values : v < x}
            above(x) == {v \in Values : v > x}
        IN /\ proof_compute_root(with_absence(values, wanted),
                                 Hashes(SelectSeq(values, LAMBDA x : x \in shown)))
                = compute_root_from_content(values)
           /\ \A x \in wanted :
                \/ x \in shown
                \/ /\ x \notin Values
                   /\ \A v \in below(x) : (\A u \in below(x) : u <= v) => v \in shown
                   /\ \A v \in above(x) : (\A u \in above(x) : u >= v) => v \in shown

RECURSIVE VerifiedPartial(_)
VerifiedPartial(c) ==
    LET previous == IF c = 0 THEN First ELSE VerifiedPartial(c - 1)
    IN IF previous = None THEN None
       ELSE partial_compute_root(get_proofs(Hashes(values), config.chunk_size)[c],
                                 Hashes(Chunk(values, c)), previous)

(* Verifying chunk after chunk, each proof taking the result of the one     *)
(* before, succeeds and gives the root of the whole list.                    *)
PartialChunksVerify ==
    \A c \in 0..(Chunks(Len(values), config.chunk_size) - 1) :
      LET result == VerifiedPartial(c)
      IN result # None /\ result.root = compute_root_from_content(values)

RECURSIVE VerifiedIncremental(_)
VerifiedIncremental(c) ==
    LET previous == IF c = 0 THEN First ELSE VerifiedIncremental(c - 1)
    IN IF previous = None THEN None
       ELSE incremental_compute_root(chunk(tree, c, config.chunk_size), Hashes(Chunk(values, c)), previous)

(* The same for the builder's chunks, when nothing was popped and there is  *)
(* more than one item.  After a pop a chunk may be refused, and the chunk of *)
(* a single item always is; but no chunk gives another root, and none is     *)
(* accepted with another item.                                               *)
IncrementalChunksVerify ==
      \A c \in 0..(Chunks(Len(values), config.chunk_size) - 1) :
        LET result == VerifiedIncremental(c)
            previous == IF c = 0 THEN First ELSE VerifiedIncremental(c - 1)
            items == Hashes(Chunk(values, c))
            Accepted(hashes) ==
                LET other == incremental_compute_root(chunk(tree, c, config.chunk_size), hashes, previous)
                IN IF other = None THEN FALSE ELSE other.root = root(tree)
        IN /\ ~popped /\ Len(values) > 1 => result # None
           /\ Len(values) = 1 => result = None
           /\ result # None => result.root = root(tree)
           /\ previous # None =>
                 \A i \in DOMAIN items : ~Accepted([items EXCEPT ![i] = <<1>>])

(* The chunks of every builder verify.  Not so in the code: popping leaves   *)
(* an unused node on a level, which the next chunk proofs contain, and the   *)
(* only chunk of a single item is refused; see IncrementalChunksVerify.      *)
BuilderChunksVerify ==
    \A c \in 0..(Chunks(Len(values), config.chunk_size) - 1) :
      LET result == VerifiedIncremental(c) IN result # None /\ result.root = root(tree)

(* Pushing returns the chunk in which the item is.  Not so in the code: the  *)
(* last item of a chunk is told to be in the next one.                       *)
PushTellsChunk ==
    [][Len(values') > Len(values) =>
         pushed_chunk(tree', config.chunk_size) = (Len(values') - 1) \div config.chunk_size]_vars

=============================================================================
