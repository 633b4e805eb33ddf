----------------------------- MODULE BlockProof -----------------------------
(***************************************************************************)
(* Interlinks of election blocks and the block inclusion proofs built from *)
(* them (primitives/block/src/block_proof.rs, macro_block.rs).             *)
(*                                                                         *)
(* An election block is named by its epoch and by whether it is one of the *)
(* chain.  A block that is not may reference any earlier block; hashes do  *)
(* not collide, so a block of the chain only references the chain.         *)
(***************************************************************************)
EXTENDS Integers, Sequences, FiniteSets, FiniteSetsExt, SequencesExt

CONSTANT MaxEpoch

Own(e) == [epoch |-> e, own |-> TRUE]
Foreign(e) == [epoch |-> e, own |-> FALSE]

trailing_zeros(n) == Max({k \in 0 .. n : n % (2 ^ k) = 0})
ilog2(n) == Max({k \in 0 .. n : 2 ^ k <= n})

(***************************************************************************)
(* get_next_interlink of election block e with interlink links, as epochs. *)
(* The assertion of the code is that the result is long enough.            *)
(***************************************************************************)
get_next_interlink(e, links) ==
    LET update == IF e = 0 THEN 0 ELSE trailing_zeros(e)
        grown == IF update > Len(links) THEN Append(links, e) ELSE links
    IN [i \in DOMAIN grown |-> IF i <= update THEN e ELSE grown[i]]

InterlinkTable ==
    LET link[e \in 0 .. MaxEpoch] ==
            IF e = 0 THEN <<>> ELSE get_next_interlink(e - 1, link[e - 1])
    IN [e \in 0 .. MaxEpoch |-> link[e]]
InterlinksLongEnough ==
    \A e \in 1 .. MaxEpoch - 1 : Len(InterlinkTable[e + 1]) >= trailing_zeros(e)

(* b.header.interlink contains c.hash(), b.header.parent_election_hash is c.hash() *)
Interlinks(b, c) ==
    IF b.own THEN c.own /\ c.epoch \in ToSet(InterlinkTable[b.epoch]) ELSE c.epoch < b.epoch
ParentElection(b, c) ==
    c.epoch = b.epoch - 1 /\ (b.own => c.own)

(***************************************************************************)
(* get_interlink_hops: from the head down, the interlink that gets closest *)
(* to the target from above, until the hop links to the target or is its   *)
(* child.                                                                  *)
(***************************************************************************)
Linked(prev, i) == (prev \div (2 ^ i)) * (2 ^ i)

get_interlink_hops(target, latest) ==
    LET hops[hop \in 0 .. latest] ==
            IF hop - 1 <= target THEN <<>>
            ELSE LET i == Max({k \in 1 .. ilog2(hop - 1) : Linked(hop - 1, k) >= target})
                     next == Linked(hop - 1, i)
                 IN IF next = target THEN <<>> ELSE <<next>> \o hops[next]
    IN IF target = 0 THEN <<>> ELSE hops[latest]

references_block(b, target) == ParentElection(b, target) \/ Interlinks(b, target)

(* is_block_proven: proof is a function from epochs to blocks. *)
is_block_proven(proof, head, target) ==
    LET hops == get_interlink_hops(target.epoch, head.epoch)
    IN IF hops = <<>> THEN references_block(head, target)
       ELSE /\ ToSet(hops) \subseteq DOMAIN proof
            /\ Interlinks(head, proof[Head(hops)])
            /\ \A i \in 1 .. Len(hops) - 1 : Interlinks(proof[hops[i]], proof[hops[i + 1]])
            /\ references_block(proof[Last(hops)], target)

(* The proof an honest peer sends for one block: the hops of its chain. *)
HonestProof(target, latest) ==
    [e \in ToSet(get_interlink_hops(target, latest)) |-> Own(e)]
=============================================================================
