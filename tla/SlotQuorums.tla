--------------------------- MODULE SlotQuorums ---------------------------
(***************************************************************************)
(* The quorums of an epoch.  An election assigns every slot to a           *)
(* validator, owner[i] for slot i, and a vote counts for all slots of its  *)
(* signer.  The thresholds are those of Policy: a fraction of SLOTS,       *)
(* rounded up.  They make the quorums that module Voting assumes, for      *)
(* every number of slots and every assignment of slots to validators.      *)
(***************************************************************************)
EXTENDS Integers, FiniteSets, FiniteSetTheorems, TLAPS

TWO_F_PLUS_ONE(SLOTS) == (2 * SLOTS + 2) \div 3

F_PLUS_ONE(SLOTS) == (SLOTS + 2) \div 3

SlotsOf(owner, S) == {i \in DOMAIN owner : owner[i] \in S}

\* The sets of validators that own at least so many slots.
Owning(owner, validators, slots) ==
    {Q \in SUBSET validators : Cardinality(SlotsOf(owner, Q)) >= slots}

-----------------------------------------------------------------------------
\* A set of validators owns between none and all of the slots.
LEMMA SlotsAreFinite ==
    ASSUME NEW N \in Nat, NEW V, NEW owner \in [1..N -> V], NEW S
    PROVE  /\ SlotsOf(owner, S) \subseteq 1..N
           /\ IsFiniteSet(SlotsOf(owner, S))
           /\ Cardinality(SlotsOf(owner, S)) \in Nat
           /\ Cardinality(SlotsOf(owner, S)) <= N
<1>1. IsFiniteSet(1..N) /\ Cardinality(1..N) = N
  BY FS_Interval
<1>2. SlotsOf(owner, S) \subseteq 1..N
  BY DEF SlotsOf
<1>. QED
  BY <1>1, <1>2, FS_Subset, FS_CardinalityType

\* The arithmetic of the two ceilings: 2 * ceil(2n/3) - n >= ceil(n/3).
LEMMA OverlapIsWeakQuorum ==
    ASSUME NEW N \in Nat
    PROVE  2 * TWO_F_PLUS_ONE(N) - N >= F_PLUS_ONE(N)
BY DEF TWO_F_PLUS_ONE, F_PLUS_ONE

(***************************************************************************)
(* Two sets of validators with TWO_F_PLUS_ONE slots each share a correct   *)
(* one, as long as the Byzantine ones own less than F_PLUS_ONE slots: what *)
(* the vote counting of the code relies on, and what module Voting assumes *)
(* of its quorums.                                                         *)
(***************************************************************************)
LEMMA QuorumsOverlap ==
    ASSUME NEW N \in Nat, NEW V, NEW B \in SUBSET V, NEW owner \in [1..N -> V],
           Cardinality(SlotsOf(owner, B)) < F_PLUS_ONE(N),
           NEW P \in Owning(owner, V, TWO_F_PLUS_ONE(N)),
           NEW Q \in Owning(owner, V, TWO_F_PLUS_ONE(N))
    PROVE  P \cap Q \cap (V \ B) # {}
<1>. DEFINE p == SlotsOf(owner, P)
            q == SlotsOf(owner, Q)
            b == SlotsOf(owner, B)
<1>1. /\ IsFiniteSet(p) /\ IsFiniteSet(q) /\ IsFiniteSet(b)
      /\ p \cup q \subseteq 1..N
  BY SlotsAreFinite
<1>2. /\ Cardinality(p) >= TWO_F_PLUS_ONE(N)
      /\ Cardinality(q) >= TWO_F_PLUS_ONE(N)
  BY DEF Owning
<1>3. /\ IsFiniteSet(p \cup q)
      /\ Cardinality(p \cup q) = Cardinality(p) + Cardinality(q) - Cardinality(p \cap q)
  BY <1>1, FS_Union
<1>4. Cardinality(p \cup q) <= N
  <2>1. IsFiniteSet(1..N) /\ Cardinality(1..N) = N
    BY FS_Interval
  <2>2. Cardinality(p \cup q) <= Cardinality(1..N)
    BY <1>1, <2>1, FS_Subset
  <2>. QED
    BY <2>1, <2>2
<1>5. /\ IsFiniteSet(p \cap q)
      /\ \A x \in {p, q, b, p \cap q, p \cup q} : Cardinality(x) \in Nat
  BY <1>1, <1>3, FS_Intersection, FS_CardinalityType
<1>6. Cardinality(p \cap q) > Cardinality(b)
  <2>1. Cardinality(p \cap q) >= 2 * TWO_F_PLUS_ONE(N) - N
    <3>1. TWO_F_PLUS_ONE(N) \in Int
      BY DEF TWO_F_PLUS_ONE
    <3>. HIDE DEF p, q, b
    <3>. QED
      BY <1>2, <1>3, <1>4, <1>5, <3>1
  <2>2. F_PLUS_ONE(N) \in Int /\ TWO_F_PLUS_ONE(N) \in Int
    BY DEF F_PLUS_ONE, TWO_F_PLUS_ONE
  <2>3. Cardinality(b) < F_PLUS_ONE(N)
    OBVIOUS
  <2>. HIDE DEF p, q, b
  <2>. QED
    BY <2>1, <2>2, <2>3, <1>5, OverlapIsWeakQuorum
<1>7. PICK i \in p \cap q : i \notin b
  <2>1. SUFFICES ASSUME p \cap q \subseteq b PROVE FALSE
    OBVIOUS
  <2>2. Cardinality(p \cap q) <= Cardinality(b)
    BY <1>1, <2>1, FS_Subset
  <2>. HIDE DEF p, q, b
  <2>. QED
    BY <2>2, <1>5, <1>6
<1>8. owner[i] \in P \cap Q \cap (V \ B)
  BY <1>7 DEF SlotsOf, Owning
<1>. QED
  BY <1>8

(***************************************************************************)
(* More signers never undo a quorum: the weight that the code adds up only *)
(* grows with the contributors of an aggregate.                            *)
(***************************************************************************)
LEMMA QuorumsAreUpwardClosed ==
    ASSUME NEW N \in Nat, NEW V, NEW owner \in [1..N -> V], NEW slots \in Nat,
           NEW Q \in Owning(owner, V, slots), NEW P \in SUBSET V, Q \subseteq P
    PROVE  P \in Owning(owner, V, slots)
<1>1. SlotsOf(owner, Q) \subseteq SlotsOf(owner, P)
  BY DEF SlotsOf
<1>2. Cardinality(SlotsOf(owner, Q)) <= Cardinality(SlotsOf(owner, P))
  BY <1>1, SlotsAreFinite, FS_Subset
<1>3. /\ Cardinality(SlotsOf(owner, Q)) \in Nat
      /\ Cardinality(SlotsOf(owner, P)) \in Nat
  BY SlotsAreFinite
<1>. QED
  BY <1>2, <1>3 DEF Owning

(***************************************************************************)
(* The sets of TWO_F_PLUS_ONE slots satisfy QuorumAssumption, which the    *)
(* agreement of module Voting is proved from: with 512 slots, as long as   *)
(* Byzantine validators own at most 170 of them.                           *)
(***************************************************************************)
THEOREM PolicyMakesQuorums ==
    ASSUME NEW N \in Nat, NEW V, NEW B \in SUBSET V, NEW owner \in [1..N -> V],
           Cardinality(SlotsOf(owner, B)) < F_PLUS_ONE(N)
    PROVE  LET Strong == Owning(owner, V, TWO_F_PLUS_ONE(N))
           IN  /\ Strong \subseteq SUBSET V
               /\ \A P, Q \in Strong : P \cap Q \cap (V \ B) # {}
               /\ \A Q \in Strong, P \in SUBSET V : Q \subseteq P => P \in Strong
<1>. DEFINE Strong == Owning(owner, V, TWO_F_PLUS_ONE(N))
<1>1. Strong \subseteq SUBSET V
  BY DEF Owning
<1>2. \A P, Q \in Strong : P \cap Q \cap (V \ B) # {}
  BY QuorumsOverlap
<1>3. TWO_F_PLUS_ONE(N) \in Nat
  BY DEF TWO_F_PLUS_ONE
<1>4. \A Q \in Strong, P \in SUBSET V : Q \subseteq P => P \in Strong
  BY <1>3, QuorumsAreUpwardClosed
<1>. QED
  BY <1>1, <1>2, <1>4
=============================================================================
