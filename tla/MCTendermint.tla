------------------------- MODULE MCTendermint -------------------------
(***************************************************************************)
(* Model of Tendermint for TLC: one node runs the code, another correct    *)
(* validator holds two slots, so that it can take a round ahead alone, and *)
(* a Byzantine one holds one slot.  Four slots: f = 1.                     *)
(***************************************************************************)
EXTENDS Tendermint, SlotQuorums, Sequences

CONSTANTS node, other, byz, PeerChoice

Owner == <<node, other, other, byz>>
MCWeight == [S \in SUBSET Validators |-> Cardinality(SlotsOf(Owner, S))]
MCTwoFPlusOne == TWO_F_PLUS_ONE(Len(Owner))
MCFPlusOne == F_PLUS_ONE(Len(Owner))

\* The Byzantine validator proposes in even rounds, the node in odd ones.
AlwaysByz == [r \in Rounds |-> byz]
ByzProposesFirst == [r \in Rounds |-> IF r % 2 = 0 THEN byz ELSE node]
NodeProposesFirst == [r \in Rounds |-> IF r % 2 = 0 THEN node ELSE byz]

\* Block 1 is from round 0, the others from round 1, and vice versa.
OldHashFirst == [h \in Hashes |-> IF h = 1 THEN 0 ELSE 1]
AllOfRoundZero == [h \in Hashes |-> 0]

VotesOfByz(choices) ==
    [validator : {byz}, round : Rounds, step : VoteSteps, vote : choices]
ByzVotesNil == VotesOfByz({Nil})
NoByzVotes == {}
ByzVotesTwo == VotesOfByz({2})

Fresh(r, h) == [round |-> r, hash |-> h, vr |-> NoRound]

TwoInRoundZero == {Fresh(0, 1), Fresh(0, 2)}
OneThenTwo == {Fresh(0, 1), Fresh(1, 2)}
WithoutValidRound == {Fresh(0, 1), Fresh(1, 1)}
OneAgain == {[round |-> 1, hash |-> 1, vr |-> 0]}

\* What the other correct validator may vote for in each round.
AnyVote == [r \in Rounds |-> Votes]
OneAtFirst == [r \in Rounds |-> IF r = 0 THEN {1, Nil} ELSE Votes]

(***************************************************************************)
(* Its votes depend on nothing that a node does but persist a state, and a *)
(* node can ignore them for as long as it likes.  So every behaviour of    *)
(* the nodes is one in which the other votes as early as it can: before a  *)
(* node changes its state.                                                 *)
(***************************************************************************)
MCNext ==
    \/ \E m \in Nodes : NodeStep(m)
    \/ /\ \A m \in Nodes : Ready(m) /\ self[m].phase = 0 /\ st[m] = disk[m]
       /\ \E v \in Peers, r \in Rounds : \E h \in PeerChoice[r] : PeerVotes(v, r, h)

MCSpec == Init /\ [][MCNext]_vars
=============================================================================
