---------------------------- MODULE Voting ----------------------------
(***************************************************************************)
(* What a validator of the Tendermint crate promises the others, and what  *)
(* those promises buy.  The module is the abstract specification that      *)
(* module Tendermint implements: it has no timers, no proposals and no     *)
(* aggregations, only the votes each validator is bound to (those its      *)
(* persisted state holds), the votes Byzantine validators have signed, and *)
(* the blocks that were decided at this height.                            *)
(***************************************************************************)
EXTENDS Integers

CONSTANTS
    Validators,    \* the validators elected for the epoch
    Byzantine,     \* those that may sign anything
    Quorums,       \* sets of validators holding at least 2f+1 slots
    WeakQuorums,   \* sets of validators holding at least f+1 slots
    Hashes,        \* proposal hashes
    Nil,           \* the vote for no proposal (`None` in the code)
    NoVote,        \* no vote cast
    MaxRound       \* bound on the round number

Correct == Validators \ Byzantine
Rounds == 0 .. MaxRound
VoteSteps == {"Prevote", "Precommit"}
Votes == Hashes \cup {Nil}

ASSUME ConstantsAssumption ==
    /\ Byzantine \subseteq Validators
    /\ Quorums \subseteq SUBSET Validators
    /\ MaxRound \in Nat
    /\ Nil \notin Hashes
    /\ NoVote \notin Votes

\* Two sets of 2f+1 slots share more slots than Byzantine validators own.
ASSUME QuorumAssumption ==
    /\ \A P, Q \in Quorums : P \cap Q \cap Correct # {}
    /\ \A Q \in Quorums, P \in SUBSET Validators : Q \subseteq P => P \in Quorums

VARIABLES
    votes,       \* votes[v][r][s]: what the correct validator v is bound to
    byzVotes,    \* the votes signed by Byzantine validators
    decisions    \* decisions[v]: hashes v has decided on, restarts included

vars == <<votes, byzVotes, decisions>>

ByzantineVotes ==
    [validator : Byzantine, round : Rounds, step : VoteSteps, vote : Votes]

Signed(v, r, s, h) ==
    IF v \in Correct
    THEN votes[v][r][s] = h
    ELSE [validator |-> v, round |-> r, step |-> s, vote |-> h] \in byzVotes

Signers(r, s, h) == {v \in Validators : Signed(v, r, s, h)}

\* 2f+1 prevotes, respectively precommits, for one proposal in one round.
Polka(r, h) == Signers(r, "Prevote", h) \in Quorums

\* Mutant: f+1 precommits are taken for 2f+1.
WeakCommit(r, h) == Signers(r, "Precommit", h) \in WeakQuorums

Commit(r, h) == Signers(r, "Precommit", h) \in Quorums

\* 2f+1 votes of any kind in one step of a round.
VotedByQuorum(r, s) == UNION {Signers(r, s, h) : h \in Votes} \in Quorums

\* f+1 validators have voted in round r.
Reached(r) ==
    UNION {Signers(r, s, h) : s \in VoteSteps, h \in Votes} \in WeakQuorums

NoVoteAfter(v, r) == \A x \in Rounds, s \in VoteSteps :
                        x > r => votes[v][x][s] = NoVote

VotedBefore(v, r) == \A x \in Rounds, s \in VoteSteps :
                        x < r => votes[v][x][s] # NoVote

\* Mutant: a precommit of another proposal is no obstacle.
IgnoringLock(v, r, h) == TRUE

(***************************************************************************)
(* A validator that precommitted another proposal may only prevote h when  *)
(* h got 2f+1 prevotes in that round or in a later one.                    *)
(***************************************************************************)
LockAllows(v, r, h) ==
    \A x \in Rounds, g \in Hashes :
        x < r /\ votes[v][x]["Precommit"] = g /\ g # h
            => \E vr \in Rounds : x <= vr /\ vr < r /\ Polka(vr, h)

\* Voting in round r gives up, with a vote for nil, every vote not cast before.
GiveUpBefore(v, r) ==
    [x \in Rounds |-> [s \in VoteSteps |->
        IF x < r /\ votes[v][x][s] = NoVote THEN Nil ELSE votes[v][x][s]]]

-----------------------------------------------------------------------------
Init ==
    /\ votes = [v \in Correct |-> [r \in Rounds |-> [s \in VoteSteps |-> NoVote]]]
    /\ byzVotes \subseteq ByzantineVotes
    /\ decisions = [v \in Correct |-> {}]

\* Enter round r, by the regular way or by skipping ahead, without a vote yet.
SkipGuard(v, r) ==
    /\ NoVoteAfter(v, r - 1)
    /\ ~ VotedBefore(v, r)
    /\ Reached(r)

SkipTo(v, r) ==
    /\ SkipGuard(v, r)
    /\ votes' = [votes EXCEPT ![v] = GiveUpBefore(v, r)]
    /\ UNCHANGED <<byzVotes, decisions>>

PrevoteGuard(v, r, h) ==
    /\ NoVoteAfter(v, r - 1)
    /\ VotedBefore(v, r) \/ Reached(r)
    /\ h \in Hashes => LockAllows(v, r, h)

WithPrevote(v, r, h) == [GiveUpBefore(v, r) EXCEPT ![r]["Prevote"] = h]

Prevote(v, r, h) ==
    /\ PrevoteGuard(v, r, h)
    /\ votes' = [votes EXCEPT ![v] = WithPrevote(v, r, h)]
    /\ UNCHANGED <<byzVotes, decisions>>

PrecommitGuard(v, r, h) ==
    /\ NoVoteAfter(v, r)
    /\ votes[v][r]["Prevote"] # NoVote
    /\ votes[v][r]["Precommit"] = NoVote
    /\ VotedByQuorum(r, "Prevote")
    /\ h \in Hashes => Polka(r, h)

WithPrecommit(v, r, h) == [votes[v] EXCEPT ![r]["Precommit"] = h]

Precommit(v, r, h) ==
    /\ PrecommitGuard(v, r, h)
    /\ votes' = [votes EXCEPT ![v] = WithPrecommit(v, r, h)]
    /\ UNCHANGED <<byzVotes, decisions>>

\* Byzantine validators may sign any votes at any time, also conflicting ones.
ByzantineSigns ==
    /\ byzVotes' \in SUBSET ByzantineVotes
    /\ byzVotes \subseteq byzVotes'

\* The precommits that complete the 2f+1 may be seen for the first time here.
Decide(v, h) ==
    /\ UNCHANGED votes
    /\ \E r \in Rounds : Commit(r, h)'
    /\ decisions' = [decisions EXCEPT ![v] = @ \cup {h}]

Next ==
    \/ \E v \in Correct, r \in Rounds : SkipTo(v, r)
    \/ \E v \in Correct, r \in Rounds, h \in Votes : Prevote(v, r, h)
    \/ \E v \in Correct, r \in Rounds, h \in Votes : Precommit(v, r, h)
    \/ ByzantineSigns /\ UNCHANGED <<votes, decisions>>
    \/ ByzantineSigns /\ \E v \in Correct, h \in Hashes : Decide(v, h)

Spec == Init /\ [][Next]_vars

-----------------------------------------------------------------------------
\* The votes that validators are bound to, and their decisions, have their types.
TypeOK ==
    /\ votes \in [Correct -> [Rounds -> [VoteSteps -> Votes \cup {NoVote}]]]
    /\ byzVotes \subseteq ByzantineVotes
    /\ decisions \in [Correct -> SUBSET Hashes]

(***************************************************************************)
(* Agreement: no two correct validators, and no validator before and after *)
(* a restart, ever decide on different blocks for this height.             *)
(***************************************************************************)
Agreement ==
    \A v, w \in Correct : \A h \in decisions[v], g \in decisions[w] : h = g

\* v has precommitted h in round r, or has not yet given up its precommit there.
MayPrecommit(v, r, h) ==
    \/ votes[v][r]["Precommit"] = h
    \/ votes[v][r]["Precommit"] = NoVote /\ NoVoteAfter(v, r)

\* h has been, or can still be, decided with the precommits of round r.
Choosable(r, h) ==
    {v \in Validators : v \in Correct => MayPrecommit(v, r, h)} \in Quorums

(***************************************************************************)
(* The locks work: once a proposal has 2f+1 prevotes in some round, no     *)
(* other proposal can still be decided in an earlier one.                  *)
(***************************************************************************)
PolkaExcludesEarlierDecision ==
    \A r, x \in Rounds : \A h, g \in Hashes :
        r < x /\ h # g /\ Polka(x, g) => ~ Choosable(r, h)

(***************************************************************************)
(* A correct validator precommits only what 2f+1 prevoted in that round,   *)
(* and it prevotes against an earlier precommit of its own only for a      *)
(* proposal that 2f+1 prevoted since.                                      *)
(***************************************************************************)
VotesAreJustified ==
    \A v \in Correct, r \in Rounds, h \in Hashes :
        /\ votes[v][r]["Precommit"] = h => Polka(r, h)
        /\ votes[v][r]["Prevote"] = h => LockAllows(v, r, h)

\* Every decision rests on 2f+1 precommits of one round.
DecisionsAreCommitted ==
    \A v \in Correct : \A h \in decisions[v] : \E r \in Rounds : Commit(r, h)

\* The inductive invariant behind Agreement.
IInv ==
    /\ TypeOK
    /\ VotesAreJustified
    /\ PolkaExcludesEarlierDecision
    /\ DecisionsAreCommitted
=============================================================================
