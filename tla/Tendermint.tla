-------------------------- MODULE Tendermint --------------------------
(***************************************************************************)
(* The Tendermint state machine of src/tendermint at one block height,     *)
(* with the validator that polls it and persists the states it returns.    *)
(*                                                                         *)
(* The validators in Nodes run the code: `st` is the State, `self` the     *)
(* rest of struct Tendermint and the position inside poll_next, `disk` the *)
(* state last persisted.  A call of poll_next is several steps, one per    *)
(* item the polled streams deliver; self.phase keeps them in the order of  *)
(* the function.  The other correct validators keep the promises of module *)
(* Voting and nothing more, Byzantine ones sign anything.  Aggregations    *)
(* (Handel) are external: a running one delivers any set of signed votes   *)
(* that includes the node's own.                                           *)
(***************************************************************************)
EXTENDS Integers, FiniteSets

CONSTANTS
    Validators, Byzantine,
    Nodes,           \* the correct validators that run this code
    Weight,          \* Weight[S]: number of slots of the validators in S
    TwoFPlusOne, FPlusOne,
    Hashes,          \* proposal hashes; numbers, as the maps they key are ordered
    HeaderRound,     \* HeaderRound[h]: the round in the header of the block h
    Proposer,        \* Proposer[r]: who may propose in round r
    SignedByByzantine, \* the votes Byzantine validators sign
    OtherProposals,  \* the proposals signed by proposers that are not in Nodes
    Nil, NoVote,
    MinAggregate,    \* bound: an aggregation delivers nothing below this weight
    MaxRound,        \* bound on current_round
    MaxRestarts      \* bound on the number of restarts

Correct == Validators \ Byzantine
Peers == Correct \ Nodes
Rounds == 0 .. MaxRound
VoteSteps == {"Prevote", "Precommit"}
Steps == VoteSteps \cup {"Propose"}
Votes == Hashes \cup {Nil}

ASSUME TendermintAssumption ==
    /\ Byzantine \subseteq Validators
    /\ Nodes \subseteq Correct
    /\ Weight \in [SUBSET Validators -> Nat]
    /\ \A S, T \in SUBSET Validators : S \subseteq T => Weight[S] <= Weight[T]
    /\ TwoFPlusOne \in Nat /\ FPlusOne \in Nat
    /\ Hashes \subseteq Nat
    /\ HeaderRound \in [Hashes -> Rounds]
    /\ Proposer \in [Rounds -> Validators]
    /\ SignedByByzantine \subseteq
          [validator : Byzantine, round : Rounds, step : VoteSteps, vote : Votes]
    /\ OtherProposals \subseteq
          {p \in [round : Rounds, hash : Hashes, vr : Rounds \cup {-1}] :
              Proposer[p.round] \notin Nodes}
    /\ Nil \notin Hashes /\ NoVote \notin Votes
    /\ MinAggregate \in Nat /\ MaxRound \in Nat /\ MaxRestarts \in Nat

\* Two sets of 2f+1 slots share a correct validator, see PolicyMakesQuorums.
ASSUME SlotAssumption ==
    \A S, T \in SUBSET Validators :
        Weight[S] >= TwoFPlusOne /\ Weight[T] >= TwoFPlusOne => S \cap T \cap Correct # {}

VARIABLES
    st,          \* st[n]: the State of the instance
    self,        \* self[n]: the other fields of struct Tendermint
    disk,        \* disk[n]: the state persisted last
    peer,        \* peer[v]: the votes the other correct validators are bound to
    signed,      \* votes the nodes have started an aggregation with
    broadcast,   \* proposals the nodes have broadcast
    decisions,   \* decisions[v]: hashes v has decided on
    restarts     \* number of restarts so far

vars == <<st, self, disk, peer, signed, broadcast, decisions, restarts>>

\* `None`, where the code has an Option of a round or of a pair with a round.
NoRound == -1
NoPair == [round |-> NoRound, hash |-> Nil]
NoTimeout == <<NoRound, "Propose">>

Proposals == [round : Rounds, hash : Hashes, vr : Rounds \cup {NoRound}]
Pairs == [round : Rounds, hash : Hashes] \cup {NoPair}
Aggregates == [Validators -> Votes \cup {NoVote}]
NoAggregate == [v \in Validators |-> NoVote]
NoVotes == [r \in Rounds |-> [s \in VoteSteps |-> NoVote]]
Ids == Rounds \X VoteSteps

-----------------------------------------------------------------------------
(* Aggregates *)

Contributors(agg) == {v \in Validators : agg[v] # NoVote}
ContributorsFor(agg, h) == {v \in Validators : agg[v] = h}
Total(agg) == Weight[Contributors(agg)]
Count(agg, h) == Weight[ContributorsFor(agg, h)]

-----------------------------------------------------------------------------
(* State and its pure updates *)

DefaultState ==
    [current_round |-> 0, current_step |-> "Propose",
     known_proposals |-> {}, round_proposals |-> {},
     votes |-> NoVotes,
     best_votes |-> [r \in Rounds |-> [s \in VoteSteps |-> NoAggregate]],
     locked |-> NoPair, valid |-> NoPair]

Position(s) == <<s.current_round, s.current_step>>

RoundProposals(s, r) == {p \in s.round_proposals : p.round = r}

\* The first entry of the ordered map round_proposals[r].
FirstProposal(s, r) ==
    CHOOSE p \in RoundProposals(s, r) : \A q \in RoundProposals(s, r) : p.hash <= q.hash

InsertProposal(s, p) ==
    [s EXCEPT !.known_proposals = @ \cup {p.hash},
              !.round_proposals =
                  {q \in @ : q.round # p.round \/ q.hash # p.hash} \cup {p}]

\* Mutant: the lock is not looked at.
IgnoringLock(s, h, vr) == TRUE

is_allowed_to_vote_on(s, h, vr) ==
    \/ s.locked = NoPair
    \/ s.locked.hash = h
    \/ s.locked.round <= vr

has_two_f_plus_one(s, h, r) ==
    r \in Rounds /\ Count(s.best_votes[r]["Prevote"], h) >= TwoFPlusOne

\* Mutant: valid is only ever set once.
ValidSetOnce(s, r, h) ==
    IF s.valid = NoPair THEN [s EXCEPT !.valid = [round |-> r, hash |-> h]] ELSE s

update_valid(s, r, h) ==
    IF s.valid.round < r THEN [s EXCEPT !.valid = [round |-> r, hash |-> h]] ELSE s

\* A cached precommit aggregate makes the proposal h conclusive.
cached_decision(s, h) ==
    \E r \in Rounds : Count(s.best_votes[r]["Precommit"], h) >= TwoFPlusOne

\* verify_macro_block_proposal on the round and valid round of a proposal.
verify_proposal(p) ==
    IF p.vr # NoRound
    THEN HeaderRound[p.hash] <= p.vr /\ p.vr < p.round
    ELSE HeaderRound[p.hash] = p.round

\* process_proposal verifies only what is not known yet.
Accepts(s, p) == p.hash \in s.known_proposals \/ verify_proposal(p)

process_proposal(s, p) ==
    LET t == InsertProposal(s, p) IN
    IF has_two_f_plus_one(s, p.hash, p.round) THEN update_valid(t, p.round, p.hash) ELSE t

SetVote(s, r, step, h) == [s EXCEPT !.votes[r][step] = h]

on_polka(s, h) ==
    [SetVote(s, s.current_round, "Precommit", h) EXCEPT
        !.current_step = "Precommit",
        !.locked = [round |-> s.current_round, hash |-> h]]

on_none_polka(s) ==
    IF s.current_step = "Prevote"
    THEN [SetVote(s, s.current_round, "Precommit", Nil) EXCEPT !.current_step = "Precommit"]
    ELSE [s EXCEPT !.current_round = @ + 1, !.current_step = "Propose"]

\* Enter the prevote step with a vote for h.
WithPrevote(s, h) ==
    [SetVote(s, s.current_round, "Prevote", h) EXCEPT !.current_step = "Prevote"]

\* received_proposal_with_vr and received_proposal_without_vr.
ReceivedProposalVote(s, p) ==
    IF /\ is_allowed_to_vote_on(s, p.hash, p.vr)
       /\ p.vr # NoRound => /\ p.vr < s.current_round
                            /\ has_two_f_plus_one(s, p.hash, p.vr)
    THEN p.hash ELSE Nil

\* The votes for None in every round that is skipped.
Missing(s, r) == {id \in Ids : /\ s.current_round <= id[1] /\ id[1] < r
                               /\ s.votes[id[1]][id[2]] = NoVote}

SkipAhead(s, r) ==
    [s EXCEPT !.current_round = r, !.current_step = "Propose",
              !.votes = [x \in Rounds |-> [k \in VoteSteps |->
                  IF <<x, k>> \in Missing(s, r) THEN Nil ELSE s.votes[x][k]]]]

-----------------------------------------------------------------------------
(* What the votes and proposals of the others may be *)

\* The votes that bind a correct validator: a node is bound by what it persisted.
Bound == [v \in Correct |-> IF v \in Nodes THEN disk[v].votes ELSE peer[v]]

Quorums == {S \in SUBSET Validators : Weight[S] >= TwoFPlusOne}
WeakQuorums == {S \in SUBSET Validators : Weight[S] >= FPlusOne}

V == INSTANCE Voting WITH votes <- Bound, byzVotes <- SignedByByzantine

\* An aggregate node n can get from its aggregation id: its own vote, and others.
Obtainable(n, id) ==
    {agg \in Aggregates :
        \A v \in Validators :
            IF v = n THEN agg[v] = st[n].votes[id[1]][id[2]]
            ELSE agg[v] # NoVote => V!Signed(v, id[1], id[2], agg[v])}

\* Contributors of a message that the aggregation of (r, k) could have sent.
Contributing(n, r, k) ==
    {v \in Validators \ {n} : \E h \in Votes : V!Signed(v, r, k, h)}

(***************************************************************************)
(* Proposals signed by the proposer of their round.  A block carries the   *)
(* VRF seed of the proposer of its header's round, so a block of a node's  *)
(* own round exists only once that node has broadcast it.                  *)
(***************************************************************************)
Network ==
    {p.proposal : p \in broadcast} \cup
    {p \in OtherProposals :
        Proposer[HeaderRound[p.hash]] \in Nodes
            => \E b \in broadcast : b.proposal.hash = p.hash}

-----------------------------------------------------------------------------
(* The instance *)

Voted(s) == {id \in Ids : s.votes[id[1]][id[2]] # NoVote}

\* Tendermint::new on a state: init() restarts all but the current aggregation.
Instance(s) ==
    [pending_proposal_requests |-> {},
     aggregation_senders |-> Voted(s) \ {Position(s)},
     pending_aggregation_starts |-> {},
     future_contributions |-> [r \in Rounds |-> {}],
     timeout |-> NoTimeout,
     pending_decision |-> Nil,
     state_return_pending |-> FALSE,
     should_export_state |-> FALSE,
     phase |-> 0,        \* 0: between polls, 1: requested proposals, 2: dispatch,
                         \* 3: aggregations, 4: aggregations again
     saving |-> FALSE,   \* an Update was returned and not persisted yet
     decision |-> FALSE] \* the stream has ended

Stopped == [Instance(DefaultState) EXCEPT !.decision = TRUE]

\* Mutant: the state is not returned.
WithoutUpdate(i) ==
    [i EXCEPT !.phase = 0, !.should_export_state = FALSE, !.state_return_pending = FALSE]

ReturnUpdate(i) ==
    [i EXCEPT !.phase = 0, !.should_export_state = FALSE,
              !.state_return_pending = FALSE, !.saving = TRUE]

\* Starting aggregations, create_aggregation, signs the votes for them.
Signatures(n, s, ids) ==
    {[validator |-> n, round |-> id[1], step |-> id[2], vote |-> s.votes[id[1]][id[2]]] :
        id \in ids}

Decide(n, h) ==
    /\ decisions' = [decisions EXCEPT ![n] = @ \cup {h}]
    /\ self' = [self EXCEPT ![n] = Stopped]

Ready(n) == ~ self[n].decision /\ ~ self[n].saving

\* poll_next has not gone past `phase`; nothing comes after a pending decision.
PollingUpTo(n, phase) ==
    Ready(n) /\ self[n].phase <= phase /\ self[n].pending_decision = Nil

Init ==
    /\ st = [n \in Nodes |-> DefaultState]
    /\ self = [n \in Nodes |-> Instance(DefaultState)]
    /\ disk = [n \in Nodes |-> DefaultState]
    /\ peer = [v \in Peers |-> NoVotes]
    /\ signed = {}
    /\ broadcast = {}
    /\ decisions = [v \in Correct |-> {}]
    /\ restarts = 0

\* Mutant: precommits that came before the proposal are not looked at again.
ForgettingPrecommits(i, s, h) == i

WithPendingDecision(i, s, h) ==
    IF cached_decision(s, h) THEN [i EXCEPT !.pending_decision = h] ELSE i

\* A gossiped proposal, the first of its round; others are ignored or rejected.
ProcessNextProposal(n, p) ==
    /\ Ready(n) /\ self[n].phase = 0
    /\ RoundProposals(st[n], p.round) = {}
    /\ Accepts(st[n], p)
    /\ st' = [st EXCEPT ![n] = process_proposal(@, p)]
    /\ self' = [self EXCEPT ![n] =
                  [WithPendingDecision(@, st[n], p.hash) EXCEPT !.state_return_pending = TRUE]]
    /\ UNCHANGED <<disk, peer, signed, broadcast, decisions, restarts>>

\* A request ends with any signed proposal, whatever was asked for, ...
RequestedProposal(n, request, p) ==
    LET answered == [WithPendingDecision(self[n], st[n], p.hash) EXCEPT
                        !.phase = 1,
                        !.pending_proposal_requests = @ \ {request},
                        !.should_export_state = TRUE]
    IN  /\ Ready(n) /\ self[n].phase <= 1
        /\ request \in self[n].pending_proposal_requests
        /\ Accepts(st[n], p)
        /\ st' = [st EXCEPT ![n] = process_proposal(@, p)]
        /\ self' = [self EXCEPT ![n] = answered]
        /\ UNCHANGED <<disk, peer, signed, broadcast, decisions, restarts>>

\* ... or with nothing, or with a proposal that does not verify.
RequestFails(n, request) ==
    LET failed == [self[n] EXCEPT !.phase = 1, !.pending_proposal_requests = @ \ {request}]
    IN  /\ Ready(n) /\ self[n].phase <= 1
        /\ request \in self[n].pending_proposal_requests
        /\ self' = [self EXCEPT ![n] = failed]
        /\ UNCHANGED <<st, disk, peer, signed, broadcast, decisions, restarts>>

ReturnPendingDecision(n) ==
    /\ Ready(n) /\ self[n].phase <= 1
    /\ self[n].pending_decision # Nil
    /\ Decide(n, self[n].pending_decision)
    /\ UNCHANGED <<st, disk, peer, signed, broadcast, restarts>>

\* Only the contributors of rounds after r are of interest.
RetainedAfter(contributions, r) ==
    [x \in Rounds |-> IF x > r THEN contributions[x] ELSE {}]

(***************************************************************************)
(* dispatch_messages: a verified message of a later round r names its      *)
(* contributors C.  With f+1 of them the node skips ahead to r; it signs   *)
(* the votes for None of the skipped rounds only after persisting them.    *)
(***************************************************************************)
FutureContributions(n, r, C) ==
    LET known == [self[n].future_contributions EXCEPT ![r] = @ \cup C]
        counted == [self[n] EXCEPT !.phase = 2, !.future_contributions = known]
        skipped == [counted EXCEPT
                       !.phase = 3,
                       !.pending_aggregation_starts = @ \cup Missing(st[n], r),
                       !.timeout = NoTimeout,
                       !.future_contributions = RetainedAfter(@, r),
                       !.should_export_state = TRUE]
    IN  /\ PollingUpTo(n, 2)
        /\ r > st[n].current_round
        /\ ~ C \subseteq self[n].future_contributions[r]
        /\ \/ /\ Weight[known[r]] < FPlusOne
              /\ self' = [self EXCEPT ![n] = counted]
              /\ UNCHANGED st
           \/ /\ Weight[known[r]] >= FPlusOne
              /\ st' = [st EXCEPT ![n] = SkipAhead(@, r)]
              /\ self' = [self EXCEPT ![n] = skipped]
        /\ UNCHANGED <<disk, peer, signed, broadcast, decisions, restarts>>

\* An unknown proposal with f+1 votes and not more than f against it is requested.
Requests(s, r, agg) ==
    {[hash |-> h, round |-> r] :
        h \in {g \in Hashes \ s.known_proposals :
                 /\ Count(agg, g) >= FPlusOne
                 /\ Total(agg) - Count(agg, g) < FPlusOne}}

(***************************************************************************)
(* poll_aggregations, for one aggregate.  One that is not better than the  *)
(* best so far is dropped, but the best one is looked at again.            *)
(***************************************************************************)
PollAggregations(n, id, agg) ==
    LET r == id[1]
        best == st[n].best_votes[r][id[2]]
        improved == Total(best) < Total(agg)
        s == [st[n] EXCEPT !.best_votes[r][id[2]] = agg]
        polka == {h \in s.known_proposals : Count(agg, h) >= TwoFPlusOne}
        noted == [self[n] EXCEPT !.phase = IF @ = 4 THEN 4 ELSE 3,
                                 !.should_export_state = @ \/ improved,
                                 !.pending_proposal_requests = @ \cup Requests(s, r, agg)]
    IN  /\ PollingUpTo(n, 4)
        /\ id \in self[n].aggregation_senders
        /\ agg # NoAggregate /\ Total(agg) >= MinAggregate
        /\ improved \/ agg = best
        /\ \/ /\ id[2] = "Precommit"
              /\ \E h \in polka : Decide(n, h)
              /\ st' = [st EXCEPT ![n] = s]
           \/ /\ id[2] = "Precommit" => polka = {}
              /\ st' = [st EXCEPT ![n] =
                           IF polka = {} THEN s ELSE update_valid(s, r, CHOOSE h \in polka : TRUE)]
              /\ self' = [self EXCEPT ![n] = noted]
              /\ UNCHANGED decisions
        /\ UNCHANGED <<disk, peer, signed, broadcast, restarts>>

-----------------------------------------------------------------------------
(* The state machine, in step Propose *)

Returns(n, s) ==
    /\ st' = [st EXCEPT ![n] = s]
    /\ self' = [self EXCEPT ![n] = [ReturnUpdate(@) EXCEPT !.timeout = NoTimeout]]

Proposing(n) ==
    /\ PollingUpTo(n, 3)
    /\ st[n].current_step = "Propose"

IsProposer(n) == Proposer[st[n].current_round] = n

\* propose, with the proposal persisted by an earlier poll: broadcast and vote.
BroadcastProposal(n) ==
    LET s == st[n]
        p == FirstProposal(s, s.current_round)
    IN  /\ Proposing(n) /\ IsProposer(n)
        /\ RoundProposals(s, s.current_round) # {}
        /\ broadcast' = broadcast \cup {[validator |-> n, proposal |-> p]}
        /\ st' = [st EXCEPT ![n] =
              WithPrevote(s, IF is_allowed_to_vote_on(s, p.hash, p.vr) THEN p.hash ELSE Nil)]
        /\ self' = [self EXCEPT ![n] = ReturnUpdate(@)]
        /\ UNCHANGED <<disk, peer, signed, decisions, restarts>>

\* propose, first poll: store the valid proposal, or else a fresh one h.
StoreProposal(n, h) ==
    LET s == st[n]
        r == s.current_round
    IN  /\ Proposing(n) /\ IsProposer(n)
        /\ RoundProposals(s, r) = {}
        /\ \/ /\ s.valid # NoPair
              /\ h = s.valid.hash
              /\ st' = [st EXCEPT ![n] = InsertProposal(s,
                            [round |-> r, hash |-> h, vr |-> s.valid.round])]
           \/ /\ s.valid = NoPair
              /\ HeaderRound[h] = r
              /\ st' = [st EXCEPT ![n] = InsertProposal(s,
                            [round |-> r, hash |-> h, vr |-> NoRound])]
        /\ self' = [self EXCEPT ![n] = ReturnUpdate(@)]
        /\ UNCHANGED <<disk, peer, signed, broadcast, decisions, restarts>>

AwaitProposal(n) ==
    LET s == st[n]
        p == FirstProposal(s, s.current_round)
    IN  /\ Proposing(n) /\ ~ IsProposer(n)
        /\ RoundProposals(s, s.current_round) # {}
        /\ Returns(n, WithPrevote(s, ReceivedProposalVote(s, p)))
        /\ UNCHANGED <<disk, peer, signed, broadcast, decisions, restarts>>

\* The timeout was started in an earlier poll; it may have elapsed by now.
ProposalTimeout(n) ==
    /\ Proposing(n) /\ ~ IsProposer(n)
    /\ RoundProposals(st[n], st[n].current_round) = {}
    /\ self[n].timeout # NoTimeout
    /\ Returns(n, WithPrevote(st[n], Nil))
    /\ UNCHANGED <<disk, peer, signed, broadcast, decisions, restarts>>

\* The chain has moved on: no proposer can be determined, or no block built.
Abort(n) ==
    /\ Proposing(n)
    /\ self' = [self EXCEPT ![n] = Stopped]
    /\ UNCHANGED <<st, disk, peer, signed, broadcast, decisions, restarts>>

-----------------------------------------------------------------------------
(* The state machine, in steps Prevote and Precommit: aggregate *)

CurrentBest(s) == s.best_votes[s.current_round][s.current_step]
CurrentHashes(s) == {p.hash : p \in RoundProposals(s, s.current_round)}

\* Mutant: f+1 votes are taken for a polka.
WeakPolkaHashes(s) == {h \in CurrentHashes(s) : Count(CurrentBest(s), h) >= FPlusOne}

PolkaHashes(s) == {h \in CurrentHashes(s) : Count(CurrentBest(s), h) >= TwoFPlusOne}

\* Some proposal of the round has at most f votes against it.
CanImprove(s) ==
    \E h \in CurrentHashes(s) : Total(CurrentBest(s)) - Count(CurrentBest(s), h) < FPlusOne

\* No proposal can get 2f+1 votes any more, as far as the node can tell.
NonePolka(s) ==
    LET best == CurrentBest(s) IN
    \/ Count(best, Nil) >= TwoFPlusOne
    \/ /\ ~ CanImprove(s)
       /\ Weight[{v \in Validators : best[v] \in CurrentHashes(s) \cup {Nil}}] >= FPlusOne

Aggregating(n) ==
    /\ PollingUpTo(n, 3)
    /\ st[n].current_step \in VoteSteps

\* The current aggregation is created, if need be, before its result is looked at.
CurrentCreated(n) ==
    [self[n] EXCEPT !.aggregation_senders = @ \cup ({Position(st[n])} \cap Ids)]

SignCurrent(n) ==
    signed' = signed \cup Signatures(n, st[n],
                  ({Position(st[n])} \cap Ids) \ self[n].aggregation_senders)

(***************************************************************************)
(* 2f+1 prevotes for a proposal of the round.  With 2f+1 precommits it was *)
(* decided before the state machine runs, see NoMissedDecision: that case  *)
(* of aggregate, which decides as well, never happens.                     *)
(***************************************************************************)
BlockPolka(n) ==
    LET s == st[n] IN
    /\ Aggregating(n)
    /\ s.current_step = "Prevote"
    /\ \E h \in PolkaHashes(s) :
          st' = [st EXCEPT ![n] = on_polka(update_valid(s, s.current_round, h), h)]
    /\ self' = [self EXCEPT ![n] =
                  [ReturnUpdate(CurrentCreated(n)) EXCEPT !.timeout = NoTimeout]]
    /\ SignCurrent(n)
    /\ UNCHANGED <<disk, peer, broadcast, decisions, restarts>>

\* 2f+1 votes and no block: at once if that cannot change, else after the timeout.
NoBlockPolka(n) ==
    LET s == st[n]
        moved == [ReturnUpdate(CurrentCreated(n)) EXCEPT
                     !.timeout = NoTimeout,
                     !.future_contributions = RetainedAfter(@, on_none_polka(s).current_round)]
    IN  /\ Aggregating(n)
        /\ Total(CurrentBest(s)) >= TwoFPlusOne
        /\ PolkaHashes(s) = {}
        /\ NonePolka(s) \/ self[n].timeout # NoTimeout
        /\ s.current_step = "Precommit" => s.current_round < MaxRound
        /\ st' = [st EXCEPT ![n] = on_none_polka(s)]
        /\ self' = [self EXCEPT ![n] = moved]
        /\ SignCurrent(n)
        /\ UNCHANGED <<disk, peer, broadcast, decisions, restarts>>

(***************************************************************************)
(* The state machine has nothing to return.  A changed state is returned,  *)
(* or else the pending aggregations are started; new ones are polled once. *)
(***************************************************************************)
WaitsForProposal(s, n) ==
    /\ s.current_step = "Propose"
    /\ Proposer[s.current_round] # n
    /\ RoundProposals(s, s.current_round) = {}

WaitsForTimeout(s) ==
    /\ s.current_step \in VoteSteps
    /\ Total(CurrentBest(s)) >= TwoFPlusOne
    /\ PolkaHashes(s) = {}
    /\ ~ NonePolka(s)

WaitsForVotes(s) ==
    /\ s.current_step \in VoteSteps
    /\ Total(CurrentBest(s)) < TwoFPlusOne

\* start_timeout
TimeoutStarted(i, s, n) ==
    IF i.timeout = NoTimeout /\ (WaitsForProposal(s, n) \/ WaitsForTimeout(s))
    THEN [i EXCEPT !.timeout = Position(s)] ELSE i

Pending(n) ==
    LET s == st[n]
        i == TimeoutStarted(CurrentCreated(n), s, n)
        starts == i.pending_aggregation_starts
        started == [i EXCEPT
                       !.aggregation_senders = @ \cup starts,
                       !.pending_aggregation_starts = {},
                       !.phase = IF \/ starts # {}
                                    \/ /\ s.current_step # "Propose"
                                       /\ CurrentBest(s) = NoAggregate
                                 THEN 4 ELSE 0]
    IN  /\ PollingUpTo(n, 3)
        /\ WaitsForProposal(s, n) \/ WaitsForTimeout(s) \/ WaitsForVotes(s)
        /\ \/ /\ i.should_export_state \/ i.state_return_pending
              /\ self' = [self EXCEPT ![n] = ReturnUpdate(i)]
              /\ SignCurrent(n)
           \/ /\ ~ i.should_export_state /\ ~ i.state_return_pending
              /\ self' = [self EXCEPT ![n] = started]
              /\ signed' = signed \cup Signatures(n, s,
                              (starts \cup ({Position(s)} \cap Ids)) \ self[n].aggregation_senders)
        /\ UNCHANGED <<st, disk, peer, broadcast, decisions, restarts>>

\* The end of a poll that started aggregations.
PollEnds(n) ==
    /\ Ready(n) /\ self[n].phase = 4
    /\ self' = [self EXCEPT ![n] = IF @.should_export_state THEN ReturnUpdate(@)
                                   ELSE [@ EXCEPT !.phase = 0]]
    /\ UNCHANGED <<st, disk, peer, signed, broadcast, decisions, restarts>>

-----------------------------------------------------------------------------
(* The validator, and the other validators *)

\* poll_macro, Return::Update: only then is the instance polled again.
Persist(n) ==
    /\ self[n].saving
    /\ disk' = [disk EXCEPT ![n] = st[n]]
    /\ self' = [self EXCEPT ![n] = [@ EXCEPT !.saving = FALSE]]
    /\ UNCHANGED <<st, peer, signed, broadcast, decisions, restarts>>

\* A crash, or a new instance for this height, at any time.
Restart(n) ==
    /\ restarts < MaxRestarts
    /\ restarts' = restarts + 1
    /\ st' = [st EXCEPT ![n] = disk[n]]
    /\ self' = [self EXCEPT ![n] = Instance(disk[n])]
    /\ signed' = signed \cup Signatures(n, disk[n], Instance(disk[n]).aggregation_senders)
    /\ UNCHANGED <<disk, peer, broadcast, decisions>>

\* Another correct validator does what module Voting allows.
PeerVotes(v, r, h) ==
    /\ \/ V!SkipGuard(v, r) /\ h = Nil
          /\ peer' = [peer EXCEPT ![v] = V!GiveUpBefore(v, r)]
       \/ V!PrevoteGuard(v, r, h) /\ peer' = [peer EXCEPT ![v] = V!WithPrevote(v, r, h)]
       \/ V!PrecommitGuard(v, r, h) /\ peer' = [peer EXCEPT ![v] = V!WithPrecommit(v, r, h)]
    /\ UNCHANGED <<st, self, disk, signed, broadcast, decisions, restarts>>

NodeStep(n) ==
    \/ \E p \in Network : ProcessNextProposal(n, p)
    \/ \E q \in self[n].pending_proposal_requests :
          RequestFails(n, q) \/ \E p \in Network : RequestedProposal(n, q, p)
    \/ ReturnPendingDecision(n)
    \/ \E r \in Rounds, k \in VoteSteps :
          \E C \in SUBSET Contributing(n, r, k) : FutureContributions(n, r, C)
    \/ \E id \in self[n].aggregation_senders :
          \E agg \in Obtainable(n, id) : PollAggregations(n, id, agg)
    \/ BroadcastProposal(n)
    \/ \E h \in Hashes : StoreProposal(n, h)
    \/ AwaitProposal(n)
    \/ ProposalTimeout(n)
    \/ Abort(n)
    \/ BlockPolka(n)
    \/ NoBlockPolka(n)
    \/ Pending(n)
    \/ PollEnds(n)
    \/ Persist(n)
    \/ Restart(n)

PeerStep == \E v \in Peers, r \in Rounds, h \in Votes : PeerVotes(v, r, h)

Next == (\E n \in Nodes : NodeStep(n)) \/ PeerStep

Spec == Init /\ [][Next]_vars

-----------------------------------------------------------------------------
(* Properties *)

States ==
    [current_round : Rounds, current_step : Steps,
     known_proposals : SUBSET Hashes, round_proposals : SUBSET Proposals,
     votes : [Rounds -> [VoteSteps -> Votes \cup {NoVote}]],
     best_votes : [Rounds -> [VoteSteps -> Aggregates]],
     locked : Pairs, valid : Pairs]

Instances ==
    [pending_proposal_requests : SUBSET [hash : Hashes, round : Rounds],
     aggregation_senders : SUBSET Ids,
     pending_aggregation_starts : SUBSET Ids,
     future_contributions : [Rounds -> SUBSET Validators],
     timeout : (Rounds \X Steps) \cup {NoTimeout},
     pending_decision : Votes,
     state_return_pending : BOOLEAN, should_export_state : BOOLEAN,
     phase : 0 .. 4, saving : BOOLEAN, decision : BOOLEAN]

\* State, the fields of struct Tendermint and what was persisted have their types.
TypeOK ==
    /\ st \in [Nodes -> States] /\ self \in [Nodes -> Instances] /\ disk \in [Nodes -> States]
    /\ peer \in [Peers -> [Rounds -> [VoteSteps -> Votes \cup {NoVote}]]]
    /\ signed \subseteq [validator : Nodes, round : Rounds, step : VoteSteps, vote : Votes]
    /\ broadcast \subseteq [validator : Nodes, proposal : Proposals]
    /\ decisions \in [Correct -> SUBSET Hashes]
    /\ restarts \in 0 .. MaxRestarts

(***************************************************************************)
(* None of the assertions, expects and panics of the crate can fail: a     *)
(* vote is never overwritten (await_proposal, propose, on_polka,           *)
(* on_none_polka), an aggregation is only created for a vote that exists   *)
(* (create_aggregation), and every proposal that is referred to is known   *)
(* (propose, aggregate, build_decision).  Restarts and skips included.     *)
(***************************************************************************)
NoPanic ==
    \A n \in Nodes :
        LET s == st[n]
            r == s.current_round
            i == self[n]
        IN  /\ (s.votes[r]["Prevote"] = NoVote) <=> (s.current_step = "Propose")
            /\ (s.votes[r]["Precommit"] = NoVote) <=> (s.current_step # "Precommit")
            /\ i.pending_aggregation_starts \cup i.aggregation_senders \subseteq Voted(s)
            /\ {p.hash : p \in s.round_proposals} \subseteq s.known_proposals
            /\ s.valid # NoPair => s.valid.hash \in s.known_proposals
            /\ i.pending_decision # Nil => i.pending_decision \in s.known_proposals

(***************************************************************************)
(* Whatever a node has signed, in this life or in an earlier one, is in    *)
(* its persisted state.  In particular it never signs two different votes  *)
(* for one round and step (poll_next returns the state before it starts    *)
(* the aggregation; poll_macro persists it before it polls again).         *)
(***************************************************************************)
SignedVotesArePersisted ==
    \A x \in signed : disk[x.validator].votes[x.round][x.step] = x.vote

(***************************************************************************)
(* A node never broadcasts two different proposals for one round, not even *)
(* across a restart: propose stores the proposal in one poll and sends it  *)
(* in the next.                                                            *)
(***************************************************************************)
OneProposalPerRound ==
    \A a, b \in broadcast :
        a.validator = b.validator /\ a.proposal.round = b.proposal.round => a = b

(* A crash at any moment is harmless: the instance that is built again from  *)
(* the persisted state (poll_macro) neither fails an assertion nor signs or  *)
(* broadcasts anything that contradicts what was sent before the crash.      *)
RestartIsSafe == NoPanic /\ SignedVotesArePersisted /\ OneProposalPerRound

(***************************************************************************)
(* The timeout that runs was started in the current round and step, so a   *)
(* step is never cut short by the timeout of another one (start_timeout    *)
(* has no effect while one exists; every transition has to reset it).      *)
(***************************************************************************)
TimeoutIsCurrent ==
    \A n \in Nodes : self[n].timeout \in {NoTimeout, Position(st[n])}

(***************************************************************************)
(* A lock is never ahead of the valid value: valid is at least as recent   *)
(* as locked and the same proposal if both are from one round (State:      *)
(* locking onto a value implies that it is valid).  This rests on quorum   *)
(* intersection, as the two fields are set in different places.            *)
(***************************************************************************)
LockedIsValid ==
    \A n \in Nodes :
        /\ st[n].locked.round <= st[n].valid.round
        /\ st[n].locked.round = st[n].valid.round => st[n].locked = st[n].valid

(***************************************************************************)
(* No decision is ever overlooked: while an instance runs, a known         *)
(* proposal for which the best precommit aggregate of any round holds 2f+1 *)
(* votes is about to be returned (poll_aggregations, cached_decision and   *)
(* pending_decision), and no such state is ever persisted, as              *)
(* pending_decision is not.                                                *)
(***************************************************************************)
NoMissedDecision ==
    \A n \in Nodes :
        /\ ~ self[n].decision =>
              \A h \in st[n].known_proposals :
                  cached_decision(st[n], h) => self[n].pending_decision = h
        /\ \A h \in disk[n].known_proposals : ~ cached_decision(disk[n], h)

(***************************************************************************)
(* At any time, valid takes into account every proposal of a round         *)
(* that has 2f+1 prevotes of that round in the best aggregate, in whatever *)
(* order proposal and prevotes arrived (process_proposal,                  *)
(* poll_aggregations).                                                     *)
(***************************************************************************)
ValidCoversPolkas ==
    \A n \in Nodes :
        \A p \in st[n].round_proposals :
            has_two_f_plus_one(st[n], p.hash, p.round) => st[n].valid.round >= p.round

(* What a node votes by is consistent in every step: state and fields have   *)
(* their types, locked and valid values belong together and to the polkas    *)
(* seen, and the timeout that runs is that of the step.                      *)
LocksAreSafe == TypeOK /\ LockedIsValid /\ ValidCoversPolkas /\ TimeoutIsCurrent

(***************************************************************************)
(* The code keeps the promises of module Voting: persisting a state is a   *)
(* vote that Voting allows, or no step; decisions need 2f+1 precommits.    *)
(***************************************************************************)
RefinesVoting == V!Init /\ [][V!Next]_(V!vars)

(***************************************************************************)
(* What verify_macro_block_proposal says of the round in a block's header: *)
(* "it should only ever differ from the round value provided if            *)
(* valid_round = Some(vr)".                                                *)
(***************************************************************************)
OnlyReproposalsDiffer ==
    \A n \in Nodes : \A p \in st[n].round_proposals :
        HeaderRound[p.hash] # p.round => p.vr # NoRound
=============================================================================
