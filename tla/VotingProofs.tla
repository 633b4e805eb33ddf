-------------------------- MODULE VotingProofs --------------------------
(***************************************************************************)
(* Agreement of module Voting, for any set of validators, any Byzantine    *)
(* subset and any quorum system that satisfy QuorumAssumption.             *)
(***************************************************************************)
EXTENDS Voting, TLAPS

\* A vote that is signed stays signed.
LEMMA SignedIsStable ==
    ASSUME TypeOK, [Next]_vars,
           NEW v \in Validators, NEW r \in Rounds, NEW s \in VoteSteps,
           NEW h \in Votes, Signed(v, r, s, h)
    PROVE  Signed(v, r, s, h)'
<1>. USE ConstantsAssumption DEF TypeOK, Votes, Correct, Signed
<1>1. ASSUME NEW w \in Correct, NEW x \in Rounds, SkipTo(w, x)
      PROVE  Signed(v, r, s, h)'
  BY <1>1 DEF SkipTo, SkipGuard, GiveUpBefore
<1>2. ASSUME NEW w \in Correct, NEW x \in Rounds, NEW g \in Votes, Prevote(w, x, g)
      PROVE  Signed(v, r, s, h)'
  <2>1. votes[w][x]["Prevote"] = NoVote
    BY <1>2 DEF Prevote, PrevoteGuard, WithPrevote, NoVoteAfter, Rounds, VoteSteps
  <2>. QED
    BY <1>2, <2>1 DEF Prevote, PrevoteGuard, WithPrevote, GiveUpBefore
<1>3. ASSUME NEW w \in Correct, NEW x \in Rounds, NEW g \in Votes, Precommit(w, x, g)
      PROVE  Signed(v, r, s, h)'
  BY <1>3 DEF Precommit, PrecommitGuard, WithPrecommit
<1>4. CASE ByzantineSigns /\ UNCHANGED votes
  BY <1>4 DEF ByzantineSigns
<1>5. CASE UNCHANGED vars
  BY <1>5 DEF vars
<1>. QED
  BY <1>1, <1>2, <1>3, <1>4, <1>5 DEF Next, Decide

\* 2f+1 prevotes, and 2f+1 precommits, stay.
LEMMA QuorumsAreStable ==
    ASSUME TypeOK, [Next]_vars, NEW r \in Rounds, NEW h \in Hashes
    PROVE  /\ Polka(r, h) => Polka(r, h)'
           /\ Commit(r, h) => Commit(r, h)'
<1>1. ASSUME NEW s \in VoteSteps
      PROVE  Signers(r, s, h) \subseteq Signers(r, s, h)'
  BY <1>1, SignedIsStable DEF Signers, Votes
<1>2. \A s \in VoteSteps : Signers(r, s, h)' \in SUBSET Validators
  BY DEF Signers
<1>. QED
  BY <1>1, <1>2, QuorumAssumption DEF Polka, Commit, VoteSteps

\* What can no longer be decided in a round never can again.
LEMMA ChoosableIsStable ==
    ASSUME TypeOK, [Next]_vars, NEW r \in Rounds, NEW h \in Hashes,
           Choosable(r, h)'
    PROVE  Choosable(r, h)
<1>1. ASSUME NEW v \in Correct, MayPrecommit(v, r, h)'
      PROVE  MayPrecommit(v, r, h)
  <2>. USE ConstantsAssumption DEF TypeOK, Votes, MayPrecommit, NoVoteAfter, VoteSteps
  <2>1. ASSUME NEW w \in Correct, NEW x \in Rounds, SkipTo(w, x)
        PROVE  MayPrecommit(v, r, h)
    BY <1>1, <2>1 DEF SkipTo, SkipGuard, GiveUpBefore, Rounds
  <2>2. ASSUME NEW w \in Correct, NEW x \in Rounds, NEW g \in Votes, Prevote(w, x, g)
        PROVE  MayPrecommit(v, r, h)
    BY <1>1, <2>2 DEF Prevote, PrevoteGuard, WithPrevote, GiveUpBefore, Rounds
  <2>3. ASSUME NEW w \in Correct, NEW x \in Rounds, NEW g \in Votes, Precommit(w, x, g)
        PROVE  MayPrecommit(v, r, h)
    BY <1>1, <2>3 DEF Precommit, PrecommitGuard, WithPrecommit, Rounds
  <2>4. CASE UNCHANGED votes
    BY <1>1, <2>4
  <2>. QED
    BY <2>1, <2>2, <2>3, <2>4 DEF Next, Decide, vars
<1>. DEFINE M == {v \in Validators : v \in Correct => MayPrecommit(v, r, h)}
<1>2. M' \subseteq M
  BY <1>1
<1>. QED
  BY <1>2, QuorumAssumption DEF Choosable

\* Two proposals never both get 2f+1 prevotes, nor 2f+1 precommits, in a round.
LEMMA OneHashPerRound ==
    ASSUME TypeOK, NEW r \in Rounds, NEW h \in Hashes, NEW g \in Hashes
    PROVE  /\ Polka(r, h) /\ Polka(r, g) => h = g
           /\ Commit(r, h) /\ Commit(r, g) => h = g
<1>1. ASSUME NEW s \in VoteSteps,
             Signers(r, s, h) \in Quorums, Signers(r, s, g) \in Quorums
      PROVE  h = g
  <2>1. PICK v \in Correct : v \in Signers(r, s, h) /\ v \in Signers(r, s, g)
    BY <1>1, QuorumAssumption
  <2>. QED
    BY <2>1 DEF Signers, Signed
<1>. QED
  BY <1>1 DEF Polka, Commit, VoteSteps

\* The initial state satisfies the inductive invariant.
LEMMA InitIInv == Init => IInv
<1>. SUFFICES ASSUME Init PROVE IInv
  OBVIOUS
<1>. USE ConstantsAssumption DEF Init, Votes, VoteSteps
<1>1. TypeOK
  BY DEF TypeOK
<1>2. \A r \in Rounds, h \in Hashes : ~ Polka(r, h)
  BY QuorumAssumption DEF Polka, Signers, Signed, Correct
<1>3. VotesAreJustified
  BY DEF VotesAreJustified
<1>4. DecisionsAreCommitted
  BY DEF DecisionsAreCommitted
<1>. QED
  BY <1>1, <1>2, <1>3, <1>4 DEF IInv, PolkaExcludesEarlierDecision

\* Every step keeps the types.
LEMMA TypeIsPreserved == TypeOK /\ [Next]_vars => TypeOK'
<1>. SUFFICES ASSUME TypeOK, [Next]_vars PROVE TypeOK'
  OBVIOUS
<1>. USE ConstantsAssumption DEF TypeOK, VoteSteps
<1>1. ASSUME NEW w \in Correct, NEW x \in Rounds, SkipTo(w, x)
      PROVE  TypeOK'
  BY <1>1 DEF SkipTo, SkipGuard, GiveUpBefore, Votes
<1>2. ASSUME NEW w \in Correct, NEW x \in Rounds, NEW g \in Votes, Prevote(w, x, g)
      PROVE  TypeOK'
  <2>1. GiveUpBefore(w, x) \in [Rounds -> [VoteSteps -> Votes \cup {NoVote}]]
    BY DEF GiveUpBefore, Votes
  <2>. QED
    BY <1>2, <2>1 DEF Prevote, PrevoteGuard, WithPrevote
<1>3. ASSUME NEW w \in Correct, NEW x \in Rounds, NEW g \in Votes, Precommit(w, x, g)
      PROVE  TypeOK'
  BY <1>3 DEF Precommit, PrecommitGuard, WithPrecommit
<1>4. CASE ByzantineSigns /\ UNCHANGED <<votes, decisions>>
  BY <1>4 DEF ByzantineSigns
<1>5. ASSUME ByzantineSigns, NEW w \in Correct, NEW g \in Hashes, Decide(w, g)
      PROVE  TypeOK'
  BY <1>5 DEF ByzantineSigns, Decide
<1>6. CASE UNCHANGED vars
  BY <1>6 DEF vars
<1>. QED
  BY <1>1, <1>2, <1>3, <1>4, <1>5, <1>6 DEF Next

(***************************************************************************)
(* The lock rule, across one step: whoever prevotes g after having         *)
(* precommitted h had seen 2f+1 prevotes for g since, before this step.    *)
(***************************************************************************)
LEMMA PrevoteNeedsPolka ==
    ASSUME IInv, [Next]_vars,
           NEW v \in Correct, NEW r \in Rounds, NEW x \in Rounds, r < x,
           NEW h \in Hashes, NEW g \in Hashes, h # g,
           votes'[v][r]["Precommit"] = h, votes'[v][x]["Prevote"] = g
    PROVE  \E vr \in Rounds : r <= vr /\ vr < x /\ Polka(vr, g)
<1>. USE ConstantsAssumption DEF IInv, TypeOK, Votes, VoteSteps
<1>1. CASE votes[v][r]["Precommit"] = h /\ votes[v][x]["Prevote"] = g
  BY <1>1 DEF VotesAreJustified, LockAllows
<1>2. ASSUME NEW w \in Correct, NEW y \in Rounds, SkipTo(w, y)
      PROVE  votes[v][r]["Precommit"] = h /\ votes[v][x]["Prevote"] = g
  BY <1>2 DEF SkipTo, SkipGuard, GiveUpBefore
<1>3. ASSUME NEW w \in Correct, NEW y \in Rounds, NEW k \in Votes, Prevote(w, y, k)
      PROVE  \E vr \in Rounds : r <= vr /\ vr < x /\ Polka(vr, g)
  <2>1. votes[v][r]["Precommit"] = h
    BY <1>3 DEF Prevote, PrevoteGuard, WithPrevote, GiveUpBefore
  <2>2. CASE w = v /\ y = x
    <3>1. k = g
      BY <1>3, <2>2 DEF Prevote, PrevoteGuard, WithPrevote, GiveUpBefore
    <3>2. LockAllows(v, x, g)
      BY <1>3, <2>2, <3>1 DEF Prevote, PrevoteGuard, WithPrevote
    <3>. QED
      BY <2>1, <3>2 DEF LockAllows
  <2>3. CASE ~ (w = v /\ y = x)
    <3>1. votes[v][x]["Prevote"] = g
      BY <1>3, <2>3 DEF Prevote, PrevoteGuard, WithPrevote, GiveUpBefore
    <3>. QED
      BY <1>1, <2>1, <3>1
  <2>. QED
    BY <2>2, <2>3
<1>4. ASSUME NEW w \in Correct, NEW y \in Rounds, NEW k \in Votes, Precommit(w, y, k)
      PROVE  votes[v][r]["Precommit"] = h /\ votes[v][x]["Prevote"] = g
  <2>1. votes[v][x]["Prevote"] = g
    BY <1>4 DEF Precommit, PrecommitGuard, WithPrecommit
  <2>2. ~ (w = v /\ y = r)
    BY <1>4, <2>1 DEF Precommit, PrecommitGuard, WithPrecommit, NoVoteAfter, Rounds
  <2>. QED
    BY <1>4, <2>1, <2>2 DEF Precommit, PrecommitGuard, WithPrecommit
<1>5. CASE UNCHANGED votes
  BY <1>1, <1>5
<1>. QED
  BY <1>1, <1>2, <1>3, <1>4, <1>5 DEF Next, Decide, vars

\* Every step keeps the votes justified by the 2f+1 prevotes they rest on.
LEMMA JustificationsArePreserved == IInv /\ [Next]_vars => VotesAreJustified'
<1>. SUFFICES ASSUME IInv, [Next]_vars,
                     NEW v \in Correct, NEW r \in Rounds, NEW h \in Hashes
              PROVE  /\ votes'[v][r]["Precommit"] = h => Polka(r, h)'
                     /\ votes'[v][r]["Prevote"] = h => LockAllows(v, r, h)'
  BY DEF VotesAreJustified
<1>0. ASSUME NEW x \in Rounds, NEW g \in Hashes, x < r, g # h,
             votes'[v][x]["Precommit"] = g, votes'[v][r]["Prevote"] = h
      PROVE  \E vr \in Rounds : x <= vr /\ vr < r /\ Polka(vr, h)
  BY <1>0, PrevoteNeedsPolka
<1>. USE ConstantsAssumption DEF IInv, TypeOK, Votes, VoteSteps
<1>1. TypeOK /\ TypeOK'
  BY TypeIsPreserved
<1>2. ASSUME votes'[v][r]["Precommit"] = h
      PROVE  Polka(r, h)
  <2>1. CASE votes[v][r]["Precommit"] = h
    BY <2>1 DEF VotesAreJustified
  <2>2. ASSUME NEW w \in Correct, NEW y \in Rounds, SkipTo(w, y)
        PROVE  votes[v][r]["Precommit"] = h
    BY <1>2, <2>2 DEF SkipTo, SkipGuard, GiveUpBefore
  <2>3. ASSUME NEW w \in Correct, NEW y \in Rounds, NEW k \in Votes, Prevote(w, y, k)
        PROVE  votes[v][r]["Precommit"] = h
    BY <1>2, <2>3 DEF Prevote, PrevoteGuard, WithPrevote, GiveUpBefore
  <2>4. ASSUME NEW w \in Correct, NEW y \in Rounds, NEW k \in Votes, Precommit(w, y, k)
        PROVE  Polka(r, h)
    BY <1>2, <2>1, <2>4 DEF Precommit, PrecommitGuard, WithPrecommit
  <2>5. CASE UNCHANGED votes
    BY <1>2, <2>1, <2>5
  <2>. QED
    BY <2>1, <2>2, <2>3, <2>4, <2>5 DEF Next, Decide, vars
<1>3. ASSUME votes'[v][r]["Prevote"] = h
      PROVE  LockAllows(v, r, h)'
  <2>. SUFFICES ASSUME NEW x \in Rounds, NEW g \in Hashes,
                       x < r, votes'[v][x]["Precommit"] = g, g # h
                PROVE  \E vr \in Rounds : x <= vr /\ vr < r /\ Polka(vr, h)'
    BY DEF LockAllows
  <2>1. PICK vr \in Rounds : x <= vr /\ vr < r /\ Polka(vr, h)
    BY <1>0, <1>3
  <2>. QED
    BY <2>1, <1>1, QuorumsAreStable
<1>. QED
  BY <1>1, <1>2, <1>3, QuorumsAreStable

(***************************************************************************)
(* The heart of the argument.  Suppose g gets 2f+1 prevotes in round x     *)
(* while h could still be decided in r < x.  Some correct validator is in  *)
(* both quorums; it prevoted g after it had precommitted h, so g had 2f+1  *)
(* prevotes in some vr with r <= vr < x already before this step.  In      *)
(* round r itself only h can have those; in a later round the invariant    *)
(* says that h could not be decided any more.                              *)
(***************************************************************************)
LEMMA PolkaExclusionIsPreserved ==
    IInv /\ [Next]_vars => PolkaExcludesEarlierDecision'
<1>. SUFFICES ASSUME IInv, [Next]_vars,
                     NEW r \in Rounds, NEW x \in Rounds,
                     NEW h \in Hashes, NEW g \in Hashes,
                     r < x, h # g, Polka(x, g)', Choosable(r, h)'
              PROVE  FALSE
  BY DEF PolkaExcludesEarlierDecision
<1>. USE ConstantsAssumption
<1>1. TypeOK /\ TypeOK'
  BY TypeIsPreserved DEF IInv
<1>2. Choosable(r, h)
  BY <1>1, ChoosableIsStable
<1>3. PICK v \in Correct : /\ votes'[v][x]["Prevote"] = g
                           /\ MayPrecommit(v, r, h)'
  BY QuorumAssumption DEF Polka, Choosable, Signers, Signed
<1>4. votes'[v][r]["Precommit"] = h
  BY <1>1, <1>3 DEF MayPrecommit, NoVoteAfter, VoteSteps, Votes
<1>5. PICK vr \in Rounds : r <= vr /\ vr < x /\ Polka(vr, g)
  BY <1>3, <1>4, PrevoteNeedsPolka
<1>6. CASE r < vr
  BY <1>2, <1>5, <1>6 DEF IInv, PolkaExcludesEarlierDecision
<1>7. CASE r = vr
  <2>1. Polka(r, h)'
    BY <1>4, JustificationsArePreserved DEF VotesAreJustified
  <2>2. Polka(r, g)'
    BY <1>1, <1>5, <1>7, QuorumsAreStable
  <2>3. PICK w \in Correct : votes'[w][r]["Prevote"] = h /\ votes'[w][r]["Prevote"] = g
    BY <2>1, <2>2, QuorumAssumption DEF Polka, Signers, Signed
  <2>. QED
    BY <2>3
<1>. QED
  BY <1>5, <1>6, <1>7 DEF Rounds

\* Every step only decides what has 2f+1 precommits.
LEMMA DecisionsArePreserved == IInv /\ [Next]_vars => DecisionsAreCommitted'
<1>. SUFFICES ASSUME IInv, [Next]_vars,
                     NEW v \in Correct, NEW h \in decisions'[v]
              PROVE  \E r \in Rounds : Commit(r, h)'
  BY DEF DecisionsAreCommitted
<1>1. TypeOK
  BY DEF IInv
<1>2. CASE h \in decisions[v]
  <2>1. PICK r \in Rounds : Commit(r, h)
    BY <1>2 DEF IInv, DecisionsAreCommitted
  <2>2. h \in Hashes
    BY <1>1, <1>2 DEF TypeOK
  <2>. QED
    BY <1>1, <2>1, <2>2, QuorumsAreStable
<1>3. ASSUME NEW w \in Correct, NEW g \in Hashes, Decide(w, g)
      PROVE  h \in decisions[v] \/ h = g
  BY <1>1, <1>3 DEF Decide, TypeOK
<1>4. ASSUME NEW w \in Correct, NEW g \in Hashes, Decide(w, g), h = g
      PROVE  \E r \in Rounds : Commit(r, h)'
  BY <1>4 DEF Decide
<1>5. CASE UNCHANGED decisions
  BY <1>2, <1>5
<1>. QED
  BY <1>2, <1>3, <1>4, <1>5 DEF Next, SkipTo, Prevote, Precommit, vars

\* A proposal with 2f+1 precommits also got 2f+1 prevotes in that round.
LEMMA CommitsHavePolkas ==
    ASSUME IInv, NEW r \in Rounds, NEW h \in Hashes, Commit(r, h)
    PROVE  Polka(r, h)
<1>1. PICK v \in Correct : votes[v][r]["Precommit"] = h
  BY QuorumAssumption DEF Commit, Signers, Signed
<1>. QED
  BY <1>1 DEF IInv, VotesAreJustified

\* 2f+1 precommits for a proposal can decide it.
LEMMA CommitsAreChoosable ==
    ASSUME NEW r \in Rounds, NEW h \in Hashes, Commit(r, h)
    PROVE  Choosable(r, h)
<1>. DEFINE M == {v \in Validators : v \in Correct => MayPrecommit(v, r, h)}
<1>1. Signers(r, "Precommit", h) \subseteq M
  BY DEF Signers, Signed, MayPrecommit
<1>. QED
  BY <1>1, QuorumAssumption DEF Choosable, Commit

\* The inductive invariant implies agreement.
LEMMA IInvImpliesAgreement == IInv => Agreement
<1>. SUFFICES ASSUME IInv, NEW v \in Correct, NEW w \in Correct,
                     NEW h \in decisions[v], NEW g \in decisions[w], h # g
              PROVE  FALSE
  BY DEF Agreement
<1>1. TypeOK /\ h \in Hashes /\ g \in Hashes
  BY DEF IInv, TypeOK
<1>2. PICK r \in Rounds, x \in Rounds : Commit(r, h) /\ Commit(x, g)
  BY DEF IInv, DecisionsAreCommitted
<1>3. Polka(r, h) /\ Polka(x, g) /\ Choosable(r, h) /\ Choosable(x, g)
  BY <1>1, <1>2, CommitsHavePolkas, CommitsAreChoosable
<1>4. ~ (r < x) /\ ~ (x < r)
  BY <1>1, <1>3 DEF IInv, PolkaExcludesEarlierDecision
<1>5. r # x
  BY <1>1, <1>2, OneHashPerRound
<1>. QED
  BY <1>4, <1>5 DEF Rounds

\* Every step keeps the inductive invariant.
LEMMA IInvIsPreserved == IInv /\ [Next]_vars => IInv'
BY TypeIsPreserved, JustificationsArePreserved, PolkaExclusionIsPreserved,
   DecisionsArePreserved DEF IInv

(***************************************************************************)
(* Votes, Byzantine votes and decisions always have their types.           *)
(***************************************************************************)
THEOREM TypeCorrect == Spec => []TypeOK
<1>1. Init => TypeOK
  BY InitIInv DEF IInv
<1>. QED
  BY <1>1, TypeIsPreserved, PTL DEF Spec

(***************************************************************************)
(* The inductive invariant, and with it the lock argument of update_valid  *)
(* and is_allowed_to_vote_on: a proposal with 2f+1 prevotes rules out the  *)
(* decision of any other in an earlier round.                              *)
(***************************************************************************)
THEOREM InductiveInvariant == Spec => []IInv
BY InitIInv, IInvIsPreserved, PTL DEF Spec

(***************************************************************************)
(* No two correct validators, and no validator before and after a restart, *)
(* decide differently, whatever the Byzantine validators sign.             *)
(***************************************************************************)
THEOREM AgreementHolds == Spec => []Agreement
BY InductiveInvariant, IInvImpliesAgreement, PTL
=============================================================================
