CONSTANTS
    node = node
    other = other
    byz = byz
    Validators = {node, other, byz}
    Byzantine = {byz}
    Nodes = {node}
    Weight <- MCWeight
    TwoFPlusOne <- MCTwoFPlusOne
    FPlusOne <- MCFPlusOne
    Hashes = {1, 2}
    Proposer <- ByzProposesFirst
    HeaderRound <- AllOfRoundZero
    SignedByByzantine <- ByzVotesTwo
    OtherProposals <- TwoInRoundZero
    PeerChoice <- AnyVote
    Nil = Nil
    NoVote = NoVote
    MinAggregate = 3
    MaxRound = 1
    MaxRestarts = 0
SPECIFICATION MCSpec
INVARIANTS LocksAreSafe NoMissedDecision
CHECK_DEADLOCK FALSE
