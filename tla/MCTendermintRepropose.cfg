CONSTANTS
    node = node
    other = other
    byz = byz
    Validators = {node, other, byz}
    Byzantine = {byz}
    Nodes = {node}
    Weight <- MCWeight
    TwoFPlusOne <- MCTwoFPlusOne
    FPlusOne <- MCFPlusOne
    Hashes = {1}
    Proposer <- AlwaysByz
    HeaderRound <- AllOfRoundZero
    SignedByByzantine <- ByzVotesNil
    OtherProposals <- WithoutValidRound
    PeerChoice <- AnyVote
    Nil = Nil
    NoVote = NoVote
    MinAggregate = 3
    MaxRound = 1
    MaxRestarts = 0
SPECIFICATION MCSpec
INVARIANTS OnlyReproposalsDiffer
CHECK_DEADLOCK FALSE
