CONSTANTS
    node = node
    other = other
    byz = byz
    Validators = {node, other, byz}
    Byzantine = {byz}
    Nodes = {node}
    Weight <- MCWeight
    TwoFPlusOne <- MCTwoFPlusOne
    FPlusOne <- MCFPlusOne
    Hashes = {1, 2}
    Proposer <- AlwaysByz
    HeaderRound <- OldHashFirst
    SignedByByzantine <- NoByzVotes
    OtherProposals <- OneThenTwo
    PeerChoice <- OneAtFirst
    Nil = Nil
    NoVote = NoVote
    MinAggregate = 3
    MaxRound = 1
    MaxRestarts = 0
SPECIFICATION MCSpec
PROPERTIES RefinesVoting
CHECK_DEADLOCK FALSE
