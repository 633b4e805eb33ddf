CONSTANTS
    node = node
    other = other
    byz = byz
    Validators = {node, other, byz}
    Byzantine = {byz}
    Nodes = {node}
    Weight <- MCWeight
    TwoFPlusOne <- MCTwoFPlusOne
    FPlusOne <- MCFPlusOne
    Hashes = {1, 2}
    Proposer <- NodeProposesFirst
    HeaderRound <- AllOfRoundZero
    SignedByByzantine <- NoByzVotes
    OtherProposals <- OneAgain
    PeerChoice <- AnyVote
    Nil = Nil
    NoVote = NoVote
    MinAggregate = 3
    MaxRound = 1
    MaxRestarts = 1
SPECIFICATION MCSpec
INVARIANTS RestartIsSafe
PROPERTIES RefinesVoting
CHECK_DEADLOCK FALSE
