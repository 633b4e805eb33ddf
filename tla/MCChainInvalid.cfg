CONSTANTS
    None = None
    v1 = v1
    v2 = v2
    v3 = v3
    v4 = v4
    Parts = {"forks"}
    Tree <- InvalidTree
    Validators = {v1, v2, v3, v4}
    Byzantine = {v4}
    Hashes = {h1, h2}
    Nil = Nil
    NoVote = NoVote
    MaxRound = 1
    Quorums <- VotingQuorums
    WeakQuorums <- VotingWeakQuorums
SPECIFICATION ChainSpec
INVARIANTS
    NoPanic
SYMMETRY VotingSymmetry
CHECK_DEADLOCK FALSE
