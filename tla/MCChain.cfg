CONSTANTS
    None = None
    v1 = v1
    v2 = v2
    v3 = v3
    v4 = v4
    Parts = {"voting", "forks", "epochs", "light"}
    Tree <- ForkTree
    Validators = {v1, v2, v3, v4}
    Byzantine = {v4}
    Hashes = {h1, h2}
    Nil = Nil
    NoVote = NoVote
    MaxRound = 1
    Quorums <- VotingQuorums
    WeakQuorums <- VotingWeakQuorums
SPECIFICATION ChainSpec
INVARIANTS
    IInv
    Agreement
    ChainIsConsistent
    LightChainIsConsistent
PROPERTIES
    MacroIsFinal
SYMMETRY VotingSymmetry
CHECK_DEADLOCK FALSE
