CONSTANTS
    None = None
    Parts = {"mempool", "validator", "staking", "builder"}
SPECIFICATION NodeSpec
INVARIANTS
    MempoolIsConsistent
    NeverEquivocates
    StakingIsSound
    BuiltAsAsked
PROPERTIES
    OwnBlocksAreAcceptable
CHECK_DEADLOCK FALSE
