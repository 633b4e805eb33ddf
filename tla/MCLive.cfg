CONSTANTS
    None = None
    Parts = {"blocks", "state", "consensus", "requests", "events"}
SPECIFICATION LiveSpec
INVARIANTS
    BlocksAwaitParents
    StateFollowsHead
    ConsensusIsTold
    AnswersAreProven
    SubscribersAgree
PROPERTIES
    ReportsAreTrue
CHECK_DEADLOCK FALSE
