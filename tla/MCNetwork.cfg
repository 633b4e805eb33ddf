CONSTANTS
    None = None
    Own = Own
    Parts = {"pool", "discovery", "codec", "task", "handel", "proposals"}
SPECIFICATION NetworkSpec
INVARIANTS
    PoolIsExact
    ContactsAreCurrent
    FramesAreKept
    TaskIsExact
    AggregatesAreSound
    ProposalsAreServed
PROPERTIES
    NeverRegresses
    AnswersAreRight
CHECK_DEADLOCK FALSE
