CONSTANTS
    None = None
    Own = Own
    Parts = {"queue", "history", "light", "pico", "blocks", "state", "consensus", "pool", "codec", "task"}
SPECIFICATION LivenessFairSpec
PROPERTIES
    SyncCompletes
    NothingHangs
CHECK_DEADLOCK FALSE
