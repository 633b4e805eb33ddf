CONSTANTS
    None = None
    Unchanged = Unchanged
    Parts = {"accounts", "trie", "merkle", "mmr", "keys", "history"}
SPECIFICATION StoreSpec
INVARIANTS
    AccountsAreSound
    TrieIsExact
    PartialTrieFollows
    TreesAreExact
    HistoryIsExact
CHECK_DEADLOCK FALSE
