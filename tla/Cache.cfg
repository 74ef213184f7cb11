SPECIFICATION ISpec
CONSTANTS
    NSets = 2
    Assoc = 2
    MoreAssoc = 3
    Policies = {"lru", "fifo", "random"}
    Blocks = {0, 1, 2, 4, 6}
    MaxAccesses = 7
INVARIANTS CompulsoryOnly LruInclusion
PROPERTY RefinesRecency
CHECK_DEADLOCK FALSE
