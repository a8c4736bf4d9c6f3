CONSTANTS
    Threads = {t1, t2}
    Nodes = {n1, n2}
    Null = Null
    Keys = {1, 2}
    Hash <- HashOf
    HashBits = 1
    Calls <- CallsMade
    MaxSize = 2
SYMMETRY Symmetric
SPECIFICATION Spec
INVARIANT ListOrdered
INVARIANT Linearizable
INVARIANT PinnedNotReused
INVARIANT RestIsClean
CHECK_DEADLOCK FALSE
