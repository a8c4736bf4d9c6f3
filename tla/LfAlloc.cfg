CONSTANTS
    Threads = {t1, t2, t3}
    Nodes = {n1, n2}
    Null = Null
    LF_PINBOX_MAX_PINS = 3
    LF_PURGATORY_SIZE = 2
    Versions = 16
    MaxVersion = 4
    MaxInArray = 6
    SearchBound = 4
SYMMETRY Symmetric
SPECIFICATION Spec
INVARIANT OnePlace
INVARIANT PinsHaveOneOwner
PROPERTY PinnedIsNotFreed
PROPERTY ImplementsPool
CHECK_DEADLOCK FALSE
