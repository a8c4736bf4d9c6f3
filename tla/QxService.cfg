SPECIFICATION Spec
CONSTANTS
    Workers = {w1, w2}
    Clients = {c1, c2, c3}
    MaxRetry = 1
    None = None
INVARIANT NoWorkerLost
INVARIANT ServedOnce
PROPERTY ShutdownEnds
CHECK_DEADLOCK FALSE
