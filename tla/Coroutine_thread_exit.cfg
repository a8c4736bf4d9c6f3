SPECIFICATION Spec
CONSTANTS
    Threads = {t1, t2}
    Coros = {c1, c2}
    Null = null
    RestartFrom = {"NotStarted", "Stopped", "Terminated"}
CHECK_DEADLOCK FALSE
INVARIANT ThreadExitClean
