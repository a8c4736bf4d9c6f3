SPECIFICATION Spec
CONSTANTS
    Threads = {t1, t2}
    Coros = {c1, c2, c3}
    Null = null
    RestartFrom = {"NotStarted", "Stopped", "Terminated"}
SYMMETRY Symm
CHECK_DEADLOCK FALSE
INVARIANTS TypeOK AssertionsHold ChainsDisjoint ResumesRight StackLive
PROPERTIES ImplementsStacks
