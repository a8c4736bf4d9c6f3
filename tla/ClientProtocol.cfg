SPECIFICATION Spec
CONSTANTS
    Results = {r1, r2}
    Responses <- QueriesMade
    MaxCommands = 6
    MaxBreaks = 3
    None = None
SYMMETRY Symmetric
INVARIANT InSync
INVARIANT NoSilentLoss
