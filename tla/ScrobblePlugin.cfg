SPECIFICATION Spec
CONSTANTS
    e1 = e1
    e2 = e2
    e3 = e3
    u1 = u1
    u2 = u2
    Entries <- MCPair
    UserOf <- MCUserOf
    PlayTime <- MCPlayTime
    Runners = {r1, r2}
    NoRunner = NoRunner
    NoEntry = NoEntry
    Builtin = FALSE
    MaxLoads = 2
    MaxErrors = 1
    MaxBusy = 0
    MaxCrashes = 0
SYMMETRY RunnerSymmetry
INVARIANT DuplicatesExplained
CHECK_DEADLOCK FALSE
