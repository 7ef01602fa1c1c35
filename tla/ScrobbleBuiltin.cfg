SPECIFICATION FairSpec
CONSTANTS
    e1 = e1
    e2 = e2
    e3 = e3
    u1 = u1
    u2 = u2
    Entries <- MCEntries
    UserOf <- MCUserOf
    PlayTime <- MCPlayTime
    Runners = {r1, r2}
    NoRunner = NoRunner
    NoEntry = NoEntry
    Builtin = TRUE
    MaxLoads = 1
    MaxErrors = 1
    MaxBusy = 1
    MaxCrashes = 1
INVARIANT NothingLost
INVARIANT InOrder
PROPERTY BufferDrains
CHECK_DEADLOCK FALSE
