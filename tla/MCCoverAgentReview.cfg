CONSTANTS
    MaxCycles = 3
    Month <- MCMonth
    NoCover = NoCover
    Horizon = 5
SPECIFICATION FairSpec
INVARIANT ReviewPauses
CHECK_DEADLOCK FALSE
