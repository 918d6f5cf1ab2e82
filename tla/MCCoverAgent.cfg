CONSTANTS
    MaxCycles = 3
    Month <- MCMonth
    NoCover = NoCover
    Horizon = 7
SPECIFICATION FairSpec
INVARIANTS TypeOK JournalsAgree
PROPERTIES SpendingStops  PlanSpec
CHECK_DEADLOCK FALSE
