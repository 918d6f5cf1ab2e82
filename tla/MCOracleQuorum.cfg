SPECIFICATION Spec
CONSTANTS
    Oracle = {"usgs", "emsc", "geofon"}
    Agent = "agent"
    Threshold = 2
    Adapter <- MCAdapter
    Policy <- MCPolicy
    NoPolicy = "none"
    Pool = "pool"
    PoolOf <- MCPoolOf
    Issued <- MCIssued
    Lapses <- MCLapses
    Legacy <- MCLegacy
    Row <- MCRow
    Topic <- MCTopic
    MaxTime = 3
    MaxTries = 2
    PageSize = 1
    MaxPages = 2
    MaxChunks = 3
INVARIANTS TypeOK 
PROPERTIES ReadsTheWhole RequestsEnd
CHECK_DEADLOCK FALSE
