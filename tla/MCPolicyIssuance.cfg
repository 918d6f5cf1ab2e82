CONSTANTS
    Request = {r1, r2}
    Nobody = Nobody
    MaxUnits = 3
    Days = {2}
    Premium = 1
    Deposit = 1
    Capital = 2
    MaxCapital = 3
    Horizon = 2
SPECIFICATION Spec
INVARIANTS TypeOK PayoutsAreBacked AtMostOnce BookTellsTheLedger
PROPERTIES PoolKeepsPromises
SYMMETRY Symmetry
CHECK_DEADLOCK FALSE
