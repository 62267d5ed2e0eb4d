\* Two tests one after the other; an order that fills in two trades.
CONSTANTS
    Tests = 2
    Order = {o1}
    MaxTold = 2
    MaxFills = 2
    DiskFails = TRUE
SPECIFICATION RecordsSpec
INVARIANTS
    RecordsInv
    DetailIsOwn
    StampsTrue
\* A session ends.
CHECK_DEADLOCK FALSE
