\* A book around the mark with leftovers on both sides of the 15 and 20 percent
\* limits; two moves of the others between a read and the order.  Two replicas: one
\* may lag while the other answers.
CONSTANTS
    Levels = {780, 849, 998, 1000, 1001, 1300}
    Mark = 1000
    MaxPerSide = 2
    MaxMoves = 2
    r1 = r1
    r2 = r2
    Replica <- MCReplica
    Listings <- MCListings
    Notional = 1234
SPECIFICATION RestingSpec
INVARIANTS
    QuoteInv
    MeetsInSpread
    SizeHonoured
    PassMeansReleased
    AlarmsAreReal
    LeftoverOnlyIfMissed
SYMMETRY MCSymmetry
\* The tests and the makers are over after one order.
CHECK_DEADLOCK FALSE
