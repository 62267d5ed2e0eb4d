\* Quarter seconds: poll and pump every 1.5 s, a slot of the limiter (0.2 s) rounded up
\* to one unit, marks and windows of 2 s, a second beyond the sleep for the three
\* requests of a turn, one of them retried at most; more than two turns before the timeout.
CONSTANTS
    long = long
    short = short
    Market <- MCMarket
    Size = 2
    Timeout = 24
    Poll = 6
    Interval = 6
    Slot = 1
    Hold = 8
    Scan = 8
    Late = 4
SPECIFICATION CrossSpec
INVARIANTS
    TurnInv
    WindowsSee
\* The drive ends.
CHECK_DEADLOCK FALSE
