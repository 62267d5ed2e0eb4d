\* Sizes of one unit, two attempts, two rounds, two posts of a close loop; the
\* teardown is followed when at most three orders were placed before it.  One of the
\* first three orders may be accepted unanswered, and posted again.
CONSTANTS
    subject = subject
    maker = maker
    Subject = subject
    Maker = maker
    a = subject
    b = maker
    Party <- MCParty
    MaxUnits = 2
    MaxRepeats = 1
    Unanswered = {1, 2, 3}
    MaxPosts = 2
    MaxAttempts = 2
    MaxRounds = 2
    Sizes = {1}
    MaxBook = 3
    Starts <- MCStarts
SPECIFICATION Spec
INVARIANTS
    FlowInv
    FlatReturnIsFlat
PROPERTIES
    OnlyReduces
    TeardownEnds
\* The session ends.
CHECK_DEADLOCK FALSE
