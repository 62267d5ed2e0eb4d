\* The drive: a cycle of two units, then one of one unit (partial fills, fills that come
\* after their leg was skipped, maker orders left from one leg to the next).  The target
\* tier asks for two units, the next one for five, which the drive can reach.  One of the
\* opening orders of a second cycle (the fifth and sixth order) may be accepted twice.
CONSTANTS
    subject = subject
    maker = maker
    Subject = subject
    Maker = maker
    Party <- MCParty
    MaxUnits = 2
    MaxRepeats = 1
    Unanswered = {5, 6}
    MaxCycles = 2
    Sizes <- MCSizes
    Schedules <- MCSchedules
    TargetLevel = 1
    Standards <- MCStandards
    EarlierVolume = 1
    MaxDeposits = 2
    MaxHours = 2
SPECIFICATION TierSpec
VIEW View
INVARIANTS
    TierInv
    FilledCyclesEndFlat
    TargetSuffices
    PassesAreEarned
    AlarmsExplained
\* The tests end.
CHECK_DEADLOCK FALSE
