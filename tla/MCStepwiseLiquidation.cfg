\* Three tiers, three steps, two pieces (TC-LIQ piecewise reduction).
CONSTANTS
    OpenSize = 3
    MaxSteps = 3
    MaxPieces = 2
SPECIFICATION Spec
INVARIANTS
    PiecesInv
    InjectedIsRestored
\* The test ends.
CHECK_DEADLOCK FALSE
