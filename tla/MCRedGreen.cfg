\* Two runs of the tool, one after the other or at once, and one edit; every test
\* file of one or two lines.
CONSTANTS
    t1 = t1
    t2 = t2
    Tool <- MCTool
    Files <- MCFiles
    MaxEdits = 1
SPECIFICATION Spec
INVARIANTS
    RestoreInv
    VerdictsAreTrue
SYMMETRY MCSymmetry
\* The tool is run twice.
CHECK_DEADLOCK FALSE
