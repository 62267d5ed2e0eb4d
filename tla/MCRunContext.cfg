\* Two concurrent runs, a second that passes or does not between any two steps.
CONSTANTS
    m1 = m1
    m2 = m2
    w1 = w1
    w2 = w2
    tool = tool
    Main <- MCMain
    Worker <- MCWorker
    Owner <- MCOwner
    Tool <- MCTool
    MaxTime = 1
SPECIFICATION Spec
INVARIANTS
    RunInv
    OneFolderPerRun
    SeenRunsDistinct
\* Every run has been minted and every folder looked up.
CHECK_DEADLOCK FALSE
