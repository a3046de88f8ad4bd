\* One worker that may die, two videos; every fault.
SPECIFICATION FairSpec
CONSTANTS
    Assets = {a1, a2}
    Workers = {w1}
    Runs = {x1, x2}
    Faults = {"transcode", "ai", "settle", "upload", "crash"}
    FaultBudget = 2
    None = None
INVARIANT NoSpinnerOnSettledRun
PROPERTY RunSettles
CHECK_DEADLOCK FALSE
