\* One client at a time, two workers, any two of the faults that the handlers
\* are written to survive.
SPECIFICATION Spec
CONSTANTS
    Requests = {r1}
    Workers = {w1, w2}
    Jobs = {j1, j2}
    Rungs = 2
    MaxAttempts = 2
    MaxStalls = 1
    Endpoints = {"upload", "presign", "process"}
    Faults = {"disconnect", "queueAdd", "queueRead", "source", "reject", "encode", "publish", "crash"}
    FaultBudget = 2
    None = None
SYMMETRY Symmetric
INVARIANTS TypeOK ExclusiveTranscode AssetBacked
PROPERTY ImplementsLifecycle
CHECK_DEADLOCK FALSE
