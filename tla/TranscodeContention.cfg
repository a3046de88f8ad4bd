\* Two clients on every endpoint, one fault of any kind: what holds whatever
\* the order and whatever goes wrong.
SPECIFICATION Spec
CONSTANTS
    Requests = {r1, r2}
    Workers = {w1}
    Jobs = {j1, j2}
    Rungs = 1
    MaxAttempts = 2
    MaxStalls = 1
    Endpoints = {"upload", "multipart", "import", "process", "delete"}
    Faults = {"disconnect", "abandon", "queueAdd", "queueLate", "queueRemove", "queueRead", "source", "reject", "encode", "publish", "archive", "db", "stall", "crash"}
    FaultBudget = 1
    None = None
SYMMETRY Symmetric
INVARIANTS CompletedIsPublished VerdictsAgree
CHECK_DEADLOCK FALSE
