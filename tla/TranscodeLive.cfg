\* As TranscodeOneClient, without symmetry, for the liveness properties.
SPECIFICATION FairSpec
CONSTANTS
    Requests = {r1}
    Workers = {w1}
    Jobs = {j1, j2}
    Rungs = 1
    MaxAttempts = 2
    MaxStalls = 1
    Endpoints = {"multipart", "process", "delete"}
    Faults = {"queueAdd", "source", "reject", "crash"}
    FaultBudget = 2
    None = None
PROPERTIES QueueDrains NothingStaysInFlight
CHECK_DEADLOCK FALSE
