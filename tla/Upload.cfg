\* Two files that need a multipart upload, one that does not, two runs, one
\* lost answer.
SPECIFICATION Spec
CONSTANTS
    Files = {film, remake, clip}
    Small = {clip}
    PartCount = 2
    Attempts = 2
    Concurrency = 2
    MaxRuns = 2
    MaxPicks = 2
    MaxFaults = 1
SYMMETRY Symmetric
INVARIANTS StoredWhole SomeoneAtWork
CHECK_DEADLOCK FALSE
