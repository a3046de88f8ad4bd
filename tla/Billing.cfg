\* One subscription, two handlers at a time, one failure or crash (and a release
\* of the claim that fails after it).
SPECIFICATION FairSpec
CONSTANTS
    Subs = {s1}
    Handlers = {h1, h2}
    MaxChanges = 3
    Faults = {"error", "release", "crash"}
    None = None
INVARIANT EventsAccounted
PROPERTIES GraceNotRenewed EntitledAsPaid
CHECK_DEADLOCK FALSE
