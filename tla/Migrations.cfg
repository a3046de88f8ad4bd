\* Two replicas of the API that start together, two crashes.
SPECIFICATION FairSpec
CONSTANTS
    Replicas = {a, b}
    MaxCrashes = 2
CHECK_DEADLOCK FALSE
INVARIANTS
    RecordedIsApplied
    AppliedOnce
PROPERTY
    BootsUnlessKilled
