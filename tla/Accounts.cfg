\* An account with a reset link and two processes of the API, or an
\* organization of three people with two requests at a time, or its use of a
\* plan: two videos whose jobs may come twice, two
\* jobs at a time, two months.
SPECIFICATION AccountsSpec
CONSTANTS
    People = {own, ann, bob}
    Owner = own
    Requests = {r1, r2}
    MaxRows = 4
    MaxInvites = 3
    MaxKeys = 3
    MemberLimit = 2
    KeyLimit = 1
    MaxRequests = 4
    MaxCalls = 3
    Procs = {ann, bob}
    Links = {l1}
    TTL = 1
    Life = 3
    LinkLife = 1
    Latency = 1
    MaxNow = 2
    Slots = {r1, r2}
    Videos = {ann, bob}
    Lengths = {1, 2}
    EncodingLimit = 2
    AiLimit = 1
    StorageLimit = 5
    MaxMonth = 1
    MaxDeliveries = 2
CHECK_DEADLOCK FALSE
SYMMETRY Symmetry
INVARIANTS
    OneOwner
    InvitationJoinsOnce
    PlanLimitsHold
    KeysGoWithAuthor
    PasswordsGuarded
PROPERTY
    RevokedFades
