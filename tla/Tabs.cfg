\* A tab on the watch page, the dashboard or the settings page, or one that
\* plays a video; the first two with one failed request or lost answer.
CONSTANTS
    None = None
    Chapter = {"title1", "title2"}
    Segment = {"segment1"}
    MetaKeys = {"key1"}
    MaxMeta = 1
    MaxFaults = 1
    People = {"ann"}
    StorageWorks = TRUE
    Exts = {"png", "svg"}
    Removals = {"remove1", "remove2"}
    MaxSettings = 3
    MaxInputs = 3
    Heartbeat = 2
    FlushEvery = 3
    BatchMax = 3
    SessionIdle = 3
    WatchedMax = 2
    CacheTtl = 2
    Retention = 3
    Bucket = 2
    Period = 3
    Duration = 2
    MaxTime = 4
    MaxMoves = 3
    MaxLost = 1
SPECIFICATION TabsSpec
INVARIANTS WritingNeverLost PagesShowStored OwnChangesShown PicturesThere WatchReported
CHECK_DEADLOCK FALSE
