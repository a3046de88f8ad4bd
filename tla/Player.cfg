\* Two videos of other ladders, autoplay on, two inputs, two retries.
CONSTANTS
    Videos = {1, 2}
    NetworkRetryMax = 2
    MediaRetryMax = 1
    Autoplay = TRUE
    MaxInputs = 2
    MaxEvents = 2
SPECIFICATION FairPlayerSpec
INVARIANTS NothingLeftHanging
PROPERTIES RecoveryEnds TapTogglesOnce OnlyOwnAutoplay
CHECK_DEADLOCK FALSE
