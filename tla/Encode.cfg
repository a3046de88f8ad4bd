\* Two sources, two attempts, two runs with the crashed, uploads two by two; one
\* file at a time that could not be removed.
SPECIFICATION FairSpec
CONSTANTS
    Sources <- FewSources
    MaxAttempts = 2
    MaxRedirects = 1
    UploadBatch = 2
    MaxRuns = 2
    MaxKept = 1
INVARIANTS PublishedWhole SpriteFits
PROPERTY HungFfmpegEnds
CHECK_DEADLOCK FALSE
