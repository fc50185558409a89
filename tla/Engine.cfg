SPECIFICATION FairSpec
CONSTANTS
    ChunkCount = 2
    Fragments = 2
    Parallelism = 2
    QueueCapacity = 2
    MaxAttempts = 2
    MaxRuns = 2
    MaxFaults = 1
INVARIANTS
    CommittedFromOneAttempt
    WriterFailurePrevails
    NothingLeftBehind
PROPERTIES
    RunEnds
\* Once the runs allowed are over, nothing is left to do.
CHECK_DEADLOCK FALSE
