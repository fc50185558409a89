SPECIFICATION Spec
CONSTANTS
    ChunkCount = 2
    Fragments = 1
    Parallelism = 2
    QueueCapacity = 2
    MaxAttempts = 1
    MaxRuns = 1
    MaxFaults = 0
INVARIANTS
    CompletedReportsAll
\* Once the runs allowed are over, nothing is left to do.
CHECK_DEADLOCK FALSE
