SPECIFICATION Spec
CONSTANTS
    t1 = t1
    t2 = t2
    Threads <- MCOneThread
    ChunkCount = 1
    Parallelism = 1
    MaxCalls = 3
INVARIANTS
    PausingWindsDown
\* Once the calls allowed are made, or the handle is dropped, nothing is left to do.
CHECK_DEADLOCK FALSE
