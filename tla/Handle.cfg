SPECIFICATION FairSpec
CONSTANTS
    t1 = t1
    t2 = t2
    Threads <- MCTwoThreads
    ChunkCount = 3
    Parallelism = 2
    MaxCalls = 4
INVARIANTS
    NoSecondTask
    OnlyWholePartsVerified
    NoOrphanedActivePhase
PROPERTIES
    FlagsStick
    DropStops
    TaskEnds
\* Once the calls allowed are made, or the handle is dropped, nothing is left to do.
CHECK_DEADLOCK FALSE
