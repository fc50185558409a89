SPECIFICATION FairSpec
CONSTANTS
    c1 = c1
    c2 = c2
    c3 = c3
    Chunks <- MCThreeChunks
    Fragments = 2
    MaxFaults = 3
INVARIANTS
    SlotsSafe
    AckedSurvive
    TargetIsContent
PROPERTIES
    ImplementsStore
    EventuallyPromoted
