SPECIFICATION LimitsFairSpec
CONSTANTS
    u1 = u1
    u2 = u2
    u3 = u3
    Users <- MCThreeUsers
    Tasks <- MCThreeUsers
    Limits = {0, 2}
    MaxAcquires = 4
    MaxSets = 1
    Rates = {0, 2}
    Fragments = {3}
    Second = 1
    MaxCalls = 2
    MaxTime = 1
INVARIANTS
    NoLostWakeup
    WithinRate
PROPERTIES
    ServedThroughSleep
\* Once the calls allowed are made, nothing is left to do.
CHECK_DEADLOCK FALSE
