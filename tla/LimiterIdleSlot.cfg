SPECIFICATION Spec
CONSTANTS
    u1 = u1
    u2 = u2
    u3 = u3
    u4 = u4
    Users <- MCFourUsers
    Limits = {0, 2}
    MaxAcquires = 4
    MaxSets = 1
INVARIANTS
    AvailableSlotIsOffered
\* Once the calls allowed are made, nothing is left to do.
CHECK_DEADLOCK FALSE
