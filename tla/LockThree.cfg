SPECIFICATION Spec
CONSTANTS
    p1 = p1
    p2 = p2
    p3 = p3
    Processes <- MCThreeProcesses
    MaxFiles = 3
SYMMETRY MCSymmetry
INVARIANTS
    OneAtATime
\* Once the target is there, nobody has anything left to do.
CHECK_DEADLOCK FALSE
