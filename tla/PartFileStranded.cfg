SPECIFICATION Spec
CONSTANTS
    c1 = c1
    c2 = c2
    c3 = c3
    Chunks <- MCTwoChunks
    Fragments = 1
    MaxFaults = 1
INVARIANTS
    NeverStranded
