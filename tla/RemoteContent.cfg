SPECIFICATION Spec
CONSTANTS
    DefaultChunkSize = 2
    MaxOffset = 8
    MaxU64 = 20
    ByteBits = 2
    SlotHead = 2
    Alignment = 4
    Longest = 5
    Lengths = {0, 3, 5}
    ChunkSizes = {0, 1, 4}
    MaxVersions = 2
INVARIANTS
    ChunksInPlace
    SlotsUntouched
    ProgressExact
    OneVersion
    TargetIsExpected
