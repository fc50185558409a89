SPECIFICATION FfiFairSpec
CONSTANTS
    manager = manager
    user = user
    d1 = d1
    Nobody = Nobody
    Managers <- MCManagers
    Users <- MCUsers
    Downloads <- MCDownloads
    Slots <- MCSlots
    NestedCalls <- MCNestedCalls
    MaxDepth = 3
    MaxRuntimes = 2
    MaxContexts = 2
    MaxShutdowns = 1
INVARIANTS
    ContextsReleasedOnce
    OneEngine
    RunsOnLiveRuntime
PROPERTIES
    ContextsReleased
    CallsReturn
\* Once the calls allowed are made, nothing is left to do.
CHECK_DEADLOCK FALSE
