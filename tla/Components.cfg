SPECIFICATION ComponentsSpec
CONSTANTS
    p1 = p1
    p2 = p2
    p3 = p3
    user = user
    worker = worker
    m1 = m1
    m2 = m2
    c1 = c1
    c2 = c2
    fetch1 = fetch1
    fetch2 = fetch2
    host = host
    x = x
    y = y
    short = short
    long = long
    refusal = refusal
    Garbage = Garbage
    Nothing = Nothing
    NoError = NoError
    Processes <- MCThreeProcesses
    Threads <- MCThreads
    Setters <- MCSetters
    Timers <- MCTimers
    Callers <- MCCallers
    Fetchers <- MCFetchers
    Reporters <- MCHosts
    Askers <- MCThreads
    Contents <- MCContents
    Readers <- MCHosts
    TaskErrors <- MCTaskErrors
    CallErrors <- MCCallErrors
    MessageLen <- MCMessageLen
    MaxFiles = 3
    MaxChanges = 2
    MaxInstalls = 2
    MaxCreates = 2
    MaxListeners = 2
    Capacity = 2
    MaxConfigs = 2
    MaxStarts = 2
    MaxReports = 1
    BodyLengths = {1}
    Window = 1
    Delay = 1
    MaxMoment = 4
    MaxReceived = 2
    Block = 8
    LengthBytes = 2
    ReadSizes = {3, 8, 16}
    MaxLen = 35
    Kinds = {"sha256", "md5"}
    MaxErrors = 4
INVARIANTS
    OneAtATimeBeforeTarget
    PromotesItsOwn
    NoLostReport
    OneNativeTask
    OldTasksSilent
    SpeedIsOfWindow
    BlocksOfMessage
    AskedIsVerified
    MessageIsWhole
PROPERTIES
    Reported
    CloseReleases
    EndSignalled
\* Once the calls allowed are made, nothing is left to do.
CHECK_DEADLOCK FALSE
