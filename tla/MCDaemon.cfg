SPECIFICATION DaemonSpec
CONSTANTS
    n1 = n1
    s1 = s1
    Commands = {n1, s1}
    SafetyCommands = {s1}
    OpenCommands = {}
    Observers = {}
    Capacity = 1
    SafetyCapacity = 1
    Faults = {"cancel", "write", "disconnect", "timeout", "shutdown"}
    SerialModulus = 8
    FirstSerial = 7
    ChannelCapacity = 3
    ForeignWrites = 0
    Witnessed = {n1, s1}
    Callers = {a1, a2, a3, a4}
    Limit = 2
    Calls = {k1, k2}
    MaxStreams = 2
    Names = {n1}
    MaxInputs = 2
    MaxLevel = 1
    MaxTicks = 1
    MaxOthers = 1
    MaxProxies = 1
    MaxGeneration = 2
    MaxUpdates = 0
    MaxItems = 4
    MaxComponents = 2
    MaxAtShutdown = 1
    HalCapacity = 2
    HalReserve = 1
    Archives <- ArchivesDef
    UploadCalls = {u1, u2}
    Ids = {i1, i2}
    MaxEntries = 2
    MaxBytes = 2
    MaxWorkspaces = 2
    MaxTotalBytes = 3
    MaxCrashes = 1
INVARIANTS
    VerdictHasGround
    OneOwner
    CancelledIsNeverSent
    OnlyAcceptedSurviveExit
    ActiveIsCounted
    NothingOutlivesServices
    DeltasAddUp
    RevisionsAreWhole
CHECK_DEADLOCK FALSE
