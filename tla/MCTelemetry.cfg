CONSTANTS
    HalItems = {"i1", "i2"}
    HalStates <- HalStatesDef
    Requests <- RequestsDef
    MaxSubscriptions = 1
    TelemetryCapacity = 1
    MaxSamplesPerSecond = 30
    MaxRevision = 2
    MaxHalChanges = 1
    Sockets = {s1, s2}
    Watches = {t1}
    MaxTopology = 4
    Previews = {p1}
    MaxSessions = 1
    ParserQueue = 1
    BatchSize = 2
    MaxOps = 4
    MaxPosted = 3
    RecLen = 3
    PreTrigger = 1
    MaxAcquisitions = 2
    MaxFrames = 3
    MaxSamples = 4
SPECIFICATION TelemetrySpec
INVARIANTS
    ViewIsCurrent
    TopologyCatchesUp
    SummaryIsComplete
    
    ScopeKeepsUp
CHECK_DEADLOCK FALSE
