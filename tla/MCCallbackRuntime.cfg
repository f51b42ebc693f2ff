CONSTANTS
    Workers = {w1, w2}
    Ordinary = {o1, o2}
    Cleanup = {c1, c2}
    Spawned = {c2}
    Capacity = 2
    Reserve = 1
    Calls = {k1}
    MaxStreams = 2
    Names = {n1}
    MaxInputs = 0
    MaxLevel = 0
    MaxTicks = 1
    MaxOthers = 1
    MaxProxies = 1
    MaxGeneration = 2
    MaxUpdates = 1
    MaxItems = 2
    MaxComponents = 2
    MaxAtShutdown = 1
    HalCapacity = 3
    HalReserve = 1
SPECIFICATION RuntimeSpec
INVARIANTS
    
    OwnOutputs
PROPERTIES
    
    ShutdownReturns
    
    DeadStreamLetsGo
CHECK_DEADLOCK FALSE
