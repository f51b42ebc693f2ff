SPECIFICATION FairCoordinatorSpec
CONSTANTS
    Commands = {n1, n2, s1}
    SafetyCommands = {s1}
    Observers = {o1}
    Capacity = 2
    SafetyCapacity = 1
INVARIANTS
    InductiveInvariant
PROPERTIES
    ImplementsContract
    EveryObserverIsCalled
    ShutdownFinishes
CHECK_DEADLOCK FALSE
