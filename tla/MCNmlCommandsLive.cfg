SPECIFICATION FairNmlSpec
CONSTANTS
    n1 = n1
    Commands = {n1}
    SafetyCommands = {}
    OpenCommands = {n1}
    Observers = {o1}
    Capacity = 1
    SafetyCapacity = 1
    Faults = {"cancel", "timeout", "prepare", "disconnect", "shutdown"}
    SerialModulus = 8
    FirstSerial = 7
    ChannelCapacity = 3
    ForeignWrites = 1
    Witnessed = {}
PROPERTIES
    EveryCommandSettles
    PollingStops
CHECK_DEADLOCK FALSE
