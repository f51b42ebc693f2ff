SPECIFICATION ProgramSpec
CONSTANTS
    o1 = o1
    o2 = o2
    o3 = o3
    c1 = c1
    w1 = w1
    w2 = w2
    Commands = {o1, c1}
    OpenCommands = {o1}
    WorkspaceOf <- OneOpen
    Workspaces = {w1, w2}
    Expiring = {}
    SafetyCommands = {}
    Observers = {}
    Capacity = 2
    SafetyCapacity = 1
    Faults = {}
    SerialModulus = 16
    FirstSerial = 14
    ChannelCapacity = 2
    ForeignWrites = 0
    Witnessed = {}
    ClientsWait = FALSE
    Crashes = 0
CHECK_DEADLOCK FALSE
INVARIANTS
    ExchangeRetained
