CONSTANTS
    Streams = {s1}
    Units = {u1, u2}
    Values = {v1, v2}
    ReplayCapacity = 3
    MaxSequence = 4
    Afters = {0, 1}
    Watchers = {e1}
    RingCapacity = 2
    MaxErrors = 6
    AfterSequences = {0, 1, 4, 15}
    SequenceModulus = 16
    Moves <- MovesDef
    Motions = {1}
    Capacities = {0, 2}
    MaxAppends = 4
    MaxConfigs = 2
    MaxGenerations = 2
    InitialCapacity = 3
SPECIFICATION StreamSpec
SYMMETRY MCSymmetry
INVARIANTS
    FinishAfterWrite
    WakeIsComing
    ShutdownReachesAll
    ErrorsInSequence
    ErrorWakeIsComing
    NothingFromBeforeDisable
    TrailIsHistory
PROPERTIES
    WatchIsFaithful
    UntouchedAfterDone
CHECK_DEADLOCK FALSE
