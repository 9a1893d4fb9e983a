SPECIFICATION Spec
CONSTANTS
    a = a
    b = b
    Unhashed = Unhashed
    Acqs <- MCAcqs
    Topologies <- MCTopologies
    FifoSize = 5
    MaxRepetitions = 3
    RawWidth = 16
    DecimatedWidth = 8
    Durations <- MCDurations
    Counts <- MCCounts
INVARIANTS
    ShotsConfigured
CHECK_DEADLOCK FALSE
