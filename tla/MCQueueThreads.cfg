\* Two producers and two consumers, one of each with a timeout.
SPECIFICATION Spec
CONSTANTS
    p1 = p1
    p2 = p2
    c1 = c1
    c2 = c2
    small = small
    large = large
    oversize = oversize
    Producers <- MCProducers
    Items <- MCItems
    Size <- MCSize
    TimedPut <- MCTimedPut
    TimedGet <- MCTimedGet
    Consumers <- MCConsumers
    Nobody = Nobody
    MaxBytes = 3
    MaxSessions = 1
INVARIANTS
    TypeOK
    MemoryBound
    Accounted
    NoSleepOnItem
PROPERTIES
    DiscardReleasesPut
    CloseReleasesAll
