SPECIFICATION Spec
CONSTANTS
    Modules <- MCModules
    Ports <- MCPorts
    Nets <- MCNets
    Designs <- MCDesigns
    DurationWidth = 2
    TimeOfFlightWidth = 2
    TriggerWordWidth = 2
    SeedWidth = 2
    PhaseDepth = 4
    DriveTimerWidth = 2
    FifoDepth = 4
    Configured <- MCConfigured
    Cycles = {0, 1, 3, 4, 5}
    Carriers = {1, 5, 11, 16}
    Resolution = 12
    Seeds = {2, 3, 4}
    ExperimentBits = 8
    ItemNames = {"i", "j"}
    Items <- MCItems
    Sessions <- MCSessions
PROPERTIES
    DebugOverlayBoots
CHECK_DEADLOCK FALSE
