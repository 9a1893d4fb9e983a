SPECIFICATION Spec
CONSTANTS
    a = a
    b = b
    c = c
    Vars <- MCVars
    Routines <- MCRoutines
    Definitions <- MCDefinitions
INVARIANTS
    TypeOK
    HardwareAtPoint
    GridInOrder
CHECK_DEADLOCK FALSE
