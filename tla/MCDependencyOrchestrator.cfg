SPECIFICATION Spec
CONSTANTS
    w = w
    x = x
    y = y
    r = r
    Unhashed = Unhashed
    Empty = 0
    Nodes <- MCNodes
    Registers <- MCRegisters
    Values <- MCValues
    Compute <- MCCompute
INVARIANTS
    TypeOK
    Fresh
PROPERTIES
    InOrder
