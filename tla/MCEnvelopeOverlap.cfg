\* Envelopes of a number of samples that the channels do not divide.
SPECIFICATION Spec
CONSTANTS
    Names = {x, y}
    Rectangular = Rectangular
    None = None
    Channels = 2
    Depth = 4
    Slots = 2
    OrderDepth = 2
    Lengths = {1, 3}
    MaxWrites = 3
    MaxOrder = 2
SYMMETRY Symmetry
INVARIANTS
    EnvelopesIntact
