\* Envelopes that fill all channels to the same address.
SPECIFICATION Spec
CONSTANTS
    Names = {x, y, z}
    Rectangular = Rectangular
    None = None
    Channels = 2
    Depth = 4
    Slots = 2
    OrderDepth = 2
    Lengths = {2, 4}
    MaxWrites = 3
    MaxOrder = 3
SYMMETRY Symmetry
INVARIANTS
    TypeOK
    EnvelopesIntact
    WordsPlayTheirSamples
    OrderPlaysItsPulses
