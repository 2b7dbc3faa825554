\* Frames longer than a read, lines longer than a buffer.
CONSTANTS
    Bytes = {0, 10}
    NL = 10
    ReadMax = 2
    BufSize = 2
    MaxFrame = 3
    MaxOutput = 6
SPECIFICATION Spec
INVARIANTS
    LinesFaithful
    LateOutputBounded
PROPERTY OutputFlows
