\* Every set of capabilities a runner may have, and one line of noise.
CONSTANTS
    Caps <- AllCaps
    WorkerCaps <- WorkersOwn
    MaxNoise = 1
SPECIFICATION Spec
INVARIANTS
    CapabilitiesShared
    OnlyHandledPackets
PROPERTIES
    PacketsArrive
    HandshakeCompletes
