SPECIFICATION Spec
CONSTANTS
    c1 = c1
    c2 = c2
    None = None
    Chunk <- Pair
    Nbr <- PairNbr
    MaxRev = 1
    MaxPins = 0
    Budget = 2
    QueueCap = 2
    Faults = {}
    ApiFlags = {"generated", "full"}
INVARIANTS
    NoLostChunk
CHECK_DEADLOCK FALSE
