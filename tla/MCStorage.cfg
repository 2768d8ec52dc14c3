SPECIFICATION MCSpec
CONSTANTS
    c1 = c1
    c2 = c2
    None = None
    Torn = Torn
    Chunk <- Pair
    Nbr <- PairNbr
    MaxRev = 1
    MaxPins = 1
    Budget = 1
    QueueCap = 1
    Faults = {"save", "load"}
    ApiFlags = {"full"}
INVARIANTS
    NoLostChunk
    MissingIsAbsent
    ReceiptsAccepted
    GeneratorNotAhead
    FlushedIsDurable
    AnsweredInOrder
PROPERTIES
    StorageNeverRegresses
    StorageStops
    SavedInTurn
    WorldFilesAtomic
CHECK_DEADLOCK FALSE
