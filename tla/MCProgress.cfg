SPECIFICATION MCSpec
CONSTANTS
    Unknown = Unknown
    None = None
    v1 = v1
INVARIANT
    PayloadsInOrder
PROPERTIES
    ClientsConverge
    SessionsProgress
    StopCompletes
CHECK_DEADLOCK FALSE
