SPECIFICATION MCSpec
CONSTANTS
    MaxTick = 4
    MaxTasks = 4
    MaxFibers = 3
    Delays = {0, 1, 2}
    StaleLimit = 1
    None = None
    HeapDues = {1, 2, 3}
    HeapIds = {1, 2, 3}
    MaxLen = 7
    A = A
    B = B
    Classes = {A, B}
    Whats = {"started", "stopping", "session", "task", "command", "cleanup"}
    MaxScopes = 2
    MaxRegs = 2
    MaxDepth = 5
SYMMETRY ClassSymmetry
CONSTRAINT Explored
INVARIANTS
    EveryTaskQueued
    FibersInPlace
    NothingOverdue
    NothingOutlivesItsScope
    ShutdownComplete
PROPERTIES
    HandlesStayInactive
    StartsWhenDue
    PopsInOrder
CHECK_DEADLOCK FALSE
