SPECIFICATION Spec
CONSTANTS
    v1 = v1
    v2 = v2
    Unknown = Unknown
    Chunks = {1, 2}
    Blocks = {1, 2}
    Viewers = {v1, v2}
    Views <- MovingViews
    Capacity = 2
    PointMax = 1
    BatchMax = 1
    QueueCap = 2
    Patches <- SomePatches
    Generator = "infinite"
    MaxStamp = 3
SYMMETRY Symmetry
CONSTRAINT Explored
INVARIANT
    NothingForgotten
PROPERTY
    ClientsNeverGoBack
CHECK_DEADLOCK FALSE
