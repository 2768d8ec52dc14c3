SPECIFICATION Spec
CONSTANTS
    None = None
    Sessions = {1}
    Spawn = 1
    Places = {1, 2}
    Packets <- MovePackets
    MaxRadius = 1
    MaxDeferred = 1
    EventCap = 2
    CommandCap = 1
    Budget = 1
    ListenerFails = FALSE
PROPERTY
    LeaverIsGone
CHECK_DEADLOCK FALSE
