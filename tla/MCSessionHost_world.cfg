SPECIFICATION Spec
CONSTANTS
    None = None
    Sessions = {1, 2}
    Spawn = 1
    Places = {1, 2}
    Packets <- AllPackets
    MaxRadius = 2
    MaxDeferred = 1
    EventCap = 1
    CommandCap = 1
    Budget = 1
    ListenerFails = TRUE
CONSTRAINT Explored
INVARIANTS
    PinsExact
    ViewFollowsPlayer
PROPERTIES
    LifecycleOrder
CHECK_DEADLOCK FALSE
