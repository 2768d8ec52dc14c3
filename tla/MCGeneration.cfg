SPECIFICATION MCSpec
CONSTANTS
    Targets <- SomeTargets
    Plans <- SomePlans
    Ground <- Slope
    Wet <- SomeWet
    Lucky <- SomeLuck
INVARIANTS
    PiecesApart
    PiecesInReach
    BuiltInPlace
    SlicesAlign
    DoneOnce
    SlicesBuilt
    RoundTrip
    PlanesAgree
    LightIsExact
PROPERTIES
    ChunkIsFinished
CHECK_DEADLOCK FALSE
