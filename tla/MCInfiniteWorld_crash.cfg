SPECIFICATION CrashSpec
CONSTANTS
    Targets <- SomeTargets
    Plans <- SomePlans
    Ground <- Slope
    Wet <- SomeWet
    Lucky <- SomeLuck
INVARIANT
    SlicesAlign
CHECK_DEADLOCK FALSE
