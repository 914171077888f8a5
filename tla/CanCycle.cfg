\* Two runs, with a bus.
SPECIFICATION FairSpec
CONSTANTS
    CreateMapping = TRUE
    BusOpen = TRUE
    Warmup = 1
    Divider = 2
    MaxCycles = 2
    MaxRuns = 2
INVARIANTS
    TypeOK
    FramesNeverGoBack
    RunCarriesOwnCommands
PROPERTY StopReturns
CHECK_DEADLOCK FALSE
