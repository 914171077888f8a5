\* One run, up to its first 10 Hz frames.
SPECIFICATION FairSpec
CONSTANTS
    CreateMapping = TRUE
    BusOpen = TRUE
    Warmup = 0
    Divider = 1
    MaxCycles = 2
    MaxRuns = 1
PROPERTY StatusNeverTakenBack
CHECK_DEADLOCK FALSE
