\* Seven steps of two episodes, two processes of two episodes each, buffers of three,
\* a bus of two devices, three publications, started twice, and a drift learned from
\* two cycles; the laws of motion need no bound on the cycles.
SPECIFICATION SpecParts
CONSTANTS
    Full = 6
    Travel = 4
    Deadzone = 1
    Attack = 2
    Release = 3
    Recenter = 4
    ScaleNum = 2
    ScaleDen = 3
    SourceClip = 6
    KeySpeed = 3
    Clip = 3
    Delta = 1
    Ids = {0, 1}
    Buttons = {"discard", "quit"}
    MaxLag = 2
    MaxSteps = 7
    NumEpisodes = 2
    Sends = {1, 7}
    MaxStepId = 2
    MaxEpisodes = 2
    MaxProcesses = 2
    MaxLen = 3
    MaxAge = 4
    Slop = 2
    PreferPast = TRUE
    Times = {1, 2, 3, 4, 5, 6, 7}
    DeviceCount = 2
    CreateMapping = TRUE
    MaxSequence = 3
    MaxRuns = 2
    HalfSpan = 12
    SlewStep = 2
    Deadband = 1
    Threshold = 0
    BiasCycles = 2
    Scalars <- ScalarsDef
    Velocities <- VelocitiesDef
    Positions <- PositionsDef
INVARIANTS
    ReleasedStickStops
    RowsWithoutButtons
    AppliedOnce
    SyncSound
    NearlyWhole
    ZeroIsNeutral
PROPERTIES
    OwnAxisStays
    AwayFromNeutralGently
CHECK_DEADLOCK FALSE
