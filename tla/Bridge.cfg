SPECIFICATION FairSpec
CONSTANTS
    Heartbeat = 2
    SelectTimeout = 1
    ReadTimeout = 1
    MaxChunk = 2
    Window = 2
    Room = 2
    OneShot = FALSE
    WatchdogEnabled = TRUE
    MaxLines = 4
    MaxAge = 6
INVARIANTS
    TypeOK
    WatchdogInTime
    ZeroedMeansZero
PROPERTIES
    SilenceStopsMachine
    EveryRequestAnswered
