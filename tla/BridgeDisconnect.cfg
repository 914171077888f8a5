\* A client that sends one action and hangs up.
SPECIFICATION Spec
CONSTANTS
    Heartbeat = 1
    SelectTimeout = 1
    ReadTimeout = 1
    MaxChunk = 1
    Window = 1
    Room = 1
    OneShot = FALSE
    WatchdogEnabled = TRUE
    MaxLines = 1
    MaxAge = 4
INVARIANT HeartbeatEnforced
