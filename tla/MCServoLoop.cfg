\* Two control objects share one runtime and three commands; one receive object
\* reads over two runs of the worker of three cycles each.
SPECIFICATION SpecParts
CONSTANTS
    c1 = c1
    c2 = c2
    r1 = r1
    Controls = {c1, c2}
    First = c1
    Receives = {r1}
    UsedModes = {"OpenLoopMotorSpeed", "ClosedLoopJointPosition"}
    UsedKinds = {"SpeedScalarCmd"}
    SetBits = {5}
    ToggleMasks = {{0}}
    Gears = {2}
    CreateMapping = TRUE
    MaxCommands = 3
    MaxTick = 3
    MaxRuns = 2
INVARIANTS
    TypeOK
    QueueIsBacklog
    PilotInterlock
    SnapshotAtMostOneCycleOld
    RespNotOlderThanRef
PROPERTIES
    StopCompletesCycle
    ImplementsCommandStream
    AcceptedTakesEffect
    StatusTakesEffect
