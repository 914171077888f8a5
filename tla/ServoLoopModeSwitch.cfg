\* One program that sends one command and then selects another mode.
SPECIFICATION Spec
CONSTANTS
    c1 = c1
    Controls = {c1}
    UsedModes = {"OpenLoopMotorSpeed", "ClosedLoopJointPosition"}
    UsedKinds = {"SpeedScalarCmd"}
    SetBits = {}
    ToggleMasks = {}
    Gears = {}
    CreateMapping = TRUE
    MaxCommands = 1
INVARIANT LawAdmitsCommand
