\* The promise of the header, one receive object.
SPECIFICATION SpecSnapshot
CONSTANTS
    c1 = c1
    r1 = r1
    Controls = {c1}
    Receives = {r1}
    UsedModes = {}
    UsedKinds = {}
    SetBits = {}
    ToggleMasks = {}
    Gears = {}
    CreateMapping = TRUE
    MaxCommands = 0
    MaxTick = 3
    MaxRuns = 1
INVARIANT SnapshotOfOneTick
