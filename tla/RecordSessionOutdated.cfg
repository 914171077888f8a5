SPECIFICATION Spec
CONSTANTS
    Clip = 2
    Delta = 1
    Full = 3
    Reach = 3
    Outdated = {FALSE, TRUE}
    MaxSteps = 3
    NumEpisodes = 2
    Leftover = 1
    MaxSessions = 2
PROPERTIES
    OutdatedForcesZero
