SPECIFICATION FairSpec
CONSTANTS
    Clip = 2
    Delta = 1
    Full = 3
    Reach = 3
    Outdated = {FALSE}
    MaxSteps = 3
    NumEpisodes = 2
    Leftover = 1
    MaxSessions = 2
INVARIANTS
    RecordIsWhatWasDone
    EpisodesSound
    EndedMeansSaved
    EstopStopsMachine
PROPERTIES
    FilesStay
    CommandChangesGently
    AbortEnds
