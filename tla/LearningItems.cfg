\* The learning target on the directories of MCLearning.cfg: one run, one epoch.
SPECIFICATION SpecLearning
CONSTANTS
    Kinds <- KindsDef
    Begun <- BegunDef
    MaxEpisodes = 3
    ShortEpisode = 1
    NumEpisodes = 3
    EpisodeLen = 3
    TrainPercent = 80
    NumEpochs = 1
    ValEvery = 1
    SaveLatestEvery = 1
    CheckpointEvery = 3
    Inf = 2
    MaxRuns = 1
    ChunkSize = 2
    MaxEpisodeLen = 4
    MaxInferences = 1
INVARIANT ActionsFromObservation
CHECK_DEADLOCK FALSE
