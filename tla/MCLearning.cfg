\* Two or three episodes of two, three (as many as an item holds) or four (too many)
\* steps, three epochs, two runs of tb-train; chunks of two actions.
SPECIFICATION SpecLearning
CONSTANTS
    Kinds <- KindsDef
    Begun <- BegunDef
    MaxEpisodes = 3
    ShortEpisode = 1
    NumEpisodes = 3
    EpisodeLen = 3
    TrainPercent = 80
    NumEpochs = 3
    ValEvery = 2
    SaveLatestEvery = 1
    CheckpointEvery = 3
    Inf = 2
    MaxRuns = 2
    ChunkSize = 2
    MaxEpisodeLen = 4
    MaxInferences = 2
INVARIANTS
    ResumedWorkSurvives
    ValidationHeldOut
    StatusTrue
    BestWasValidated
    QcPassedLoads
    ItemsSound
    ChunksAligned
CHECK_DEADLOCK FALSE
