CONSTANTS
    Far = 1000
    NumPoints = 3
    Data <- MCData
    MAX_K_MEANS_REPS = 4
    ClusterCounts = {1, 2}
    MAX_BLOCK_SIZE = 2
    MaxBuilds = 2
    IvfQueries <- MCIvfQueries
SPECIFICATION FairSpec
INVARIANT EveryPointOnce
INVARIANT AnswerIsClosest
PROPERTY ResidualNeverGrows
PROPERTY TrainingEnds
