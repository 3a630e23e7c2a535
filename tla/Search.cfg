CONSTANTS
    Far = 1000
    NumPoints = 5
    PARTSIZE = 3
    UniversalLabel = 0
    NUM_CANDS = 2
    NaNOccludes = TRUE
    Points <- MCPoints
    Tag <- MCTag
    VectorDist <- MCVectorDist
    Queries <- MCQueries
    Graphs <- MCGraphs
SPECIFICATION EFairSpec
CHECK_DEADLOCK FALSE
INVARIANT WideSearchIsExact
INVARIANT ResultsAreClosest
INVARIANT FindsEveryPoint
INVARIANT AnswersCarryLabels
INVARIANT TruthIsExact
INVARIANT FullScoreMeansExact
PROPERTY ImplementsBestFirst
PROPERTY SearchTerminates
