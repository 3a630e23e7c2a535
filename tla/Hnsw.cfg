CONSTANTS
    N = 6
    T = 2
    CHUNK = 2
    CLEANUP_CHUNK = 3
    L = 3
    R = 2
    MILESTONES = 3
    Levels = {0, 1}
    Medoid = 2
    Far = 1000000
    C = 750
    AlphaNum = 6
    AlphaDen = 5
    PruningRule = 1
    Filtered = FALSE
    UniversalLabel = "0"
    X <- SixPoints
    Dist <- MCDist
    Labels <- NoLabels
    Entries <- NoEntries
    PruneAlphaRng <- MCPruneAlphaRng
    PruneTopK <- MCPruneTopK
    PruneSlots <- MCPruneSlots
    InnerResults <- MCInnerResults
SPECIFICATION HSpec
INVARIANT HSlackBound
INVARIANT RepeatedOnce
INVARIANT HNeverStranded
