CONSTANTS
    N = 10
    T = 2
    CHUNK = 4
    CLEANUP_CHUNK = 4
    L = 3
    R = 2
    C = 750
    AlphaNum = 6
    AlphaDen = 5
    NaNOccludes = FALSE
    PruningRule = 0
    Filtered = TRUE
    UniversalLabel = "0"
    Start = 2
    X <- InnerMedoid
    MCLabels <- TwoLabels
    LabelMedoid <- TwoLabelMedoids
    Dist <- MCDist
    Labels <- MCLabelsOf
    Entries <- MCEntries
    PruneAlphaRng <- MCPruneAlphaRng
    PruneTopK <- MCPruneTopK
SPECIFICATION FairSpec
INVARIANT SlackBound
INVARIANT UnpublishedIsolated
INVARIANT DistinctUnlessEntry
INVARIANT NeverStranded
INVARIANT FinalDegree
PROPERTY BuildTerminates
